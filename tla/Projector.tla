------------------------------ MODULE Projector ------------------------------
(***************************************************************************)
(* The projector in the service: internal/projection behind internal/bus,  *)
(* with the commands and the saga that record events and the boot that     *)
(* catches up.                                                             *)
(*                                                                         *)
(* A command is one step up to its COMMIT, as in TransferSaga; what it      *)
(* publishes afterwards waits in unpublished.  The saga's queue, workers   *)
(* and attempts are TransferSaga's; here a debit is one the saga has still *)
(* to credit or one it gave up and has still to reverse.  The partitions   *)
(* have room: TransferSaga has the backpressure.                           *)
(*                                                                         *)
(* Transactions of two partitions may overlap.  They share no row: one     *)
(* account is one partition's, a transfer's settlement is recorded after   *)
(* the projector is done with its debit, well or not, and of two           *)
(* settlements the first was never published.                              *)
(***************************************************************************)
EXTENDS ReadModel, FiniteSetsExt

CONSTANTS
  Amounts,        \* amounts of the commands
  Partitions,     \* partitions of the bus
  PartitionOf,    \* hash of an account id, modulo the partitions
  MaxEvents,      \* no client starts a command on a longer log
  MaxFaults       \* crashes, signals and calls to the database that fail

ASSUME ProjectorAssumption ==
  /\ Amounts \subseteq 1 .. MaxOperationAmount
  /\ PartitionOf \in [AccountIds -> Partitions]
  /\ MaxEvents \in Nat /\ MaxFaults \in Nat

VARIABLES
  log,          \* table events in the order of seq
  db,           \* the projector's tables
  phase,        \* of the service: "down", "boot", "serving", "stopping"
  todo,         \* what CatchUp has still to apply
  unpublished,  \* batches committed by goroutines that have not published them
  bus,          \* events of each partition on their way to the handlers
  handed,       \* debits the saga has to credit
  reversing,    \* debits whose credit it gave up, to compensate
  missed,       \* auxiliary: events this life will not project any more
  faults,       \* so far
  known         \* auxiliary: account ids clients were told

volatile == <<todo, unpublished, bus, handed, reversing, missed>>
vars == <<log, db, phase, volatile, faults, known>>

EmptyBus == [p \in Partitions |-> <<>>]

Init ==
  /\ log = <<>> /\ db = EmptyTables
  /\ phase = "serving"
  /\ todo = <<>> /\ unpublished = {} /\ bus = EmptyBus
  /\ handed = {} /\ reversing = {} /\ missed = {} /\ faults = 0 /\ known = {}

Recorded == {log[i] : i \in DOMAIN log}

EventsByAggregate(a) ==
  LET own == {e \in Recorded : e.aggregate_id = a}
  IN  [v \in {e.version : e \in own} |-> CHOOSE e \in own : e.version = v]

Load(a) == Replay(EmptyAccount, EventsByAggregate(a))

Table == [a \in AccountIds |-> EventsByAggregate(a)]

-----------------------------------------------------------------------------
(***************************************************************************)
(* Commands                                                                *)
(***************************************************************************)
Fault == faults < MaxFaults /\ faults' = faults + 1

\* Mutant: the batch is published although the append failed.
AppendFailed(batch) ==
  /\ unpublished' = unpublished \cup {batch}
  /\ UNCHANGED <<log, missed>>

\* The commit; then publish has the batch.
Record(batch) ==
  /\ log' = log \o batch
  /\ unpublished' = unpublished \cup {batch}
  /\ UNCHANGED missed

\* The commit takes effect and its answer is lost: nobody publishes the batch.
AnswerLost(batch) ==
  /\ Fault
  /\ log' = log \o batch
  /\ missed' = missed \cup {batch[i] : i \in DOMAIN batch}
  /\ UNCHANGED unpublished

\* Requests in progress go on after a SIGTERM.
Command(batch) ==
  /\ phase \in {"serving", "stopping"}
  /\ Len(log) < MaxEvents
  /\ \/ Record(batch) /\ UNCHANGED faults
     \/ AnswerLost(batch)
  /\ UNCHANGED <<db, phase, todo, bus, handed, reversing, known>>

\* NewID: the id is fresh, no request has named it.  The deposit is optional.
Open(a, initialDeposit) ==
  LET opened    == OpenAccount(a, TRUE).event
      deposited == Deposit(Apply(EmptyAccount, opened), initialDeposit).event
  IN  /\ a \notin Malformed
      /\ \A e \in Recorded : a \notin {e.aggregate_id, e.peer}
      /\ Command(IF initialDeposit = 0 THEN <<opened>> ELSE <<opened, deposited>>)

Mutate(a, d) == a \in known /\ d.err = "nil" /\ Command(<<d.event>>)

\* The destination is an account a client was told of, or no account at all.
StartTransfer(t, from, to, amount) ==
  /\ \A e \in Recorded : e.transfer_id # t
  /\ to \in known \/ \A e \in Recorded : e.aggregate_id # to
  /\ Mutate(from, DebitTransfer(Load(from), t, to, amount))

-----------------------------------------------------------------------------
(***************************************************************************)
(* The bus and its two handlers                                            *)
(***************************************************************************)
\* One turn of publish's loop, after the last the command returns.  Once the
\* service is stopping Publish may drop.
Publish(batch) ==
  LET e == Head(batch)
      p == PartitionOf[e.aggregate_id]
      others == unpublished \ {batch}
  IN  /\ batch \in unpublished
      /\ unpublished' = IF Len(batch) = 1 THEN others ELSE others \cup {Tail(batch)}
      /\ \/ bus' = [bus EXCEPT ![p] = Append(@, e)] /\ UNCHANGED missed
         \/ /\ phase = "stopping"
            /\ missed' = missed \cup {e}
            /\ UNCHANGED bus
      /\ known' = IF Len(batch) = 1 THEN known \cup {e.aggregate_id} ELSE known
      /\ UNCHANGED <<log, db, phase, todo, handed, reversing, faults>>

\* Projector.Handle logs an error and forgets the event.  After the SIGTERM every
\* transaction fails: its context is cancelled.
Handle(e) ==
  \/ /\ phase = "serving"
     /\ db' = ApplyTx(db, e)
     /\ missed' = IF e \in db'.processed THEN missed ELSE missed \cup {e}
     /\ UNCHANGED faults
  \/ /\ (phase = "stopping" /\ UNCHANGED faults) \/ Fault
     /\ missed' = missed \cup {e}
     /\ UNCHANGED db

\* deliver: the projector, and when it is done the saga, which takes debits.  What
\* it is handed after a SIGTERM it cannot settle in this life.
Deliver(p) ==
  LET e == Head(bus[p])
  IN  /\ bus[p] # <<>>
      /\ bus' = [bus EXCEPT ![p] = Tail(@)]
      /\ Handle(e)
      /\ handed' = IF phase = "serving" /\ e.type = "transfer.debited"
                   THEN handed \cup {e} ELSE handed
      /\ UNCHANGED <<log, phase, todo, unpublished, reversing, known>>

-----------------------------------------------------------------------------
(***************************************************************************)
(* process: the attempts to credit, then the compensation                  *)
(***************************************************************************)
Credited(d) == handed' = handed \ {d} /\ UNCHANGED reversing
GiveUp(d)   == handed' = handed \ {d} /\ reversing' = reversing \cup {d}
Kept        == UNCHANGED <<log, unpublished, missed>>

\* A call of CreditTransfer.  A refusal is compensated at once; so is, in the end, a
\* destination that is no id at all.  When the answer to the COMMIT is lost process
\* tries again, unless that was its last attempt.
Credit(d) ==
  LET credit == CreditTransfer(Load(d.peer), d.transfer_id, d.aggregate_id, d.amount)
  IN  /\ phase = "serving"
      /\ IF HasTransferEvent(Table, "transfer.credited", d.transfer_id)
         THEN Credited(d) /\ Kept /\ UNCHANGED faults
         ELSE IF credit.err # "nil" THEN GiveUp(d) /\ Kept /\ UNCHANGED faults
         ELSE \/ Record(<<credit.event>>) /\ Credited(d) /\ UNCHANGED faults
              \/ AnswerLost(<<credit.event>>) /\ UNCHANGED <<handed, reversing>>
              \/ AnswerLost(<<credit.event>>) /\ GiveUp(d)
      /\ UNCHANGED <<db, phase, todo, bus, known>>

\* The database fails every attempt that is left.
CreditFails(d) ==
  /\ phase = "serving"
  /\ Fault /\ GiveUp(d) /\ Kept
  /\ UNCHANGED <<db, phase, todo, bus, known>>

\* ReverseTransfer looks for a reversal, not for a credit nobody answered.
Reverse(d) ==
  LET reverse == ReverseTransfer(Load(d.aggregate_id), d.transfer_id, d.amount)
  IN  /\ phase = "serving"
      /\ reversing' = reversing \ {d}
      /\ IF HasTransferEvent(Table, "transfer.reversed", d.transfer_id)
         THEN Kept /\ UNCHANGED faults
         ELSE \/ Record(<<reverse.event>>) /\ UNCHANGED faults
              \/ AnswerLost(<<reverse.event>>)
      /\ UNCHANGED <<db, phase, todo, bus, handed, known>>

\* The compensation fails too: "will retry on next boot".
ReverseFails(d) ==
  /\ phase = "serving"
  /\ Fault /\ Kept
  /\ reversing' = reversing \ {d}
  /\ UNCHANGED <<db, phase, todo, bus, handed, known>>

-----------------------------------------------------------------------------
(***************************************************************************)
(* Crash, boot and shutdown                                                *)
(***************************************************************************)
Die ==
  /\ phase' = "down"
  /\ todo' = <<>> /\ unpublished' = {} /\ bus' = EmptyBus
  /\ handed' = {} /\ reversing' = {} /\ missed' = {}
  /\ UNCHANGED <<log, db>>

Crash ==
  /\ phase # "down"
  /\ Fault /\ Die
  /\ UNCHANGED known

\* Mutant: the boot does not look for events that were not projected.
BootWithoutCatchUp ==
  /\ phase = "down"
  /\ phase' = "boot"
  /\ UNCHANGED <<log, db, volatile, faults, known>>

Boot ==
  /\ phase = "down"
  /\ phase' = "boot"
  /\ todo' = LoadUnprocessed(log, db.processed)
  /\ UNCHANGED <<log, db, unpublished, bus, handed, reversing, missed, faults, known>>

\* Projector.CatchUp: one turn of its loop.
CatchUp ==
  /\ phase = "boot" /\ todo # <<>>
  /\ db' = ApplyTx(db, Head(todo))
  /\ Head(todo) \in db'.processed
  /\ todo' = Tail(todo)
  /\ UNCHANGED <<log, phase, unpublished, bus, handed, reversing, missed, faults, known>>

\* Mutant: CatchUp logs the error and goes on.
CatchUpSkips ==
  /\ phase = "boot" /\ todo # <<>>
  /\ \/ Head(todo) \notin ApplyTx(db, Head(todo)).processed /\ UNCHANGED faults
     \/ Fault
  /\ todo' = Tail(todo)
  /\ UNCHANGED <<log, db, phase, unpublished, bus, handed, reversing, missed, known>>

\* CatchUp returns an error: fatal ends the process.
CatchUpFails ==
  /\ phase = "boot" /\ todo # <<>>
  /\ \/ Head(todo) \notin ApplyTx(db, Head(todo)).processed /\ UNCHANGED faults
     \/ Fault
  /\ Die
  /\ UNCHANGED known

\* Bus and workers start, the saga's catch-up queues what is pending, then the API
\* listens.
Serve ==
  /\ phase = "boot" /\ todo = <<>>
  /\ phase' = "serving"
  /\ handed' = PendingTransferDebits(Table)
  /\ UNCHANGED <<log, db, todo, unpublished, bus, reversing, missed, faults, known>>

\* SIGTERM.
Shutdown ==
  /\ phase = "serving"
  /\ Fault
  /\ phase' = "stopping"
  /\ UNCHANGED <<log, db, volatile, known>>

\* Close waits for the partitions to drain.
Exit ==
  /\ phase = "stopping" /\ bus = EmptyBus
  /\ Die
  /\ UNCHANGED <<faults, known>>

-----------------------------------------------------------------------------
Client ==
  \E a \in AccountIds, n \in Amounts :
    \/ Open(a, n) \/ Open(a, 0)
    \/ Mutate(a, Deposit(Load(a), n))
    \/ Mutate(a, Withdraw(Load(a), n))
    \/ \E t \in TransferIds, to \in AccountIds : StartTransfer(t, a, to, n)

Request == \E batch \in unpublished : Publish(batch)

Saga ==
  \/ \E d \in handed : Credit(d) \/ CreditFails(d)
  \/ \E d \in reversing : Reverse(d) \/ ReverseFails(d)

Startup == Boot \/ CatchUp \/ CatchUpFails \/ Serve

\* What the service does by itself.
Service ==
  \/ Request \/ Saga \/ Startup \/ Exit
  \/ \E p \in Partitions : Deliver(p)

Next == Service \/ Client \/ Crash \/ Shutdown

Spec == Init /\ [][Next]_vars

\* As long as some goroutine of the service can go on, one does, and an operator
\* restarts it.  Commands and faults are finite in number.
FairSpec == Spec /\ WF_vars(Service)

-----------------------------------------------------------------------------
(***************************************************************************)
(* Properties                                                              *)
(***************************************************************************)
\* What each variable holds; only recorded events are anywhere.
TypeOK ==
  /\ Recorded \subseteq Event
  /\ DOMAIN db.balances \subseteq AccountIds
  /\ \A a \in DOMAIN db.balances : db.balances[a] \in Int
  /\ db.transfers \in [TransferIds -> {"none", "pending", "completed", "reversed"}]
  /\ db.processed \subseteq Recorded /\ missed \subseteq Recorded
  /\ phase \in {"down", "boot", "serving", "stopping"}
  /\ todo \in Seq(Recorded)
  /\ \A b \in unpublished : b \in Seq(Recorded) /\ b # <<>>
  /\ \A p \in Partitions : bus[p] \in Seq(Recorded)
  /\ handed \subseteq Recorded /\ reversing \subseteq Recorded
  /\ faults \in 0 .. MaxFaults
  /\ known \subseteq {e.aggregate_id : e \in Recorded}

Of(S, a) == {x \in S : x.aggregate_id = a}

Change  == [e \in Event |-> Delta(e)]
Entry   == [event : Event, account_id : AccountIds, amount : Int]
Entered == [s \in Entry |-> s.amount]

\* What GET balance returns is the sum of the account's projected events as the
\* write side counts them, in whatever order and life they were projected, and
\* equals the sum of its statement; an account with a projected event is found.
ReadModelsFaithful ==
  \A a \in AccountIds :
    LET entries == {s \in db.statement : s.account_id = a}
        got     == Balance(db, a)
    IN  /\ got.balance = MapThenSumSet(LAMBDA e : Change[e], Of(db.processed, a))
        /\ got.balance = MapThenSumSet(LAMBDA s : Entered[s], entries)
        /\ got.err = "nil" <=> Of(db.processed, a) # {}

\* "consumidores DEVEM ser idempotentes": at any time, delivering an event once more
\* changes no table, also when another came in between, and two events leave the
\* same balances and statements in either order, unless the order decides which of
\* them is projected at all.
RedeliveryHarmless ==
  \A e, f \in Recorded :
    LET ef == ApplyTx(ApplyTx(db, e), f)
        fe == ApplyTx(ApplyTx(db, f), e)
    IN  /\ e \in ef.processed => ApplyTx(ef, e) = ef
        /\ ef.processed = fe.processed
             => ef.balances = fe.balances /\ ef.statement = fe.statement

InFlight ==
  (UNION {{b[i] : i \in DOMAIN b} : b \in unpublished})
  \cup (UNION {{bus[p][i] : i \in DOMAIN bus[p]} : p \in Partitions})

\* While the service is serving an event not projected yet is on its way to the
\* projector, or its projection or publication failed in this life: the boot left
\* nothing behind "antes de aceitar tráfego novo".
NothingForgotten ==
  phase = "serving" => Recorded \ db.processed \subseteq InFlight \cup missed

Projected(type, t) == \E e \in db.processed : e.type = type /\ e.transfer_id = t

\* What GET transfer returns is a status the projected events give the transfer.
TransfersFaithful ==
  \A t \in TransferIds :
    LET final == {s \in {"completed", "reversed"} :
                    \/ s = "completed" /\ Projected("transfer.credited", t)
                    \/ s = "reversed"  /\ Projected("transfer.reversed", t)}
    IN  IF final # {} THEN Transfer(db, t) \in final
        ELSE Transfer(db, t) = IF Projected("transfer.debited", t) THEN "pending" ELSE "none"

\* Both credited and reversed: process compensates a credit whose answer was lost.
SettledTwice(t) ==
  \A type \in {"transfer.credited", "transfer.reversed"} :
    HasTransferEvent(Table, type, t)

\* The two final statuses of a transfer settled twice are not told apart.
PolledStatus(t) ==
  IF SettledTwice(t) /\ Transfer(db, t) = "reversed" THEN "completed" ELSE Transfer(db, t)

Polled == INSTANCE TransferSpec WITH status <- [t \in TransferIds |-> PolledStatus(t)]

\* Clients who poll GET transfer see the life TransferSpec promises: pending once,
\* then one final status for good, even when projections fail and are caught up.  The
\* exception is a transfer the log both credits and reverses: it keeps a final status,
\* but the next boot, which projects the unanswered credit, turns reversed into
\* completed.
TransferRowsFollowSpec == Polled!Spec

\* The read models always catch up with the log: through crashes, shutdowns that
\* drop events and boots that fail, every recorded event is projected in the end,
\* unless that failed in a life of the service that still goes on.
EveryEventProjected == []<>(Recorded \subseteq db.processed \cup missed)

\* "um crash em qualquer ponto do fluxo é retomado no próximo boot": after a crash
\* the service comes back.
ServiceRecovers == phase = "down" ~> phase = "serving"
=============================================================================

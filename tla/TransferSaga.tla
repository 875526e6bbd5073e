----------------------------- MODULE TransferSaga -----------------------------
(***************************************************************************)
(* The transfer saga: internal/saga with the commands of internal/app it   *)
(* runs and the boot and shutdown of cmd/api/main.go around it.            *)
(*                                                                         *)
(* A client's StartTransfer debits the source and hands the debit to the   *)
(* bus; the saga's handler queues it; a worker credits the destination, or *)
(* after a business error or too many failures reverses the debit, and     *)
(* publishes what it did on the same bus.  The only durable state is the   *)
(* table events: a crash forgets where every transfer was, and the next    *)
(* boot looks for debits without an answer.                                *)
(*                                                                         *)
(* Load, decide and commit are one step here, as CommandSideRefinement     *)
(* justifies.  The query of HasTransferEvent before them is a step of its  *)
(* own.  Deposits, withdrawals and the projector are left out.             *)
(***************************************************************************)
EXTENDS EventStore, FiniteSetsExt

CONSTANTS
  Opened,           \* the accounts that exist, a subset of AccountIds
  Funds,            \* what each of them was opened with
  Amounts,          \* amounts clients transfer
  Workers,          \* goroutines of the saga
  Partitions,       \* partitions of the bus
  PartitionOf,      \* hash of an account id, modulo the partitions
  BusSize,          \* events of a partition: its buffer and the one being delivered
  creditRetries,    \* attempts to credit before compensating
  QueueSize,        \* capacity of the saga's queue
  Failures          \* may calls to the database fail, with or without effect?

ASSUME TransferSagaAssumption ==
  /\ Opened \subseteq AccountIds /\ IsFiniteSet(Opened)
  /\ Funds \in 1 .. MaxOperationAmount
  /\ Amounts \subseteq 1 .. MaxOperationAmount
  /\ PartitionOf \in [AccountIds -> Partitions]
  /\ BusSize \in Nat \ {0}
  /\ creditRetries \in Nat \ {0}
  /\ QueueSize \in Nat \ {0}
  /\ Failures \in BOOLEAN

VARIABLES
  events,       \* table events
  phase,        \* of the service: "down", "boot", "serving", "stopping"
  unpublished,  \* debits committed by a StartTransfer that has not published yet
  bus,          \* events of each partition on their way to the handlers
  resuming,     \* debits CatchUp has found and not yet queued
  queue,        \* the saga's queue
  step,         \* next call of each worker, "idle" between two debits
  event,        \* the debit it processes, at "publish" the event it recorded
  attempt,      \* failed attempts to credit it
  abandoned,    \* auxiliary: debits this life gave up, or was told it did not record
  lost          \* auxiliary: transfers credited by a COMMIT whose answer was lost

volatile == <<unpublished, bus, resuming, queue, step, event, attempt, abandoned>>
vars == <<events, phase, volatile, lost>>

Processing  == {"checkCredit", "credit", "checkReverse", "reverse"}
WorkerSteps == Processing \cup {"idle", "publish"}
EmptyBus    == [p \in Partitions |-> <<>>]

OpeningRows(a) ==
  Insert(NoRows, <<NewEvent(a, 1, "account.opened", 0, NoId, NoId),
                   NewEvent(a, 2, "money.deposited", Funds, NoId, NoId)>>)

Init ==
  /\ events = [a \in AccountIds |-> IF a \in Opened THEN OpeningRows(a) ELSE NoRows]
  /\ phase = "serving"
  /\ unpublished = {} /\ bus = EmptyBus /\ resuming = {} /\ queue = <<>>
  /\ step = [w \in Workers |-> "idle"]
  /\ event = [w \in Workers |-> NoEvent]
  /\ attempt = [w \in Workers |-> 0]
  /\ abandoned = {} /\ lost = {}

\* Load at the instant of the commit; EmptyAccount when there are no rows, which
\* every decision refuses with ErrAccountNotFound.
Load(a) == Replay(EmptyAccount, events[a])

Append1(e) == events' = [events EXCEPT ![e.aggregate_id] = Insert(@, <<e>>)]

-----------------------------------------------------------------------------
(***************************************************************************)
(* The client's side and the bus                                           *)
(***************************************************************************)
\* App.StartTransfer, up to the commit of the debit.  Requests in progress go on
\* after a SIGTERM.  If the answer of the commit is lost the client gets an error
\* and nothing is published.
StartTransfer(t, from, to, amount) ==
  LET d == DebitTransfer(Load(from), t, to, amount)
  IN  /\ phase \in {"serving", "stopping"}
      /\ \A r \in AllRows(events) : r.transfer_id # t
      /\ d.err = "nil"
      /\ Append1(d.event)
      /\ \/ unpublished' = unpublished \cup {d.event} /\ UNCHANGED abandoned
         \/ /\ Failures
            /\ abandoned' = abandoned \cup {d.event}
            /\ UNCHANGED unpublished
      /\ UNCHANGED <<phase, bus, resuming, queue, step, event, attempt, lost>>

\* Bus.Publish waits for room in the partition; once the service is stopping it
\* may drop the event instead.
Send(e) ==
  LET p == PartitionOf[e.aggregate_id]
  IN  \/ Len(bus[p]) < BusSize /\ bus' = [bus EXCEPT ![p] = Append(@, e)]
      \/ phase = "stopping" /\ UNCHANGED bus

\* The publish at the end of StartTransfer.
Publish(e) ==
  /\ e \in unpublished
  /\ unpublished' = unpublished \ {e}
  /\ Send(e)
  /\ UNCHANGED <<events, phase, resuming, queue, step, event, attempt, abandoned, lost>>

\* Mutant: Handle does not wait, it drops a debit when the queue is full.
HandleDropping(e) ==
  queue' = IF e.type = "transfer.debited" /\ Len(queue) < QueueSize
           THEN Append(queue, e) ELSE queue

\* TransferSaga.Handle ignores all but debits and waits for room in the queue or
\* for the shutdown.
Handle(e) ==
  \/ e.type # "transfer.debited" /\ UNCHANGED queue
  \/ /\ e.type = "transfer.debited"
     /\ \/ Len(queue) < QueueSize /\ queue' = Append(queue, e)
        \/ phase = "stopping" /\ UNCHANGED queue

\* The goroutine of a partition delivers its events in order, each to the end.
Deliver(p) ==
  /\ bus[p] # <<>>
  /\ bus' = [bus EXCEPT ![p] = Tail(@)]
  /\ Handle(Head(bus[p]))
  /\ UNCHANGED <<events, phase, unpublished, resuming, step, event, attempt, abandoned, lost>>

-----------------------------------------------------------------------------
(***************************************************************************)
(* The workers: process                                                    *)
(***************************************************************************)
At(w, s) == step' = [step EXCEPT ![w] = s]

\* process returns.
Finish(w) ==
  /\ At(w, "idle")
  /\ event' = [event EXCEPT ![w] = NoEvent]
  /\ attempt' = [attempt EXCEPT ![w] = 0]

Take(w) ==
  /\ step[w] = "idle"
  /\ queue # <<>>
  /\ event' = [event EXCEPT ![w] = Head(queue)]
  /\ queue' = Tail(queue)
  /\ At(w, "checkCredit")
  /\ UNCHANGED <<events, phase, unpublished, bus, resuming, attempt, abandoned, lost>>

\* Mutant: the commands of the saga do not ask whether they were done before.
CheckSkipped(w, from, type, to) ==
  /\ step[w] = from
  /\ phase # "stopping"
  /\ At(w, to)
  /\ UNCHANGED <<events, phase, unpublished, bus, resuming, queue, event,
                 attempt, abandoned, lost>>

\* The first query of CreditTransfer, then of ReverseTransfer: no-op if done.
\* A call made after the SIGTERM fails: its context is cancelled.
Check(w, from, type, to) ==
  /\ step[w] = from
  /\ phase # "stopping"
  /\ IF HasTransferEvent(events, type, event[w].transfer_id) THEN Finish(w)
     ELSE At(w, to) /\ UNCHANGED <<event, attempt>>
  /\ UNCHANGED <<events, phase, unpublished, bus, resuming, queue, abandoned, lost>>

CheckCredit(w)  == Check(w, "checkCredit", "transfer.credited", "credit")
CheckReverse(w) == Check(w, "checkReverse", "transfer.reversed", "reverse")

CreditDecision(w) ==
  CreditTransfer(Load(event[w].peer), event[w].transfer_id,
                 event[w].aggregate_id, event[w].amount)

\* The commit, then publish has the event.
Record(w, e) ==
  /\ Append1(e)
  /\ At(w, "publish")
  /\ event' = [event EXCEPT ![w] = e]
  /\ UNCHANGED attempt

\* Mutant: no return after the credit, process goes on to compensate.
CreditWithoutReturn(w) ==
  /\ step[w] = "credit"
  /\ CreditDecision(w).err = "nil"
  /\ Append1(CreditDecision(w).event)
  /\ At(w, "checkReverse")
  /\ UNCHANGED <<phase, unpublished, bus, resuming, queue, event,
                 attempt, abandoned, lost>>

Credit(w) ==
  /\ step[w] = "credit"
  /\ CreditDecision(w).err = "nil"
  /\ Record(w, CreditDecision(w).event)
  /\ UNCHANGED <<phase, unpublished, bus, resuming, queue, abandoned, lost>>

\* Mutant: a business error starts the loop over.
CreditRefusedRestarts(w) ==
  /\ step[w] = "credit"
  /\ CreditDecision(w).err # "nil"
  /\ At(w, "checkCredit")
  /\ UNCHANGED <<events, phase, unpublished, bus, resuming, queue, event,
                 attempt, abandoned, lost>>

isBusinessError(err) ==
  err \in {"ErrAccountNotFound", "ErrAccountClosed", "ErrInvalidAmount",
           "ErrAmountTooLarge"}

\* A business error is not retried: compensate at once.
CreditRefused(w) ==
  /\ step[w] = "credit"
  /\ isBusinessError(CreditDecision(w).err)
  /\ At(w, "checkReverse")
  /\ UNCHANGED <<events, phase, unpublished, bus, resuming, queue, event,
                 attempt, abandoned, lost>>

\* Mutant: attempt <= creditRetries.
RetryOneMore(w) ==
  IF phase = "stopping" THEN Finish(w)
  ELSE /\ attempt' = [attempt EXCEPT ![w] = @ + 1]
       /\ At(w, IF attempt[w] < creditRetries THEN "checkCredit" ELSE "checkReverse")
       /\ UNCHANGED event

\* Any other error: wait and try again, compensate after the last attempt, or
\* leave it to the next boot if the service is stopping.
Retry(w) ==
  IF phase = "stopping" THEN Finish(w)
  ELSE /\ attempt' = [attempt EXCEPT ![w] = @ + 1]
       /\ At(w, IF attempt[w] + 1 < creditRetries THEN "checkCredit"
                                                  ELSE "checkReverse")
       /\ UNCHANGED event

CreditFails(w) ==
  /\ Failures \/ phase = "stopping"
  /\ step[w] \in {"checkCredit", "credit"}
  /\ Retry(w)
  /\ UNCHANGED <<events, phase, unpublished, bus, resuming, queue, abandoned, lost>>

CreditAckLost(w) ==
  /\ Failures
  /\ step[w] = "credit"
  /\ CreditDecision(w).err = "nil"
  /\ Append1(CreditDecision(w).event)
  /\ lost' = lost \cup {event[w].transfer_id}
  /\ Retry(w)
  /\ UNCHANGED <<phase, unpublished, bus, resuming, queue, abandoned>>

ReverseDecision(w) ==
  ReverseTransfer(Load(event[w].aggregate_id), event[w].transfer_id, event[w].amount)

Reverse(w) ==
  /\ step[w] = "reverse"
  /\ ReverseDecision(w).err = "nil"
  /\ Record(w, ReverseDecision(w).event)
  /\ UNCHANGED <<phase, unpublished, bus, resuming, queue, abandoned, lost>>

\* The publish at the end of mutate; process returns after it.
PublishAnswer(w) ==
  /\ step[w] = "publish"
  /\ Send(event[w])
  /\ Finish(w)
  /\ UNCHANGED <<events, phase, unpublished, resuming, queue, abandoned, lost>>

\* Reversed, but process is told otherwise and publishes nothing.
ReverseAckLost(w) ==
  /\ Failures
  /\ step[w] = "reverse"
  /\ ReverseDecision(w).err = "nil"
  /\ Append1(ReverseDecision(w).event)
  /\ Finish(w)
  /\ UNCHANGED <<phase, unpublished, bus, resuming, queue, abandoned, lost>>

\* "will retry on next boot"
ReverseFails(w) ==
  /\ Failures \/ phase = "stopping"
  /\ step[w] \in {"checkReverse", "reverse"}
  /\ abandoned' = abandoned \cup {event[w]}
  /\ Finish(w)
  /\ UNCHANGED <<events, phase, unpublished, bus, resuming, queue, lost>>

-----------------------------------------------------------------------------
(***************************************************************************)
(* Crash, boot and shutdown                                                *)
(***************************************************************************)
\* The process ends and its memory with it.
Die ==
  /\ phase' = "down"
  /\ unpublished' = {} /\ bus' = EmptyBus /\ resuming' = {} /\ queue' = <<>>
  /\ step' = [w \in Workers |-> "idle"]
  /\ event' = [w \in Workers |-> NoEvent]
  /\ attempt' = [w \in Workers |-> 0]
  /\ abandoned' = {}
  /\ UNCHANGED <<events, lost>>

\* Also what fatal does when a query of the boot fails.
Crash == phase # "down" /\ Die

\* The workers start; CatchUp's query finds what an earlier life left behind.
Boot ==
  /\ phase = "down"
  /\ phase' = "boot"
  /\ resuming' = PendingTransferDebits(events)
  /\ UNCHANGED <<events, unpublished, bus, queue, step, event, attempt, abandoned, lost>>

\* Mutant: a debit that has been queued is queued again.
CatchUpAgain(e) ==
  /\ phase \in {"boot", "stopping"}
  /\ e \in resuming
  /\ Len(queue) < QueueSize
  /\ queue' = Append(queue, e)
  /\ UNCHANGED <<events, phase, unpublished, bus, resuming, step, event, attempt, abandoned, lost>>

\* Neither this loop nor its send looks at the context: a SIGTERM does not end it.
CatchUp(e) ==
  /\ phase \in {"boot", "stopping"}
  /\ e \in resuming
  /\ Len(queue) < QueueSize
  /\ resuming' = resuming \ {e}
  /\ queue' = Append(queue, e)
  /\ UNCHANGED <<events, phase, unpublished, bus, step, event, attempt, abandoned, lost>>

ListenAndServe ==
  /\ phase = "boot"
  /\ resuming = {}
  /\ phase' = "serving"
  /\ UNCHANGED <<events, volatile, lost>>

\* SIGTERM: the context every worker and handler holds is cancelled.
Shutdown ==
  /\ phase \in {"boot", "serving"}
  /\ phase' = "stopping"
  /\ UNCHANGED <<events, volatile, lost>>

\* Main returns once CatchUp is through and the saga has drained its queue.
\* Shutdown gives the requests 10 seconds, so some may still be unpublished, or
\* in a partition whose goroutine has gone.
Exit ==
  /\ phase = "stopping"
  /\ resuming = {} /\ queue = <<>>
  /\ \A w \in Workers : step[w] = "idle"
  /\ Die

-----------------------------------------------------------------------------
Client == \E t \in TransferIds, from \in Opened, to \in AccountIds, n \in Amounts :
            StartTransfer(t, from, to, n)

Worker(w) ==
  \/ Take(w) \/ CheckCredit(w) \/ Credit(w) \/ CreditRefused(w) \/ CreditFails(w)
  \/ CreditAckLost(w) \/ CheckReverse(w) \/ Reverse(w) \/ ReverseAckLost(w)
  \/ ReverseFails(w) \/ PublishAnswer(w)

Request == \E e \in unpublished : Publish(e)

Resume == Boot \/ (\E e \in resuming : CatchUp(e)) \/ ListenAndServe

Next ==
  \/ Client \/ Request \/ Resume \/ Crash \/ Shutdown \/ Exit
  \/ \E p \in Partitions : Deliver(p)
  \/ \E w \in Workers : Worker(w)

Spec == Init /\ [][Next]_vars

\* Every goroutine of the service runs on, its boot proceeds and an operator
\* restarts it; clients, crashes and signals need not come.
FairSpec ==
  /\ Spec
  /\ WF_vars(Resume \/ Exit) /\ WF_vars(Request)
  /\ \A p \in Partitions : WF_vars(Deliver(p))
  /\ \A w \in Workers : WF_vars(Worker(w))

-----------------------------------------------------------------------------
(***************************************************************************)
(* Properties                                                              *)
(***************************************************************************)
Debits == {r \in AllRows(events) : r.type = "transfer.debited"}

RowsOf(t, type) ==
  {r \in AllRows(events) : r.transfer_id = t /\ r.type = type}

Credited(t) == HasTransferEvent(events, "transfer.credited", t)
Reversed(t) == HasTransferEvent(events, "transfer.reversed", t)

Unsettled == {d \in Debits : ~Credited(d.transfer_id) /\ ~Reversed(d.transfer_id)}

\* What each variable holds.  A partition never exceeds its buffer nor the queue
\* its capacity, and a worker never counts more failures than creditRetries.
TypeOK ==
  /\ \A a \in AccountIds : \A v \in DOMAIN events[a] :
       events[a][v] \in Event /\ events[a][v].aggregate_id = a
  /\ phase \in {"down", "boot", "serving", "stopping"}
  /\ unpublished \subseteq Debits /\ resuming \subseteq Debits /\ abandoned \subseteq Debits
  /\ \A p \in Partitions : bus[p] \in Seq(AllRows(events)) /\ Len(bus[p]) <= BusSize
  /\ queue \in Seq(Debits) /\ Len(queue) <= QueueSize
  /\ step \in [Workers -> WorkerSteps]
  /\ \A w \in Workers : /\ step[w] \in Processing => event[w] \in Debits
                        /\ step[w] = "publish" => event[w] \in AllRows(events)
                        /\ attempt[w] \in 0 .. creditRetries

\* The places of the process that hold a debit a worker is to settle.
Holders(d) ==
  {<<"unpublished">> : x \in unpublished \cap {d}}
  \cup {<<"resuming">> : x \in resuming \cap {d}}
  \cup (UNION {{<<"bus", p, i>> : i \in {j \in DOMAIN bus[p] : bus[p][j] = d}} :
                p \in Partitions})
  \cup {<<"queue", i>> : i \in {j \in DOMAIN queue : queue[j] = d}}
  \cup {<<"worker", w>> : w \in {x \in Workers : step[x] \in Processing /\ event[x] = d}}

\* The process never holds a debit twice: Handle, the catch-up of a boot and the
\* drain of a shutdown hand it on.  CreditTransfer's query and append are not one
\* transaction, so two workers on one transfer could both credit it.  Unless the
\* answer to its credit was lost, what the process holds is not settled yet.
OneOwner ==
  \A d \in Debits :
    /\ Cardinality(Holders(d)) <= 1
    /\ Holders(d) # {} /\ d.transfer_id \notin lost => d \in Unsettled

\* "Idempotente por transfer_id": a transfer is credited at most once and reversed
\* at most once, through crashes, retries and lost answers.
NoDuplicateSettlement ==
  \A t \in TransferIds, type \in {"transfer.credited", "transfer.reversed"} :
    Cardinality(RowsOf(t, type)) <= 1

\* A transfer that was reversed was not credited, nor will be.
SettledOnce == \A t \in TransferIds : ~(Credited(t) /\ Reversed(t))

Doubled == {d \in Debits : Credited(d.transfer_id) /\ Reversed(d.transfer_id)}

Balance == [a \in Opened |-> Load(a).balance]
Amount  == [d \in Event |-> d.amount]

\* Transfers neither create nor destroy money: the balances and what is in flight
\* add up to what the accounts were opened with.  The one exception is a transfer
\* whose credit took effect without an answer: its amount may exist twice.
MoneyConserved ==
  /\ MapThenSumSet(LAMBDA a : Balance[a], Opened)
     + MapThenSumSet(LAMBDA d : Amount[d], Unsettled)
       = Cardinality(Opened) * Funds + MapThenSumSet(LAMBDA d : Amount[d], Doubled)
  /\ \A d \in Doubled : d.transfer_id \in lost

\* While the service is up every debit without an answer is held by something that
\* will settle it, unless its client was told that the transfer failed or its
\* reversal failed in this life.  "will retry on next boot": the next life holds
\* those again before it serves.
NoOrphans ==
  phase \in {"boot", "serving"} =>
    \A d \in Unsettled : Holders(d) # {} \/ d \in abandoned

\* Every transfer debited is in the end credited or reversed, or given up until
\* the next boot, if the service in the end stays up: README, guarantee 4.  There
\* are finitely many transfers, so the end comes.
EveryTransferSettles ==
  <>[](phase \in {"boot", "serving"}) => []<>(Unsettled \subseteq abandoned)

\* The life of a transfer as GET /transfers/{id} is to tell it.  Of one whose credit
\* was not answered it only tells that it was credited.
Status(t) ==
  CASE RowsOf(t, "transfer.debited") = {} -> "none"
    [] t \in lost -> "completed"
    [] t \notin lost /\ Credited(t) /\ ~Reversed(t) -> "completed"
    [] Reversed(t) /\ ~Credited(t) -> "reversed"
    [] t \notin lost /\ Credited(t) /\ Reversed(t) -> "both"
    [] OTHER -> "pending"

Transfers == INSTANCE TransferSpec WITH status <- [t \in TransferIds |-> Status(t)]

\* The saga implements TransferSpec: whatever crashes, fails or is tried again, a
\* transfer goes from pending to one final status and stays there.
ImplementsTransferSpec == Transfers!Spec
=============================================================================

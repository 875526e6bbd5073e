----------------------------- MODULE CommandSide -----------------------------
(***************************************************************************)
(* The command side: internal/app over internal/eventstore/postgres.go.    *)
(* Each member of Procs is a goroutine that runs one command at a time (an *)
(* HTTP handler or a saga worker).  No lock is held between the queries of *)
(* a command, so every query is a step of its own and all the steps of all *)
(* the processes interleave.  What keeps the ledger consistent is only     *)
(* UNIQUE (aggregate_id, version) and the reload after a conflict.         *)
(*                                                                         *)
(* A query can fail, a COMMIT can succeed although its answer is lost, and *)
(* the whole service can crash; the two tables survive.                    *)
(***************************************************************************)
EXTENDS EventStore

CONSTANTS
  Procs,            \* goroutines that run commands
  Requests,         \* the commands clients and the saga may issue
  maxRetries,       \* attempts of mutate under conflict
  SnapshotEvery,    \* versions between two snapshots of an account
  MaxVersion        \* bound: no command is issued on a longer stream

\* account is the id NewID drew for an open and transfer_id the one it drew for
\* a debit.  amount is the initial deposit of an open.
Command == [op : {"open", "deposit", "withdraw", "debit", "credit", "reverse"},
            account : AccountIds, amount : Int,
            transfer_id : TransferIds \cup {NoId},
            peer : AccountIds \cup {NoId}, owner : BOOLEAN]

NoCommand == [op |-> "none", account |-> NoId, amount |-> 0,
              transfer_id |-> NoId, peer |-> NoId, owner |-> FALSE]

ASSUME CommandSideAssumption ==
  /\ Requests \subseteq Command
  /\ maxRetries \in Nat \ {0}
  /\ SnapshotEvery \in Nat \ {0}
  /\ MaxVersion \in Nat

VARIABLES
  events,           \* table events: events[a][v] is the row of version v
  snapshots,        \* table snapshots; EmptyAccount stands for no row
  published,        \* version last handed to the bus since boot, per account
  pc,               \* the next query or call of each process
  cmd,              \* the command it runs
  acc,              \* the aggregate it last loaded
  batch,            \* the events it decided and has not yet published
  attempt,          \* conflicts met by mutate so far
  since,            \* auxiliary: the length of its account's stream when it began
  reply             \* what its last command returned

tables == <<events, snapshots>>
locals == <<pc, cmd, acc, batch, attempt, since, reply>>
vars == <<tables, published, locals>>

\* Errors that are not business errors: the database, the context, a conflict.
TechnicalErrors == {"error", "ErrTooManyConflicts"}
Steps == {"check", "open", "loadSnapshot", "loadEvents", "append", "backoff",
          "saveLoadSnapshot", "saveLoadEvents", "saveUpsert", "publish"}

Init ==
  /\ events = [a \in AccountIds |-> NoRows]
  /\ snapshots = [a \in AccountIds |-> EmptyAccount]
  /\ published = [a \in AccountIds |-> 0]
  /\ pc = [p \in Procs |-> "idle"]
  /\ cmd = [p \in Procs |-> NoCommand]
  /\ acc = [p \in Procs |-> EmptyAccount]
  /\ batch = [p \in Procs |-> <<>>]
  /\ attempt = [p \in Procs |-> 0]
  /\ since = [p \in Procs |-> 0]
  /\ reply = [p \in Procs |-> "none"]

-----------------------------------------------------------------------------
(***************************************************************************)
(* Issuing a command                                                       *)
(***************************************************************************)
\* NewID never returns an id that is in use anywhere.
FreshAccount(id) ==
  /\ DOMAIN events[id] = {}
  /\ \A r \in AllRows(events) : r.peer # id
  /\ \A q \in Procs : id \notin {cmd[q].account, cmd[q].peer}

FreshTransfer(t) ==
  /\ \A r \in AllRows(events) : r.transfer_id # t
  /\ \A q \in Procs : cmd[q].transfer_id # t

\* Nobody knows the id of an account before OpenAccount has returned it.
NotBeingOpened(id) ==
  \A q \in Procs : cmd[q].op = "open" => cmd[q].account # id

\* The saga settles a transfer with the fields of its debit, and hands each
\* debit to one worker at a time.
FromDebit(c) ==
  /\ \E r \in AllRows(events) :
       /\ r.type = "transfer.debited"
       /\ r.transfer_id = c.transfer_id
       /\ r.amount = c.amount
       /\ IF c.op = "credit" THEN r.peer = c.account /\ r.aggregate_id = c.peer
                             ELSE r.aggregate_id = c.account
  /\ \A q \in Procs : cmd[q].transfer_id # c.transfer_id

MayIssue(c) ==
  CASE c.op = "open"  -> FreshAccount(c.account)
    [] c.op = "debit" -> FreshTransfer(c.transfer_id)
                         /\ NotBeingOpened(c.account) /\ NotBeingOpened(c.peer)
    [] c.op \in {"credit", "reverse"} -> FromDebit(c)
    [] OTHER -> NotBeingOpened(c.account)

FirstStep(op) == CASE op = "open" -> "open"
                   [] op \in {"credit", "reverse"} -> "check"
                   [] OTHER -> "loadSnapshot"

Begin(p, c) ==
  /\ pc[p] = "idle"
  /\ MayIssue(c)
  /\ LastVersion(events[c.account]) < MaxVersion
  /\ pc' = [pc EXCEPT ![p] = FirstStep(c.op)]
  /\ cmd' = [cmd EXCEPT ![p] = c]
  /\ since' = [since EXCEPT ![p] = LastVersion(events[c.account])]
  /\ reply' = [reply EXCEPT ![p] = "none"]
  /\ UNCHANGED <<tables, published, acc, batch, attempt>>

\* The command returns r and its local variables are gone.
Return(p, r) ==
  /\ pc' = [pc EXCEPT ![p] = "idle"]
  /\ cmd' = [cmd EXCEPT ![p] = NoCommand]
  /\ acc' = [acc EXCEPT ![p] = EmptyAccount]
  /\ batch' = [batch EXCEPT ![p] = <<>>]
  /\ attempt' = [attempt EXCEPT ![p] = 0]
  /\ since' = [since EXCEPT ![p] = 0]
  /\ reply' = [reply EXCEPT ![p] = r]

Goto(p, step) == pc' = [pc EXCEPT ![p] = step]

-----------------------------------------------------------------------------
(***************************************************************************)
(* Deciding                                                                *)
(***************************************************************************)
Decided(evs)  == [err |-> "nil", events |-> evs]
Declined(err) == [err |-> err, events |-> <<>>]

\* OpenAccount: the opening and, if asked for, the initial deposit.
DecideOpen(c) ==
  LET opened == OpenAccount(c.account, c.owner)
      dep    == Deposit(Apply(EmptyAccount, opened.event), c.amount)
  IN  IF c.amount < 0 THEN Declined("ErrInvalidAmount")
      ELSE IF opened.err # "nil" THEN Declined(opened.err)
      ELSE IF c.amount = 0 THEN Decided(<<opened.event>>)
      ELSE IF dep.err # "nil" THEN Declined(dep.err)
      ELSE Decided(<<opened.event, dep.event>>)

\* The decide closure mutate was given.
DecideOn(a, c) ==
  CASE c.op = "deposit"  -> Deposit(a, c.amount)
    [] c.op = "withdraw" -> Withdraw(a, c.amount)
    [] c.op = "debit"    -> DebitTransfer(a, c.transfer_id, c.peer, c.amount)
    [] c.op = "credit"   -> CreditTransfer(a, c.transfer_id, c.peer, c.amount)
    [] OTHER             -> ReverseTransfer(a, c.transfer_id, c.amount)

Decide(a, c) ==
  IF c.op = "open" THEN DecideOpen(c)
  ELSE LET d == DecideOn(a, c)
       IN  IF d.err # "nil" THEN Declined(d.err) ELSE Decided(<<d.event>>)

\* Decide on the aggregate a: refuse the command or go on to append.
Proceed(p, a) ==
  LET d == Decide(a, cmd[p])
  IN  IF d.err # "nil" THEN Return(p, d.err)
      ELSE /\ acc' = [acc EXCEPT ![p] = a]
           /\ batch' = [batch EXCEPT ![p] = d.events]
           /\ Goto(p, "append")
           /\ UNCHANGED <<cmd, attempt, since, reply>>

Open(p) ==
  /\ pc[p] = "open"
  /\ Proceed(p, EmptyAccount)
  /\ UNCHANGED <<tables, published>>

-----------------------------------------------------------------------------
(***************************************************************************)
(* The idempotency check of the saga's commands, and mutate                *)
(***************************************************************************)
Settlement(op) ==
  IF op = "credit" THEN "transfer.credited" ELSE "transfer.reversed"

Check(p) ==
  /\ pc[p] = "check"
  /\ IF HasTransferEvent(events, Settlement(cmd[p].op), cmd[p].transfer_id)
     THEN Return(p, "nil")
     ELSE Goto(p, "loadSnapshot") /\ UNCHANGED <<cmd, acc, batch, attempt, since, reply>>
  /\ UNCHANGED <<tables, published>>

\* First query of Load.
LoadSnapshot(p) ==
  /\ pc[p] = "loadSnapshot"
  /\ acc' = [acc EXCEPT ![p] = snapshots[cmd[p].account]]
  /\ Goto(p, "loadEvents")
  /\ UNCHANGED <<tables, published, cmd, batch, attempt, since, reply>>

\* Mutant: the query forgets version > base.version.
LoadedFromStart(base, rows) == Replay(base, rows)

\* What the second query of Load makes of the base the first one read.
Loaded(base, rows) == Replay(base, RowsAfter(rows, base.version))
NotFound(base, rows) ==
  base.version = 0 /\ DOMAIN RowsAfter(rows, base.version) = {}

\* Second query of Load, then the decision.
LoadEvents(p) ==
  /\ pc[p] = "loadEvents"
  /\ IF NotFound(acc[p], events[cmd[p].account])
     THEN Return(p, "ErrAccountNotFound")
     ELSE Proceed(p, Loaded(acc[p], events[cmd[p].account]))
  /\ UNCHANGED <<tables, published>>

\* The transaction of Append as its COMMIT makes it visible.
Commit(p) ==
  /\ pc[p] = "append"
  /\ WellFormed(cmd[p].account, acc[p].version, batch[p])
  /\ ~UniqueViolation(events[cmd[p].account], batch[p])
  /\ events' = [events EXCEPT ![cmd[p].account] = Insert(@, batch[p])]
  /\ UNCHANGED <<snapshots, published>>

\* Append commits and hears of it; every SnapshotEvery versions it goes on to
\* save a snapshot before it returns.
AppendOk(p) ==
  /\ Commit(p)
  /\ Goto(p, IF batch[p][Len(batch[p])].version % SnapshotEvery = 0
             THEN "saveLoadSnapshot" ELSE "publish")
  /\ UNCHANGED <<cmd, acc, batch, attempt, since, reply>>

\* Mutant: a failed COMMIT is retried like a conflict.
AppendAckLostRetried(p) ==
  /\ Commit(p)
  /\ Goto(p, "backoff")
  /\ batch' = [batch EXCEPT ![p] = <<>>]
  /\ UNCHANGED <<cmd, acc, attempt, since, reply>>

\* COMMIT took effect but its answer was lost: the caller gets an error.
AppendAckLost(p) ==
  /\ Commit(p)
  /\ Return(p, "error")

\* Mutant: after a conflict the event is renumbered, not decided again.
AppendConflictRenumbered(p) ==
  LET last == LastVersion(events[cmd[p].account])
  IN  /\ pc[p] = "append"
      /\ UniqueViolation(events[cmd[p].account], batch[p])
      /\ acc' = [acc EXCEPT ![p].version = last]
      /\ batch' = [batch EXCEPT ![p][1].version = last + 1]
      /\ UNCHANGED <<tables, published, pc, cmd, attempt, since, reply>>

\* Mutant: after a conflict the same INSERT is tried again without a reload.
AppendConflictStale(p) ==
  /\ pc[p] = "append"
  /\ UniqueViolation(events[cmd[p].account], batch[p])
  /\ attempt[p] < maxRetries
  /\ attempt' = [attempt EXCEPT ![p] = @ + 1]
  /\ UNCHANGED <<tables, published, pc, cmd, acc, batch, since, reply>>

\* ErrConcurrency.  mutate waits and retries; OpenAccount gives up.
AppendConflict(p) ==
  /\ pc[p] = "append"
  /\ WellFormed(cmd[p].account, acc[p].version, batch[p])
  /\ UniqueViolation(events[cmd[p].account], batch[p])
  /\ IF cmd[p].op = "open" THEN Return(p, "error")
     ELSE /\ attempt' = [attempt EXCEPT ![p] = @ + 1]
          /\ batch' = [batch EXCEPT ![p] = <<>>]
          /\ Goto(p, "backoff")
          /\ UNCHANGED <<cmd, acc, since, reply>>
  /\ UNCHANGED <<tables, published>>

\* Mutant: one attempt too many.
BackoffOneMore(p) ==
  /\ pc[p] = "backoff"
  /\ IF attempt[p] <= maxRetries
     THEN Goto(p, "loadSnapshot") /\ UNCHANGED <<cmd, acc, batch, attempt, since, reply>>
     ELSE Return(p, "ErrTooManyConflicts")
  /\ UNCHANGED <<tables, published>>

Backoff(p) ==
  /\ pc[p] = "backoff"
  /\ IF attempt[p] < maxRetries
     THEN Goto(p, "loadSnapshot") /\ UNCHANGED <<cmd, acc, batch, attempt, since, reply>>
     ELSE Return(p, "ErrTooManyConflicts")
  /\ UNCHANGED <<tables, published>>

\* A failed query, a batch that is not WellFormed, or the context ending while
\* mutate waits.
Fail(p) ==
  /\ pc[p] \in {"check", "loadSnapshot", "loadEvents", "append", "backoff"}
  /\ Return(p, "error")
  /\ UNCHANGED <<tables, published>>

-----------------------------------------------------------------------------
(***************************************************************************)
(* saveSnapshot: a Load of its own, then an upsert that only moves forward.*)
(* It is best effort: any failure goes straight on to publish.             *)
(***************************************************************************)
SaveLoadSnapshot(p) ==
  /\ pc[p] = "saveLoadSnapshot"
  /\ acc' = [acc EXCEPT ![p] = snapshots[cmd[p].account]]
  /\ Goto(p, "saveLoadEvents")
  /\ UNCHANGED <<tables, published, cmd, batch, attempt, since, reply>>

SaveLoadEvents(p) ==
  /\ pc[p] = "saveLoadEvents"
  /\ IF NotFound(acc[p], events[cmd[p].account])
     THEN Goto(p, "publish") /\ UNCHANGED acc
     ELSE /\ acc' = [acc EXCEPT ![p] = Loaded(@, events[cmd[p].account])]
          /\ Goto(p, "saveUpsert")
  /\ UNCHANGED <<tables, published, cmd, batch, attempt, since, reply>>

\* Mutant: the upsert without its WHERE.
UpsertAlways(old, new) == new

\* INSERT ... ON CONFLICT DO UPDATE ... WHERE snapshots.version < EXCLUDED.version
Upsert(old, new) == IF old.version < new.version THEN new ELSE old

SaveUpsert(p) ==
  /\ pc[p] = "saveUpsert"
  /\ snapshots' = [snapshots EXCEPT ![cmd[p].account] = Upsert(@, acc[p])]
  /\ Goto(p, "publish")
  /\ UNCHANGED <<events, published, cmd, acc, batch, attempt, since, reply>>

\* Mutant: a failed snapshot is tried again until it succeeds.
SaveFailRetried(p) ==
  /\ pc[p] \in {"saveLoadSnapshot", "saveLoadEvents", "saveUpsert"}
  /\ Goto(p, "saveLoadSnapshot")
  /\ UNCHANGED <<tables, published, cmd, acc, batch, attempt, since, reply>>

SaveFail(p) ==
  /\ pc[p] \in {"saveLoadSnapshot", "saveLoadEvents", "saveUpsert"}
  /\ Goto(p, "publish")
  /\ UNCHANGED <<tables, published, cmd, acc, batch, attempt, since, reply>>

\* One turn of publish's loop; the command returns after the last.
Publish(p) ==
  /\ pc[p] = "publish"
  /\ published' = [published EXCEPT ![cmd[p].account] = Head(batch[p]).version]
  /\ IF Len(batch[p]) = 1 THEN Return(p, "nil")
     ELSE /\ batch' = [batch EXCEPT ![p] = Tail(@)]
          /\ UNCHANGED <<pc, cmd, acc, attempt, since, reply>>
  /\ UNCHANGED tables

\* The service stops anywhere and boots again with only the tables.
Crash ==
  /\ \E p \in Procs : pc[p] # "idle"
  /\ published' = [a \in AccountIds |-> 0]
  /\ pc' = [p \in Procs |-> "idle"]
  /\ cmd' = [p \in Procs |-> NoCommand]
  /\ acc' = [p \in Procs |-> EmptyAccount]
  /\ batch' = [p \in Procs |-> <<>>]
  /\ attempt' = [p \in Procs |-> 0]
  /\ since' = [p \in Procs |-> 0]
  /\ reply' = [p \in Procs |-> "none"]
  /\ UNCHANGED tables

Step(p) ==
  \/ Open(p) \/ Check(p) \/ LoadSnapshot(p) \/ LoadEvents(p)
  \/ AppendOk(p) \/ AppendAckLost(p) \/ AppendConflict(p) \/ Backoff(p)
  \/ Fail(p)
  \/ SaveLoadSnapshot(p) \/ SaveLoadEvents(p) \/ SaveUpsert(p) \/ SaveFail(p)
  \/ Publish(p)

Next ==
  \/ \E p \in Procs : \/ \E c \in Requests : Begin(p, c)
                      \/ Step(p)
  \/ Crash

Spec == Init /\ [][Next]_vars

-----------------------------------------------------------------------------
(***************************************************************************)
(* Properties                                                              *)
(***************************************************************************)
\* Types of the tables and of the local variables of every command.
TypeOK ==
  /\ DOMAIN events = AccountIds
  /\ \A a \in AccountIds : /\ LastVersion(events[a]) \in Nat
                           /\ \A v \in DOMAIN events[a] : events[a][v] \in Event
  /\ snapshots \in [AccountIds -> AccountState]
  /\ published \in [AccountIds -> Nat]
  /\ pc \in [Procs -> Steps \cup {"idle"}]
  /\ cmd \in [Procs -> Command \cup {NoCommand}]
  /\ acc \in [Procs -> AccountState]
  /\ batch \in [Procs -> Seq(Event)]
  /\ attempt \in [Procs -> 0 .. maxRetries]
  /\ since \in [Procs -> Nat]
  /\ reply \in [Procs -> BusinessErrors \cup TechnicalErrors \cup {"nil", "none"}]

\* The state of account a once the first v events of its stream have happened.
StateAt(a, v) == Accumulated(EmptyAccount, events[a])[v]

\* A stream has no gaps, although the database only forbids duplicate versions
\* and Append never reads the version it extends (postgres.go:40-60).
VersionsContiguous ==
  \A a \in AccountIds : DOMAIN events[a] = 1 .. LastVersion(events[a])

\* No prefix of a stream leaves a negative balance, however commands on the
\* account interleave: "este loop e o que torna impossivel saldo negativo sob
\* concorrencia" (app.go:122-125).
NoOverdraft ==
  \A a \in AccountIds : \A v \in DOMAIN events[a] : StateAt(a, v).balance >= 0

\* A snapshot is exactly what replaying the stream up to its version gives,
\* although saveSnapshot reads the old snapshot and the events in two queries
\* and writes after further commits (postgres.go:114-131).
SnapshotsFaithful ==
  \A a \in AccountIds :
    /\ snapshots[a].version \in {0} \cup DOMAIN events[a]
    /\ snapshots[a] = StateAt(a, snapshots[a].version)

\* A slow saveSnapshot never replaces a newer snapshot by an older one.
SnapshotsMonotone ==
  [][\A a \in AccountIds : snapshots'[a].version >= snapshots[a].version]_vars

\* The rows of a stream: an opening, and then anything else, each at its place.
StreamsWellFormed ==
  \A a \in AccountIds : \A v \in DOMAIN events[a] :
    /\ events[a][v].aggregate_id = a
    /\ events[a][v].version = v
    /\ events[a][v].type = "account.opened" <=> v = 1

Reading(p)  == pc[p] \in {"loadEvents", "saveLoadEvents", "saveUpsert"}
Trying(p)   == pc[p] \in {"check", "open", "loadSnapshot", "loadEvents", "append"}
Written(p)  == pc[p] \in {"saveLoadSnapshot", "saveLoadEvents", "saveUpsert", "publish"}

\* a is a state the account of p's command was in at some version.
IsPastState(p, a) ==
  /\ a.version \in 0 .. LastVersion(events[cmd[p].account])
  /\ a = StateAt(cmd[p].account, a.version)

\* Every conflict of a command stands for an event of its own that another writer
\* committed to that account since the command began: mutate cannot exhaust its
\* attempts against itself, a stale read or the account's past (app.go:127-151).
ConflictsMeanProgress ==
  \A p \in Procs :
    pc[p] # "idle" =>
      since[p] + attempt[p] + (IF Written(p) THEN 1 ELSE 0)
        <= LastVersion(events[cmd[p].account])

LocalOK(p) ==
  /\ pc[p] # "idle" => cmd[p] \in Command
  /\ pc[p] = "idle" => attempt[p] = 0
  /\ pc[p] = "open" => cmd[p].op = "open"
  /\ pc[p] \in {"check", "loadSnapshot", "loadEvents", "backoff"} => cmd[p].op # "open"
  /\ Trying(p) => attempt[p] < maxRetries
  /\ Reading(p) => IsPastState(p, acc[p])
  /\ Written(p) => batch[p] # <<>>
  /\ pc[p] = "append" =>
       /\ IsPastState(p, acc[p])
       /\ Decide(acc[p], cmd[p]) = Decided(batch[p])
       /\ IF cmd[p].op = "open" THEN acc[p] = EmptyAccount
                                ELSE /\ acc[p].version > 0
                                     /\ since[p] + attempt[p] <= acc[p].version

\* What a command holds between two queries is stale at worst, never wrong: an
\* aggregate the account really was, and events decided on exactly that
\* aggregate (app.go:127-136).
LocalsConsistent == \A p \in Procs : LocalOK(p)

\* The inductive invariant of CommandSideProofs.
IInv ==
  /\ TypeOK
  /\ VersionsContiguous /\ StreamsWellFormed /\ NoOverdraft
  /\ SnapshotsFaithful
  /\ ConflictsMeanProgress
  /\ LocalsConsistent

\* How many queries and calls p's command still makes at most: four for every
\* attempt of mutate that is left, and the way from where it is to its return.
StepsLeft(p) ==
  CASE pc[p] = "idle"             -> 0
    [] pc[p] = "publish"          -> Len(batch[p])
    [] pc[p] = "saveUpsert"       -> Len(batch[p]) + 1
    [] pc[p] = "saveLoadEvents"   -> Len(batch[p]) + 2
    [] pc[p] = "saveLoadSnapshot" -> Len(batch[p]) + 3
    [] pc[p] = "append"           -> 4 * (maxRetries - attempt[p]) + Len(batch[p]) + 4
    [] pc[p] = "loadEvents"       -> 4 * (maxRetries - attempt[p]) + 6
    [] pc[p] = "loadSnapshot"     -> 4 * (maxRetries - attempt[p]) + 7
    [] pc[p] \in {"check", "open"} -> 4 * maxRetries + 8
    [] pc[p] = "backoff"          -> 4 * (maxRetries - attempt[p]) + 8

\* Every command returns after a bounded number of steps, whatever conflicts and
\* failures it meets and whatever others do meanwhile: nothing in mutate or
\* saveSnapshot goes back without using up an attempt (app.go:127-151).
CommandsTerminate ==
  [][\A p \in Procs :
       pc[p] # "idle" =>
         \/ UNCHANGED <<pc[p], cmd[p], acc[p], batch[p], attempt[p]>>
         \/ StepsLeft(p)' < StepsLeft(p)]_vars

\* "ordem garantida POR CONTA" (bus.go:4): an event about to be handed to the
\* bus comes after all that the bus was handed of its account.
PublishedInOrder ==
  \A p \in Procs :
    pc[p] = "publish" => published[cmd[p].account] < Head(batch[p]).version
=============================================================================

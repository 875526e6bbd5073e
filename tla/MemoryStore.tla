----------------------------- MODULE MemoryStore -----------------------------
(***************************************************************************)
(* The store of internal/eventstore/memory.go, which the tests use, side   *)
(* by side with the tables of the Postgres store: every call is made to    *)
(* both.  Calls are those the command side can make: a batch decided on    *)
(* the account as it was at some version, maybe no longer the last one.    *)
(***************************************************************************)
EXTENDS EventStore, FiniteSetsExt

CONSTANTS
  Malformed,    \* ids a request may carry that are not UUIDs
  Amounts,      \* amounts of the commands
  MaxVersion    \* no commands on longer streams

ASSUME MemoryStoreAssumption ==
  /\ Malformed \subseteq AccountIds
  /\ Amounts \subseteq 1 .. MaxOperationAmount /\ MaxVersion \in Nat

VARIABLES
  streams,    \* by aggregate, in order of version
  log,        \* in order of seq
  marks,      \* events marked as processed
  table       \* Postgres: table events

vars == <<streams, log, marks, table>>

Init ==
  /\ streams = [a \in AccountIds |-> <<>>] /\ log = <<>> /\ marks = {}
  /\ table = [a \in AccountIds |-> NoRows]

\* What a call that loaded version v may append.  A transfer may go to any id; it
\* comes from an account.
Batches(a, v) ==
  LET acc == Replay(EmptyAccount, [w \in 1 .. v |-> table[a][w]])
      decisions == (UNION {{Deposit(acc, n), Withdraw(acc, n)} : n \in Amounts})
        \cup {DebitTransfer(acc, t, b, n) :
                t \in TransferIds, b \in AccountIds \ {a}, n \in Amounts}
        \cup (UNION {{CreditTransfer(acc, t, b, n), ReverseTransfer(acc, t, n)} :
                t \in TransferIds, b \in AccountIds \ ({a} \cup Malformed), n \in Amounts})
      opened == OpenAccount(a, TRUE).event
  IN  IF v = 0
      THEN {<<opened>>} \cup
           {<<opened, Deposit(Apply(EmptyAccount, opened), n).event>> : n \in Amounts}
      ELSE {<<d.event>> : d \in {x \in decisions : x.err = "nil"}}

\* The events of a batch that the loops of Append refuse; they stop at the first.
Unfit(a, v, evs, taken) ==
  {i \in DOMAIN evs : \/ evs[i].aggregate_id # a
                     \/ evs[i].version # v + i
                     \/ evs[i].version \in taken}

\* Mutant: the length of the stream is not compared.
AppendUnchecked(a, v, evs) ==
  IF Unfit(a, v, evs, {}) = {} THEN "nil" ELSE "ErrConcurrency"

\* What Memory.Append returns.
MemoryAppend(a, v, evs) ==
  LET unfit == Unfit(a, v, evs, {})
  IN  CASE Len(streams[a]) # v -> "ErrConcurrency"
        [] Len(streams[a]) = v /\ unfit = {} -> "nil"
        [] OTHER -> IF evs[Min(unfit)].aggregate_id # a THEN "ErrAggregateMismatch"
                    ELSE "ErrConcurrency"

\* What Postgres.Append returns.
PostgresAppend(a, v, evs) ==
  LET unfit == Unfit(a, v, evs, DOMAIN table[a])
      e     == evs[Min(unfit)]
  IN  CASE unfit = {} -> "nil"
        [] unfit # {} /\ e.aggregate_id # a -> "ErrAggregateMismatch"
        [] unfit # {} /\ e.aggregate_id = a /\ e.version # v + Min(unfit) -> "want version"
        [] OTHER -> "ErrConcurrency"

\* Memory.Append logs event by event: what precedes an unfit event stays in the log,
\* though not in the stream.
LoggedPart(a, v, evs) ==
  LET unfit == Unfit(a, v, evs, {})
  IN  IF Len(streams[a]) # v THEN <<>>
      ELSE IF unfit = {} THEN evs ELSE SubSeq(evs, 1, Min(unfit) - 1)

\* One call on both.
CallAppend(a, v, evs) ==
  /\ streams' = IF MemoryAppend(a, v, evs) = "nil"
                THEN [streams EXCEPT ![a] = @ \o evs] ELSE streams
  /\ log' = log \o LoggedPart(a, v, evs)
  /\ table' = IF PostgresAppend(a, v, evs) = "nil"
              THEN [table EXCEPT ![a] = Insert(@, evs)] ELSE table
  /\ UNCHANGED marks

MarkProcessed(e) ==
  /\ marks' = marks \cup {e}
  /\ UNCHANGED <<streams, log, table>>

\* NewID is a UUID, and on other ids no command gets beyond Load.
Next ==
  \/ \E a \in AccountIds \ Malformed : \E v \in 0 .. Len(streams[a]) :
       /\ v < MaxVersion /\ Len(streams[a]) < MaxVersion
       /\ \E evs \in Batches(a, v) : CallAppend(a, v, evs)
  \/ \E i \in DOMAIN log : MarkProcessed(log[i])

Spec == Init /\ [][Next]_vars

-----------------------------------------------------------------------------
(***************************************************************************)
(* The queries of both stores.                                             *)
(***************************************************************************)
Logged == {log[i] : i \in DOMAIN log}

NotFound == [err |-> "ErrAccountNotFound", account |-> EmptyAccount]

MemoryLoad(a) ==
  IF streams[a] = <<>> THEN NotFound
  ELSE [err |-> "nil", account |-> Replay(EmptyAccount, streams[a])]

\* aggregate_id is a column of type uuid: a query with any other id fails.
PostgresLoad(a) ==
  CASE a \in Malformed -> [err |-> "syntax error", account |-> EmptyAccount]
    [] a \notin Malformed /\ DOMAIN table[a] = {} -> NotFound
    [] OTHER -> [err |-> "nil", account |-> Replay(EmptyAccount, table[a])]

MemoryEventsByAggregate(a) == [err |-> "nil", events |-> streams[a]]

PostgresEventsByAggregate(a) ==
  IF a \in Malformed THEN [err |-> "syntax error", events |-> <<>>]
  ELSE [err |-> "nil", events |-> table[a]]

\* The loop of LoadUnprocessed; found[n] is out after n turns.
MemoryUnprocessed ==
  LET found[n \in Nat] ==
        IF n = 0 THEN <<>>
        ELSE IF log[n] \in marks THEN found[n - 1]
        ELSE Append(found[n - 1], log[n])
  IN  found[Len(log)]

MemoryHasTransferEvent(type, t) ==
  \E e \in Logged : e.type = type /\ e.transfer_id = t

MemoryPendingDebits ==
  LET settled == {e.transfer_id : e \in {x \in Logged :
                    x.type \in {"transfer.credited", "transfer.reversed"}}}
  IN  {e \in Logged : e.type = "transfer.debited" /\ e.transfer_id \notin settled}

\* "a MESMA semântica de optimistic locking do Postgres": on an account's UUID every
\* call the command side could make next gets the same answer from both stores, even
\* on a stale version, and so do the queries.  On an id that is no UUID the errors
\* differ, but neither store lets a command through.
MemoryMatchesPostgres ==
  /\ \A a \in AccountIds \ Malformed :
       /\ \A v \in 0 .. Len(streams[a]) : \A evs \in Batches(a, v) :
            MemoryAppend(a, v, evs) = PostgresAppend(a, v, evs)
       /\ MemoryLoad(a) = PostgresLoad(a)
       /\ MemoryEventsByAggregate(a) = PostgresEventsByAggregate(a)
  /\ \A a \in Malformed : "nil" \notin {MemoryLoad(a).err, PostgresLoad(a).err}
  /\ MemoryPendingDebits = PendingTransferDebits(table)
  /\ \A type \in EventTypes, t \in TransferIds :
       MemoryHasTransferEvent(type, t) <=> HasTransferEvent(table, type, t)

\* A version loaded from the log by the catch-up comes after all earlier ones of
\* its account, and nothing unmarked is left out.
UnprocessedInOrder ==
  LET todo == MemoryUnprocessed
  IN  /\ \A i, j \in DOMAIN todo :
           i < j /\ todo[i].aggregate_id = todo[j].aggregate_id
             => todo[i].version < todo[j].version
      /\ {todo[i] : i \in DOMAIN todo} = AllRows(table) \ marks
=============================================================================

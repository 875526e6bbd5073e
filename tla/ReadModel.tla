------------------------------ MODULE ReadModel ------------------------------
(***************************************************************************)
(* The read models of internal/projection as values: what one transaction  *)
(* of the projector does to its tables, and the reads of internal/query.   *)
(* Owners, descriptions, reasons and times are left out.                   *)
(***************************************************************************)
EXTENDS EventStore

CONSTANT Malformed    \* ids a request may carry that are not UUIDs

ASSUME ReadModelAssumption == Malformed \subseteq AccountIds

\* balances holds the rows there are; an event stands for its event_id in
\* processed and in statement; transfers maps an id to its status.  The column
\* last_version is left out: nothing reads it.
EmptyTables ==
  [balances  |-> [a \in {} |-> 0],
   statement |-> {},
   transfers |-> [t \in TransferIds |-> "none"],
   processed |-> {}]

\* The amount the projector adds for an event, with its sign.
Signed(e) ==
  IF e.type \in {"money.withdrawn", "transfer.debited"} THEN -e.amount ELSE e.amount

\* INSERT INTO account_balances ... ON CONFLICT DO NOTHING
OpenRow(balances, e) ==
  [a \in DOMAIN balances \cup {e.aggregate_id} |->
     IF a \in DOMAIN balances THEN balances[a] ELSE 0]

\* bump's UPDATE; it fails unless there is a row.
bump(balances, e) == [balances EXCEPT ![e.aggregate_id] = @ + Signed(e)]

statement(entries, e) ==
  entries \cup {[event |-> e, account_id |-> e.aggregate_id, amount |-> Signed(e)]}

\* Mutant: the settlement inserts the row when it is not there.
TransferUpsert(transfers, e) ==
  CASE e.type = "transfer.debited" /\ transfers[e.transfer_id] = "none"
         -> [transfers EXCEPT ![e.transfer_id] = "pending"]
    [] e.type = "transfer.credited"
         -> [transfers EXCEPT ![e.transfer_id] = "completed"]
    [] e.type = "transfer.reversed"
         -> [transfers EXCEPT ![e.transfer_id] = "reversed"]
    [] OTHER -> transfers

\* The INSERT of a debit keeps a row that exists; the UPDATE of a settlement does
\* nothing when there is none, and nobody looks at how many rows it met.
TransferRow(transfers, e) ==
  LET set(s) == [transfers EXCEPT ![e.transfer_id] = s]
  IN  CASE e.type = "transfer.debited" /\ transfers[e.transfer_id] = "none"
             -> set("pending")
        [] e.type = "transfer.credited" /\ transfers[e.transfer_id] # "none"
             -> set("completed")
        [] e.type = "transfer.reversed" /\ transfers[e.transfer_id] # "none"
             -> set("reversed")
        [] OTHER -> transfers

\* Mutant: bump does not look at RowsAffected.
ApplicableWithoutRow(db, e) == e.peer \notin Malformed

\* applyEvent returns nil: bump finds its row and the counterparty can be cast to
\* uuid in the statement entry.
Applicable(db, e) ==
  \/ e.type = "account.opened"
  \/ e.aggregate_id \in DOMAIN db.balances /\ e.peer \notin Malformed

applyEvent(db, e) ==
  IF e.type = "account.opened" THEN [db EXCEPT !.balances = OpenRow(@, e)]
  ELSE [db EXCEPT !.balances  = bump(@, e),
                  !.statement = statement(@, e),
                  !.transfers = TransferRow(@, e)]

\* Mutant: no look at processed_events.
ApplyTwice(db, e) ==
  IF ~Applicable(db, e) THEN db
  ELSE [applyEvent(db, e) EXCEPT !.processed = @ \cup {e}]

\* Projector.Apply: one transaction; an error rolls all of it back.
ApplyTx(db, e) ==
  IF e \in db.processed \/ ~Applicable(db, e) THEN db
  ELSE [applyEvent(db, e) EXCEPT !.processed = @ \cup {e}]

-----------------------------------------------------------------------------
(***************************************************************************)
(* LoadUnprocessed and the queries.                                        *)
(***************************************************************************)
\* Mutant: no ORDER BY, the newest row comes first.
LatestFirst(log, processed) ==
  LET todo == SelectSeq(log, LAMBDA e : e \notin processed)
  IN  [i \in DOMAIN todo |-> todo[Len(todo) + 1 - i]]

\* The rows in the order of seq; found[n] is what is left of the first n of them.
LoadUnprocessed(log, processed) ==
  LET found[n \in Nat] ==
        IF n = 0 THEN <<>>
        ELSE IF log[n] \in processed THEN found[n - 1]
        ELSE Append(found[n - 1], log[n])
  IN  found[Len(log)]

Balance(db, a) ==
  IF a \in DOMAIN db.balances THEN [err |-> "nil", balance |-> db.balances[a]]
  ELSE [err |-> "ErrAccountNotFound", balance |-> 0]

\* "none" stands for ErrNoRows.
Transfer(db, t) == db.transfers[t]
=============================================================================

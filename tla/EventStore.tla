------------------------------ MODULE EventStore ------------------------------
(***************************************************************************)
(* The tables of internal/eventstore/postgres.go as values and the queries *)
(* on them.  The table events is a function from aggregate id and version  *)
(* to the row: UNIQUE (aggregate_id, version) is what makes it one.        *)
(* Nothing here makes versions gap-free; that is for the writers to keep.  *)
(***************************************************************************)
EXTENDS Account

\* An aggregate without rows.
NoRows == [v \in {} |-> NoEvent]

\* SELECT ... WHERE version > $2 ORDER BY version
RowsAfter(rows, v) == [w \in {x \in DOMAIN rows : x > v} |-> rows[w]]

\* Mutant: the loop over the batch keeps only its last event.
InsertLastOnly(rows, evs) ==
  LET e == evs[Len(evs)]
  IN  [v \in DOMAIN rows \cup {e.version} |->
         IF v \in DOMAIN rows THEN rows[v] ELSE e]

\* INSERT of a batch, a sequence of events of one aggregate.
Insert(rows, evs) ==
  LET at(v) == CHOOSE i \in DOMAIN evs : evs[i].version = v
  IN  [v \in DOMAIN rows \cup {evs[i].version : i \in DOMAIN evs} |->
         IF v \in DOMAIN rows THEN rows[v] ELSE evs[at(v)]]

\* The checks of Append before each INSERT: every event belongs to the stream
\* and continues it from the version the writer expects.
WellFormed(aggregateID, expectedVersion, evs) ==
  \A i \in DOMAIN evs : /\ evs[i].aggregate_id = aggregateID
                        /\ evs[i].version = expectedVersion + i

\* The INSERT would break UNIQUE (aggregate_id, version): error 23505.
UniqueViolation(rows, evs) ==
  \E i \in DOMAIN evs : evs[i].version \in DOMAIN rows

\* Every row of the table with its aggregate.
AllRows(table) == UNION {{table[a][v] : v \in DOMAIN table[a]} : a \in AccountIds}

HasTransferEvent(table, type, transferID) ==
  \E r \in AllRows(table) : r.type = type /\ r.transfer_id = transferID

\* Mutant: reversed transfers are not left out.
DebitsNotCredited(table) ==
  {r \in AllRows(table) :
     /\ r.type = "transfer.debited"
     /\ ~HasTransferEvent(table, "transfer.credited", r.transfer_id)}

PendingTransferDebits(table) ==
  {r \in AllRows(table) :
     /\ r.type = "transfer.debited"
     /\ ~HasTransferEvent(table, "transfer.credited", r.transfer_id)
     /\ ~HasTransferEvent(table, "transfer.reversed", r.transfer_id)}
=============================================================================

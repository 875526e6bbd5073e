------------------------------ MODULE Statement ------------------------------
(***************************************************************************)
(* A client reads an account's statement page by page with the cursor of   *)
(* internal/query while the projector inserts entries, also old ones it    *)
(* had missed.  An entry is known by its occurred_at: a command is decided *)
(* on the account's last event, a round trip to the database after it, so  *)
(* no two entries of an account share a time.                              *)
(***************************************************************************)
EXTENDS Integers, Sequences, FiniteSetsExt

CONSTANTS
  Times,       \* values of occurred_at
  limit        \* entries of a page, 1 to 100

VARIABLES
  entries,     \* the account's rows of statement_entries
  before,      \* the client's cursor
  got,         \* what it has read of this statement, page after page
  first,       \* auxiliary: the entries there were when it began
  done         \* the last page was short

vars == <<entries, before, got, first, done>>

\* No ?before: a second from now, after every entry.
Latest == Max(Times) + 1

Init ==
  /\ entries \in SUBSET Times
  /\ before = Latest /\ got = <<>> /\ first = entries /\ done = FALSE

\* ORDER BY occurred_at DESC LIMIT $3: the i-th row is the one i - 1 others precede.
Newest(rows) ==
  [i \in 1 .. Min({limit, Cardinality(rows)}) |->
     CHOOSE t \in rows : Cardinality({u \in rows : u > t}) = i - 1]

\* Mutant: occurred_at <= $2.
PageIncluding(rows, cursor) == Newest({t \in rows : t <= cursor})

\* WHERE occurred_at < $2
Page(rows, cursor) == Newest({t \in rows : t < cursor})

\* GET statement with the time of the last entry as ?before.
handleStatement ==
  LET page == Page(entries, before)
  IN  /\ ~done
      /\ got' = got \o page
      /\ before' = IF page = <<>> THEN before ELSE page[Len(page)]
      /\ done' = (Len(page) < limit)
      /\ UNCHANGED <<entries, first>>

\* The projector inserts an entry, new or long overdue.
Project ==
  /\ \E t \in Times \ entries : entries' = entries \cup {t}
  /\ UNCHANGED <<before, got, first, done>>

Next == handleStatement \/ Project

Spec == Init /\ [][Next]_vars

-----------------------------------------------------------------------------
\* "paginação estável mesmo com inserções concorrentes": no entry comes twice,
\* newer ones come before older ones, and once the last page is read nothing that
\* was there at the start is missing.
PagesAreStable ==
  /\ \A i, j \in DOMAIN got : i < j => got[i] > got[j]
  /\ done => first \subseteq {got[i] : i \in DOMAIN got}
=============================================================================

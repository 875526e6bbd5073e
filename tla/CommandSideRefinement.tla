------------------------ MODULE CommandSideRefinement ------------------------
(***************************************************************************)
(* The command side implements AtomicLedger: a command takes effect when   *)
(* its INSERT commits, and the balances of the ledger are what the events  *)
(* of each whole stream add up to.                                         *)
(***************************************************************************)
EXTENDS CommandSide, FiniteSetsExt

\* The command a transfer's event comes from.
Operation(type) == CASE type = "transfer.debited"  -> "debit"
                     [] type = "transfer.credited" -> "credit"
                     [] type = "transfer.reversed" -> "reverse"

Phase(p) ==
  CASE pc[p] = "idle" -> "idle"
    [] pc[p] \in {"saveLoadSnapshot", "saveLoadEvents", "saveUpsert", "publish"}
         -> "applied"
    [] OTHER -> "called"

Change == [e \in Event |-> Delta(e)]

\* What the tables say of the ledger.
Existing == {a \in AccountIds : DOMAIN events[a] # {}}
Balances == [a \in AccountIds |->
               MapThenSumSet(LAMBDA e : Change[e],
                             {events[a][v] : v \in DOMAIN events[a]})]
Done     == {<<Operation(r.type), r.transfer_id>> :
               r \in {x \in AllRows(events) : x.transfer_id # NoId}}

Ledger == INSTANCE AtomicLedger WITH
  NoRequest <- NoCommand,
  opened    <- Existing,
  balance   <- Balances,
  transfers <- Done,
  request   <- cmd,
  phase     <- [p \in Procs |-> Phase(p)]

\* Every command is linearizable: it acts once, at its commit, on the balances
\* of that instant, and a success or a business error tells the truth about it.
\* This is what mutate's load-decide-append loop, the replay over snapshots and
\* the check of HasTransferEvent amount to (app.go:37-152).
ImplementsAtomicLedger == Ledger!Spec
=============================================================================

---------------------------- MODULE MCCommandSide ----------------------------
(***************************************************************************)
(* Instances of CommandSide for TLC.                                       *)
(***************************************************************************)
EXTENDS CommandSideRefinement, TLC

CONSTANTS p1, p2, a1, a2, t1

Request(op, account, amount, transferID, peer) ==
  [op |-> op, account |-> account, amount |-> amount,
   transfer_id |-> transferID, peer |-> peer, owner |-> TRUE]

Opening(account, amount) == Request("open", account, amount, NoId, NoId)

\* One account, opened with nothing or 1 cent, under concurrent deposits and
\* withdrawals.
OneAccount ==
  {Opening(a1, 0), Opening(a1, 1), Request("deposit", a1, 1, NoId, NoId),
   Request("withdraw", a1, 1, NoId, NoId)}

\* A negative initial deposit, one too large, a blank owner, a transfer to
\* oneself.
Refusals ==
  {Opening(a1, -1), Opening(a1, MaxOperationAmount + 1),
   [Opening(a1, 1) EXCEPT !.owner = FALSE],
   Request("debit", a1, 1, t1, a1)}

\* A transfer from a1 to a2, which may never be opened, and its settlement by
\* the saga, against the owner's own deposits and withdrawals.
OneTransfer ==
  {Opening(a1, 0), Opening(a2, 1), Request("withdraw", a1, 1, NoId, NoId),
   Request("deposit", a1, 1, NoId, NoId), Request("debit", a1, 1, t1, a2),
   Request("credit", a2, 1, t1, a1), Request("reverse", a1, 1, t1, NoId)}

TransferAndRefusals == OneTransfer \cup Refusals

\* No guard reads published, so states that differ in it alone behave alike.
Unpublished == <<tables, locals>>

Writers == Permutations(Procs)
=============================================================================

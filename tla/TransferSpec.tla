----------------------------- MODULE TransferSpec -----------------------------
(***************************************************************************)
(* What a client may rely on about transfers: each one is debited once and *)
(* then completed or reversed once, for good.                              *)
(***************************************************************************)
CONSTANT TransferIds

VARIABLE status

Init == status = [t \in TransferIds |-> "none"]

Start(t) ==
  /\ status[t] = "none"
  /\ status' = [status EXCEPT ![t] = "pending"]

Settle(t) ==
  /\ status[t] = "pending"
  /\ \E s \in {"completed", "reversed"} : status' = [status EXCEPT ![t] = s]

Next == \E t \in TransferIds : Start(t) \/ Settle(t)

Spec == Init /\ [][Next]_status
=============================================================================

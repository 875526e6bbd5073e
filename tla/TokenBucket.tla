----------------------------- MODULE TokenBucket -----------------------------
(***************************************************************************)
(* What a token bucket promises: each client's bucket fills as time passes *)
(* up to burst, and a request is let through exactly when it can pay.      *)
(***************************************************************************)
EXTENDS Integers

CONSTANTS Clients, burst, rate, cost

VARIABLES
  level,    \* of each bucket
  answer    \* the last decision

Smaller(m, n) == IF m <= n THEN m ELSE n

Init ==
  /\ level = [c \in Clients |-> burst]
  /\ answer = [client |-> CHOOSE c \in Clients : TRUE, ok |-> TRUE]

\* One unit of time, for all of them.
Fill == /\ level' = [c \in Clients |-> Smaller(burst, level[c] + rate)]
        /\ UNCHANGED answer

Decide(c) ==
  /\ answer' = [client |-> c, ok |-> level[c] >= cost]
  /\ level' = IF level[c] >= cost THEN [level EXCEPT ![c] = @ - cost] ELSE level

Next == Fill \/ \E c \in Clients : Decide(c)

Spec == Init /\ [][Next]_<<level, answer>>
=============================================================================

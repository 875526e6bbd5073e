---------------------------- MODULE MCIdempotency ----------------------------
(***************************************************************************)
(* Instances of Idempotency for TLC.                                       *)
(***************************************************************************)
EXTENDS Idempotency, TLC

CONSTANTS g1, g2, g3, k1

Pay(route, body) == [route |-> route, body |-> body]

OnePayload == {Pay("POST movement", 1)}

\* Two requests on different routes.
TwoPayloads == OnePayload \cup {Pay("POST /accounts", 1)}

Interchangeable == Permutations(Goroutines)
=============================================================================

---------------------------- MODULE MCMemoryStore ----------------------------
(***************************************************************************)
(* Instance of MemoryStore for TLC.                                        *)
(***************************************************************************)
EXTENDS MemoryStore, TLC

CONSTANTS a1, a2, bad

Accounts == Permutations(AccountIds \ Malformed)
=============================================================================

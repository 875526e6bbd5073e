---------------------------- MODULE MCQueryApi ----------------------------
(***************************************************************************)
(* Instance of QueryApi for TLC.                                           *)
(***************************************************************************)
EXTENDS QueryApi

CONSTANTS c1, c2
=============================================================================

------------------------------- MODULE QueryApi -------------------------------
(***************************************************************************)
(* Statements behind the rate limiter: Handler of internal/api wraps every *)
(* route in withRateLimit, so any page of a statement may be refused with  *)
(* a 429, which the client answers by asking for the same page again.      *)
(***************************************************************************)
EXTENDS RateLimiter

CONSTANTS
  reader,      \* the client that reads the statement
  Times,       \* values of occurred_at
  limit        \* entries of a page

ASSUME QueryApiAssumption ==
  /\ reader \in Clients /\ limit \in 1 .. 100
  /\ Times \subseteq Nat /\ Times # {} /\ IsFiniteSet(Times)

VARIABLES entries, before, got, first, done

Pages == INSTANCE Statement

pageVars == <<entries, before, got, first, done>>

apiVars == <<vars, pageVars>>

ApiInit == Init /\ Pages!Init

\* withRateLimit around GET statement.
Get ==
  /\ ~done
  /\ Allow(reader)
  /\ IF answer'.ok THEN Pages!handleStatement ELSE UNCHANGED pageVars

\* Any other request of any client.
Other == (\E c \in Clients : Allow(c)) /\ UNCHANGED pageVars

Clock == (Tick \/ janitor) /\ UNCHANGED pageVars

Write == Pages!Project /\ UNCHANGED vars

ApiNext == Get \/ Other \/ Clock \/ Write

ApiSpec == ApiInit /\ [][ApiNext]_apiVars

\* Pagination stays stable when pages are refused in between.
PagesAreStable == Pages!PagesAreStable
=============================================================================

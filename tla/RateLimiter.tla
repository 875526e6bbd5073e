----------------------------- MODULE RateLimiter -----------------------------
(***************************************************************************)
(* The rate limiter of internal/api: token buckets by client, filled only  *)
(* when they are used, and a janitor that forgets idle ones.               *)
(*                                                                         *)
(* Time is counted in ticks and tokens in fractions of a token, of which a *)
(* request costs `cost', so that a bucket may hold part of a token.  The   *)
(* mutex makes Allow and a sweep one step each.  Go's clock is monotonic.  *)
(***************************************************************************)
EXTENDS FiniteSetsExt

CONSTANTS
  Clients,    \* keys of the buckets: IP addresses
  rate,       \* fractions of a token per tick
  burst,      \* fractions of a token a bucket holds
  cost,       \* fractions of a token a request costs
  Idle,       \* ticks without use after which the janitor forgets a bucket
  Period,     \* ticks between two sweeps
  MaxTime     \* the clock stops here

\* Five minutes at 50 tokens a second fill a bucket of 100 many times over.
ASSUME RateLimiterAssumption ==
  /\ rate \in Nat /\ burst \in Nat /\ cost \in Nat \ {0}
  /\ Idle \in Nat /\ Period \in Nat \ {0} /\ MaxTime \in Nat
  /\ Idle * rate >= burst

VARIABLES
  now,        \* the clock
  buckets,    \* map of the buckets there are
  swept,      \* when the janitor last ran
  answer,     \* what Allow returned last
  allowed     \* auxiliary: how many requests of each client passed at each time

vars == <<now, buckets, swept, answer, allowed>>

Init ==
  /\ now = 0 /\ swept = 0
  /\ buckets = [c \in {} |-> [tokens |-> 0, last |-> 0]]
  /\ answer = [client |-> CHOOSE c \in Clients : TRUE, ok |-> TRUE]
  /\ allowed = [c \in Clients |-> [t \in 0 .. MaxTime |-> 0]]

Smaller(m, n) == IF m <= n THEN m ELSE n

\* The bucket Allow finds or makes.
Bucket(c) ==
  IF c \in DOMAIN buckets THEN buckets[c] ELSE [tokens |-> burst, last |-> now]

\* Mutant: the refill does not stop at burst.
RefilledPastBurst(c) == Bucket(c).tokens + (now - Bucket(c).last) * rate

\* The lazy refill.
Refilled(c) == Smaller(burst, Bucket(c).tokens + (now - Bucket(c).last) * rate)

Allow(c) ==
  LET ok == Refilled(c) >= cost
      b  == [tokens |-> IF ok THEN Refilled(c) - cost ELSE Refilled(c), last |-> now]
  IN  /\ answer' = [client |-> c, ok |-> ok]
      /\ buckets' = [x \in DOMAIN buckets \cup {c} |-> IF x = c THEN b ELSE buckets[x]]
      /\ allowed' = IF ok THEN [allowed EXCEPT ![c][now] = @ + 1] ELSE allowed
      /\ UNCHANGED <<now, swept>>

\* Mutant: the cutoff is now.
NotJustUsed(b) == b.last < now

\* Mutant: the cutoff is before any time.
NeverUnused(b) == b.last < 0

\* b.last.Before(cutoff)
Inactive(b) == b.last < now - Idle

\* One turn of the janitor's loop.
janitor ==
  /\ now = swept + Period
  /\ swept' = now
  /\ buckets' = [c \in {x \in DOMAIN buckets : ~Inactive(buckets[x])} |-> buckets[c]]
  /\ UNCHANGED <<now, answer, allowed>>

\* Time passes; the janitor does not miss its tick.
Tick ==
  /\ now < MaxTime /\ now < swept + Period
  /\ now' = now + 1
  /\ UNCHANGED <<buckets, swept, answer, allowed>>

Next == Tick \/ janitor \/ \E c \in Clients : Allow(c)

Spec == Init /\ [][Next]_vars

-----------------------------------------------------------------------------
(***************************************************************************)
(* Properties                                                              *)
(***************************************************************************)
\* A client's requests that pass between any two times are paid for: a full
\* bucket at first and what flowed in since, however often the bucket was
\* forgotten and made anew.
WindowBound ==
  \A c \in Clients : \A s \in 0 .. now : \A t \in s .. now :
    MapThenSumSet(LAMBDA u : allowed[c][u], s .. t) * cost <= burst + (t - s) * rate

\* "remove buckets inativos para o mapa não crescer sem limite": a bucket
\* that is not used is gone by the first sweep after its idle time.
BucketsAreForgotten ==
  \A c \in DOMAIN buckets : now - buckets[c].last <= Idle + Period

Ideal == INSTANCE TokenBucket WITH level <- [c \in Clients |-> Refilled(c)]

\* Refill on use and forgetting idle buckets make no difference to any client: the
\* limiter implements buckets that fill at every tick and are never forgotten.
ImplementsTokenBucket == Ideal!Spec
=============================================================================

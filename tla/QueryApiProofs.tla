---------------------------- MODULE QueryApiProofs ----------------------------
(***************************************************************************)
(* The properties of RateLimiter and QueryApi for every rate, burst, cost, *)
(* set of clients, period of the janitor, statement and size of page.      *)
(*                                                                         *)
(* The argument for the limiter: the level of a client's bucket, Refilled, *)
(* is what an ideal bucket would hold.  A tick fills it, Allow takes from  *)
(* it, and the janitor does not change it, because a bucket that has been  *)
(* idle for Idle ticks is full again.  What a client has spent in a window *)
(* and the level at its end never exceed a full bucket and what flowed in. *)
(*                                                                         *)
(* The argument for pages: a row's place among those before the cursor is  *)
(* the number of newer ones, so a page holds all rows between the cursor   *)
(* and its own last, which is the next cursor.                             *)
(***************************************************************************)
EXTENDS QueryApi, CollectionTheorems

\* The clock, the janitor's last turn and the buckets.
Clocked ==
  /\ now \in 0 .. MaxTime /\ swept \in 0 .. now /\ now <= swept + Period
  /\ DOMAIN buckets \subseteq Clients
  /\ \A c \in DOMAIN buckets :
       /\ buckets[c].tokens \in 0 .. burst
       /\ buckets[c].last \in 0 .. now
       /\ buckets[c].last >= swept - Idle

\* Requests that passed are counted at the time they did.
Counted ==
  /\ allowed \in [Clients -> [0 .. MaxTime -> Nat]]
  /\ \A c \in Clients : \A u \in 0 .. MaxTime : u > now => allowed[c][u] = 0

Spent(c, s, t) == Total(allowed[c], s .. t) * cost

\* Every window up to now is paid for, and so is what the bucket still holds.
Paid ==
  \A c \in Clients :
    /\ \A s \in 0 .. now : Spent(c, s, now) + Refilled(c) <= burst + (now - s) * rate
    /\ \A s \in 0 .. now : \A t \in s .. now : Spent(c, s, t) <= burst + (t - s) * rate

\* The inductive invariant.
LimiterInv == Clocked /\ Counted /\ Paid

-----------------------------------------------------------------------------
(***************************************************************************)
(* Arithmetic                                                              *)
(***************************************************************************)
\* What flows in during one more tick.
LEMMA OneMore ==
  ASSUME NEW d \in Int, NEW r \in Int
  PROVE  (d + 1) * r = d * r + r /\ 0 * r = 0
OBVIOUS

\* More ticks bring no less.
LEMMA Longer ==
  ASSUME NEW d \in Nat, NEW i \in Nat, NEW r \in Nat, i <= d
  PROVE  i * r <= d * r /\ d * r \in Nat
<1>1. d * r = i * r + (d - i) * r
  OBVIOUS
<1>2. (d - i) * r >= 0 /\ i * r \in Nat
  OBVIOUS
<1> QED BY <1>1, <1>2

-----------------------------------------------------------------------------
(***************************************************************************)
(* The level of a bucket                                                   *)
(***************************************************************************)
\* A level is between empty and full, and full when there is no bucket.
LEMMA LevelRange ==
  ASSUME Clocked, NEW c \in Clients
  PROVE  /\ Refilled(c) \in 0 .. burst
         /\ c \notin DOMAIN buckets => Refilled(c) = burst
<1>1. rate \in Nat /\ burst \in Nat /\ now \in Nat
  BY RateLimiterAssumption DEF Clocked
<1>2. CASE c \in DOMAIN buckets
  <2>1. /\ Bucket(c) = buckets[c]
        /\ buckets[c].tokens \in 0 .. burst /\ now - buckets[c].last \in Nat
    BY <1>1, <1>2 DEF Bucket, Clocked
  <2>2. (now - buckets[c].last) * rate \in Nat
    BY <1>1, <2>1, Longer
  <2> QED BY <1>1, <1>2, <2>1, <2>2 DEF Refilled, Smaller
<1>3. CASE c \notin DOMAIN buckets
  <2>1. Bucket(c) = [tokens |-> burst, last |-> now]
    BY <1>3 DEF Bucket
  <2>2. (now - now) * rate = 0
    BY <1>1, OneMore
  <2> QED BY <1>1, <2>1, <2>2 DEF Refilled, Smaller
<1> QED BY <1>2, <1>3

\* A tick fills every bucket, used or not.
LEMMA LevelTick ==
  ASSUME Clocked, Tick, NEW c \in Clients
  PROVE  Refilled(c)' = Smaller(burst, Refilled(c) + rate)
<1>1. rate \in Nat /\ burst \in Nat /\ now \in Nat /\ now' = now + 1 /\ buckets' = buckets
  BY RateLimiterAssumption DEF Clocked, Tick
<1>2. CASE c \in DOMAIN buckets
  <2> DEFINE t == buckets[c].tokens
             d == now - buckets[c].last
  <2>1. t \in 0 .. burst /\ d \in Nat /\ now' - buckets[c].last = d + 1
    BY <1>1, <1>2 DEF Clocked
  <2>2. Bucket(c) = buckets[c] /\ Bucket(c)' = buckets[c]
    BY <1>1, <1>2 DEF Bucket
  <2>3. (d + 1) * rate = d * rate + rate /\ d * rate \in Nat
    BY <1>1, <2>1, OneMore, Longer
  <2>4. Refilled(c) = Smaller(burst, t + d * rate)
    BY <2>2 DEF Refilled
  <2>5. Refilled(c)' = Smaller(burst, t + (d * rate + rate))
    BY <2>1, <2>2, <2>3 DEF Refilled
  <2> HIDE DEF t, d
  <2> QED BY <1>1, <2>1, <2>3, <2>4, <2>5 DEF Smaller
<1>3. CASE c \notin DOMAIN buckets
  <2>1. Refilled(c) = burst
    BY <1>3, LevelRange
  <2>2. Bucket(c)' = [tokens |-> burst, last |-> now']
    BY <1>1, <1>3 DEF Bucket
  <2>3. (now' - now') * rate = 0
    BY <1>1, OneMore
  <2> QED BY <1>1, <2>1, <2>2, <2>3 DEF Refilled, Smaller
<1> QED BY <1>2, <1>3

\* The janitor changes no level: what it forgets is full.
LEMMA LevelJanitor ==
  ASSUME Clocked, janitor, NEW c \in Clients
  PROVE  Refilled(c)' = Refilled(c)
<1>1. rate \in Nat /\ burst \in Nat /\ Idle \in Nat /\ now \in Nat /\ now' = now
      /\ Idle * rate >= burst
      /\ buckets' = [x \in {y \in DOMAIN buckets : ~Inactive(buckets[y])} |-> buckets[x]]
  BY RateLimiterAssumption DEF Clocked, janitor
<1>2. CASE c \in DOMAIN buckets /\ ~Inactive(buckets[c])
  BY <1>1, <1>2 DEF Refilled, Bucket
<1>3. CASE c \in DOMAIN buckets /\ Inactive(buckets[c])
  <2> DEFINE t == buckets[c].tokens
             d == now - buckets[c].last
  <2>1. t \in 0 .. burst /\ d \in Nat /\ Idle <= d
    BY <1>1, <1>3 DEF Clocked, Inactive
  <2>2. d * rate >= burst /\ d * rate \in Nat
    <3>1. Idle * rate <= d * rate /\ d * rate \in Nat
      BY <1>1, <2>1, Longer
    <3>2. Idle * rate \in Int
      BY <1>1
    <3> HIDE DEF d
    <3> QED BY <1>1, <3>1, <3>2
  <2>3. Refilled(c) = Smaller(burst, t + d * rate)
    BY <1>3 DEF Refilled, Bucket
  <2> HIDE DEF t, d
  <2>4. Refilled(c) = burst
    BY <1>1, <2>1, <2>2, <2>3 DEF Smaller
  <2>5. Bucket(c)' = [tokens |-> burst, last |-> now]
    BY <1>1, <1>3 DEF Bucket
  <2>6. (now - now) * rate = 0
    BY <1>1, OneMore
  <2> QED BY <1>1, <2>4, <2>5, <2>6 DEF Refilled, Smaller
<1>4. CASE c \notin DOMAIN buckets
  BY <1>1, <1>4 DEF Refilled, Bucket
<1> QED BY <1>2, <1>3, <1>4

\* Allow takes the cost from the client's level, if it covers it, and leaves the
\* others alone.
LEMMA LevelAllow ==
  ASSUME Clocked, NEW c \in Clients, Allow(c), NEW x \in Clients
  PROVE  Refilled(x)' = IF x = c /\ Refilled(c) >= cost THEN Refilled(c) - cost
                        ELSE Refilled(x)
<1> DEFINE b == [tokens |-> IF Refilled(c) >= cost THEN Refilled(c) - cost ELSE Refilled(c),
                 last |-> now]
<1>1. rate \in Nat /\ burst \in Nat /\ cost \in Nat /\ now \in Nat /\ now' = now
      /\ buckets' = [y \in DOMAIN buckets \cup {c} |-> IF y = c THEN b ELSE buckets[y]]
  BY RateLimiterAssumption DEF Clocked, Allow
<1>2. CASE x # c
  BY <1>1, <1>2 DEF Refilled, Bucket
<1>3. CASE x = c
  <2>1. Bucket(c)' = b
    BY <1>1 DEF Bucket
  <2>2. (now - now) * rate = 0
    BY <1>1, OneMore
  <2>3. Refilled(c) \in 0 .. burst
    BY LevelRange
  <2>4. Refilled(c)' = Smaller(burst, b.tokens + 0)
    <3> HIDE DEF b
    <3>1. b.last = now
      BY DEF b
    <3> QED BY <1>1, <2>1, <2>2, <3>1 DEF Refilled
  <2> QED BY <1>1, <1>3, <2>3, <2>4 DEF Smaller
<1> QED BY <1>2, <1>3

-----------------------------------------------------------------------------
(***************************************************************************)
(* What is spent in a window                                               *)
(***************************************************************************)
\* Counts are integers.
LEMMA Counts ==
  ASSUME NEW S, NEW f \in [S -> Nat]
  PROVE  \A u \in S : f[u] \in Int
OBVIOUS

\* The times of a window are finitely many and have counts.
LEMMA Windows ==
  ASSUME Clocked, Counted, NEW c \in Clients, NEW s \in 0 .. now, NEW t \in 0 .. now
  PROVE  /\ IsFiniteSet(s .. t) /\ Integral(allowed[c], s .. t)
         /\ Total(allowed[c], s .. t) \in Int /\ Spent(c, s, t) \in Int
         /\ s .. t \subseteq 0 .. MaxTime
<1>1. IsFiniteSet(s .. t)
  BY FS_Interval DEF Clocked
<1>2. s .. t \subseteq 0 .. MaxTime
  BY RateLimiterAssumption DEF Clocked
<1>3. Integral(allowed[c], s .. t)
  <2>1. \A u \in 0 .. MaxTime : allowed[c][u] \in Int
    <3>1. allowed[c] \in [0 .. MaxTime -> Nat]
      BY DEF Counted
    <3> QED BY <3>1, Counts
  <2>2. \A u \in s .. t : u \in 0 .. MaxTime
    BY <1>2
  <2> QED BY <2>1, <2>2 DEF Integral
<1>4. Total(allowed[c], s .. t) \in Int
  BY <1>1, <1>3, TotalType
<1>5. \A n \in Int : n * cost \in Int
  BY RateLimiterAssumption
<1>6. Spent(c, s, t) \in Int
  BY <1>4, <1>5 DEF Spent
<1> QED BY <1>1, <1>2, <1>3, <1>4, <1>6

\* Tick: the new instant has no requests yet.
LEMMA TickInv ==
  ASSUME LimiterInv, Tick
  PROVE  LimiterInv'
<1> USE DEF LimiterInv
<1>1. /\ rate \in Nat /\ burst \in Nat /\ cost \in Nat /\ MaxTime \in Nat /\ Period \in Nat
      /\ now \in Nat /\ now' = now + 1 /\ now < MaxTime
      /\ UNCHANGED <<buckets, swept, answer, allowed>>
  BY RateLimiterAssumption DEF Clocked, Tick
<1>2. Clocked'
  BY <1>1 DEF Clocked, Tick
<1>3. Counted'
  BY <1>1 DEF Counted
<1>4. ASSUME NEW c \in Clients, NEW s \in 0 .. now
      PROVE  Total(allowed[c], s .. now') = Total(allowed[c], s .. now)
  <2>1. s .. now' = (s .. now) \cup {now'} /\ now' \notin s .. now
    BY <1>1
  <2>2. allowed[c][now'] = 0
    BY <1>1 DEF Counted
  <2>3. IsFiniteSet(s .. now) /\ Integral(allowed[c], s .. now)
        /\ Total(allowed[c], s .. now) \in Int
    BY <1>1, Windows
  <2>4. Integral(allowed[c], (s .. now) \cup {now'})
    BY <2>2, <2>3 DEF Integral
  <2>5. Total(allowed[c], (s .. now) \cup {now'})
          = allowed[c][now'] + Total(allowed[c], s .. now)
    BY <2>1, <2>3, <2>4, TotalAdd
  <2>6. Total(allowed[c], s .. now') = Total(allowed[c], (s .. now) \cup {now'})
    BY <2>1
  <2> QED BY <2>2, <2>3, <2>5, <2>6
<1>5. ASSUME NEW c \in Clients PROVE Total(allowed[c], now' .. now') = 0
  <2>1. now' .. now' = {} \cup {now'} /\ allowed[c][now'] = 0
    BY <1>1 DEF Counted
  <2>2. IsFiniteSet({}) /\ Integral(allowed[c], {} \cup {now'})
    BY <2>1, FS_EmptySet DEF Integral
  <2>3. Total(allowed[c], {} \cup {now'}) = allowed[c][now'] + Total(allowed[c], {})
    BY <2>2, TotalAdd
  <2> QED BY <2>1, <2>3, TotalEmpty
<1>6. ASSUME NEW c \in Clients, NEW s \in 0 .. now'
      PROVE  /\ Spent(c, s, now)' + Refilled(c)' <= burst + (now' - s) * rate
             /\ Spent(c, s, now)' \in Int
             /\ Refilled(c)' \in Nat
  <2>1. Refilled(c)' = Smaller(burst, Refilled(c) + rate) /\ Refilled(c) \in 0 .. burst
    BY LevelTick, LevelRange
  <2>2. CASE s = now'
    <3>1. Spent(c, s, now)' = 0 * cost
      BY <1>1, <1>5, <2>2 DEF Spent
    <3>2. (now' - s) * rate = 0 /\ 0 * cost = 0
      BY <1>1, <2>2, OneMore
    <3> QED BY <1>1, <2>1, <3>1, <3>2 DEF Smaller
  <2>3. CASE s # now'
    <3>1. s \in 0 .. now
      BY <1>1, <2>3
    <3>2. Spent(c, s, now)' = Spent(c, s, now) /\ Spent(c, s, now) \in Int
      BY <1>1, <1>4, <3>1, Windows DEF Spent
    <3>3. Spent(c, s, now) + Refilled(c) <= burst + (now - s) * rate
      BY <3>1 DEF Paid
    <3>4. (now' - s) * rate = (now - s) * rate + rate /\ (now - s) * rate \in Int
      <4>1. now - s \in Int /\ now' - s = (now - s) + 1
        BY <1>1, <3>1
      <4> QED BY <1>1, <4>1, OneMore
    <3> DEFINE flow == (now - s) * rate
    <3>5. (now' - s) * rate = flow + rate /\ flow \in Int
          /\ Spent(c, s, now) + Refilled(c) <= burst + flow
      BY <3>3, <3>4
    <3> HIDE DEF flow
    <3>6. Refilled(c)' <= Refilled(c) + rate /\ Refilled(c)' \in Nat /\ Refilled(c) \in Int
      BY <1>1, <2>1 DEF Smaller
    <3>7. Spent(c, s, now) + Refilled(c)' <= burst + (flow + rate)
      BY <1>1, <3>2, <3>5, <3>6
    <3> QED BY <3>2, <3>5, <3>6, <3>7
  <2> QED BY <2>2, <2>3
<1>7. ASSUME NEW c \in Clients, NEW s \in 0 .. now', NEW t \in s .. now'
      PROVE  Spent(c, s, t)' <= burst + (t - s) * rate
  <2>1. CASE t = now'
    <3>1. Spent(c, s, t)' = Spent(c, s, now)'
      BY <1>1, <2>1 DEF Spent
    <3>2. (t - s) * rate \in Int /\ (t - s) * rate = (now' - s) * rate
      BY <1>1, <2>1
    <3> QED BY <1>1, <1>6, <3>1, <3>2
  <2>2. CASE t # now'
    <3>1. s \in 0 .. now /\ t \in s .. now
      BY <1>1, <2>2
    <3>2. Spent(c, s, t)' = Spent(c, s, t)
      BY <1>1 DEF Spent
    <3> QED BY <3>1, <3>2 DEF Paid
  <2> QED BY <2>1, <2>2
<1>8. Paid'
  BY <1>6, <1>7 DEF Paid
<1> QED BY <1>2, <1>3, <1>8

\* The janitor: levels and counts stay.
LEMMA JanitorInv ==
  ASSUME LimiterInv, janitor
  PROVE  LimiterInv'
<1> USE DEF LimiterInv
<1>1. /\ Idle \in Nat /\ Period \in Nat /\ now' = now /\ swept' = now /\ allowed' = allowed
      /\ buckets' = [x \in {y \in DOMAIN buckets : ~Inactive(buckets[y])} |-> buckets[x]]
  BY RateLimiterAssumption DEF janitor
<1>2. Clocked'
  BY <1>1 DEF Clocked, Inactive
<1>3. Counted'
  BY <1>1 DEF Counted
<1>4. \A c \in Clients : Refilled(c)' = Refilled(c)
  BY LevelJanitor
<1>5. \A c, s, t : Spent(c, s, t)' = Spent(c, s, t)
  BY <1>1 DEF Spent
<1>6. Paid'
  BY <1>1, <1>4, <1>5 DEF Paid
<1> QED BY <1>2, <1>3, <1>6

\* Allow: what is counted as spent is taken from the level.
LEMMA AllowInv ==
  ASSUME LimiterInv, NEW c \in Clients, Allow(c)
  PROVE  LimiterInv'
<1> USE DEF LimiterInv
<1> DEFINE ok == Refilled(c) >= cost
           b  == [tokens |-> IF ok THEN Refilled(c) - cost ELSE Refilled(c), last |-> now]
<1>1. /\ rate \in Nat /\ burst \in Nat /\ cost \in Nat /\ MaxTime \in Nat /\ Idle \in Nat
      /\ now \in Nat /\ now \in 0 .. MaxTime /\ now' = now /\ swept' = swept
      /\ buckets' = [x \in DOMAIN buckets \cup {c} |-> IF x = c THEN b ELSE buckets[x]]
      /\ allowed' = IF ok THEN [allowed EXCEPT ![c][now] = @ + 1] ELSE allowed
  BY RateLimiterAssumption DEF Clocked, Allow
<1>2. Refilled(c) \in 0 .. burst
  BY LevelRange
<1>3. Clocked'
  <2>1. b.tokens \in 0 .. burst /\ b.last = now
    BY <1>1, <1>2
  <2> HIDE DEF b
  <2> QED BY <1>1, <2>1 DEF Clocked
<1>4. Counted'
  <2>1. allowed \in [Clients -> [0 .. MaxTime -> Nat]]
    BY DEF Counted
  <2>2. CASE ~ok
    BY <1>1, <2>2 DEF Counted
  <2>3. CASE ok
    <3>1. allowed' \in [Clients -> [0 .. MaxTime -> Nat]]
      BY <1>1, <2>1, <2>3
    <3>2. ASSUME NEW x \in Clients, NEW u \in 0 .. MaxTime, u > now
          PROVE  allowed'[x][u] = allowed[x][u]
      BY <1>1, <2>1, <2>3, <3>2
    <3> QED BY <1>1, <3>1, <3>2 DEF Counted
  <2> QED BY <2>2, <2>3
<1>5. \A x \in Clients : Refilled(x)' = IF x = c /\ ok THEN Refilled(c) - cost
                                        ELSE Refilled(x)
  BY LevelAllow
<1>6. ASSUME NEW x \in Clients, NEW s \in 0 .. now, NEW t \in 0 .. now, x # c \/ ~ok \/ t # now
      PROVE  Spent(x, s, t)' = Spent(x, s, t)
  <2>1. CASE x # c \/ ~ok
    <3>1. allowed'[x] = allowed[x]
      BY <1>1, <2>1 DEF Counted
    <3> QED BY <3>1 DEF Spent
  <2>2. CASE x = c /\ ok /\ t # now
    <3>1. \A u \in s .. t : allowed'[c][u] = allowed[c][u]
      BY <1>1, <2>2 DEF Counted
    <3>2. IsFiniteSet(s .. t) /\ Integral(allowed[c], s .. t)
      BY Windows
    <3>3. Total(allowed'[c], s .. t) = Total(allowed[c], s .. t)
      BY <3>1, <3>2, TotalCongruence
    <3> QED BY <2>2, <3>3 DEF Spent
  <2> QED BY <1>6, <2>1, <2>2
<1>7. ASSUME NEW s \in 0 .. now, ok
      PROVE  Spent(c, s, now)' = Spent(c, s, now) + cost
  <2>1. /\ IsFiniteSet(s .. now) /\ Integral(allowed[c], s .. now)
        /\ Total(allowed[c], s .. now) \in Int /\ s .. now \subseteq 0 .. MaxTime
    BY <1>1, Windows
  <2>2. /\ now \in s .. now /\ allowed'[c][now] = allowed[c][now] + 1
        /\ \A u \in (s .. now) \ {now} : allowed'[c][u] = allowed[c][u]
        /\ allowed[c][now] \in Int
    BY <1>1, <1>7, <2>1 DEF Counted
  <2>3. Integral(allowed'[c], s .. now)
    <3>1. \A u \in 0 .. MaxTime : allowed'[c][u] \in Int
      <4>1. allowed'[c] \in [0 .. MaxTime -> Nat]
        BY <1>4 DEF Counted
      <4> QED BY <4>1, Counts
    <3>2. \A u \in s .. now : u \in 0 .. MaxTime
      BY <2>1
    <3> QED BY <3>1, <3>2 DEF Integral
  <2>4. Total(allowed'[c], s .. now)
          = Total(allowed[c], s .. now) - allowed[c][now] + allowed'[c][now]
    <3>1. PICK f, g, W : f = allowed[c] /\ g = allowed'[c] /\ W = s .. now
      OBVIOUS
    <3>2. /\ IsFiniteSet(W) /\ Integral(f, W) /\ Integral(g, W) /\ now \in W
          /\ \A u \in W \ {now} : g[u] = f[u]
      BY <2>1, <2>2, <2>3, <3>1
    <3>3. Total(g, W) = Total(f, W) - f[now] + g[now]
      BY <3>2, TotalChange
    <3> QED BY <3>1, <3>3
  <2> DEFINE n == Total(allowed[c], s .. now)
  <2>5. n \in Int /\ Total(allowed'[c], s .. now) = n + 1
    BY <2>1, <2>2, <2>4
  <2> HIDE DEF n
  <2>6. (n + 1) * cost = n * cost + cost
    BY <1>1, <2>5, OneMore
  <2> QED BY <1>1, <2>5, <2>6 DEF Spent, n
<1>8. ASSUME NEW x \in Clients, NEW s \in 0 .. now
      PROVE  /\ Spent(x, s, now)' + Refilled(x)' <= burst + (now - s) * rate
             /\ Spent(x, s, now)' \in Int /\ Refilled(x)' \in Nat
  <2>1. /\ Spent(x, s, now) \in Int /\ Refilled(x) \in 0 .. burst
        /\ Spent(x, s, now) + Refilled(x) <= burst + (now - s) * rate
    BY <1>1, Windows, LevelRange DEF Paid
  <2>2. CASE x = c /\ ok
    <3> DEFINE flow == burst + (now - s) * rate
    <3>1. flow \in Int /\ Spent(c, s, now) + Refilled(c) <= flow
      BY <1>1, <2>1, <2>2
    <3>2. Spent(c, s, now)' = Spent(c, s, now) + cost /\ Refilled(c)' = Refilled(c) - cost
      BY <1>5, <1>7, <2>2
    <3> HIDE DEF flow
    <3>3. Spent(c, s, now)' + Refilled(c)' <= flow
      BY <1>1, <1>2, <2>1, <2>2, <3>1, <3>2
    <3> QED BY <1>1, <1>2, <2>1, <2>2, <3>2, <3>3 DEF flow
  <2>3. CASE ~(x = c /\ ok)
    <3>1. Spent(x, s, now)' = Spent(x, s, now) /\ Refilled(x)' = Refilled(x)
      BY <1>1, <1>5, <1>6, <2>3
    <3> QED BY <2>1, <3>1
  <2> QED BY <2>2, <2>3
<1>9. ASSUME NEW x \in Clients, NEW s \in 0 .. now, NEW t \in s .. now
      PROVE  Spent(x, s, t)' <= burst + (t - s) * rate
  <2>1. CASE t = now
    <3>1. Spent(x, s, t)' = Spent(x, s, now)'
      BY <1>1, <2>1 DEF Spent
    <3>2. (t - s) * rate \in Int
      BY <1>1
    <3> QED BY <1>1, <1>8, <2>1, <3>1, <3>2
  <2>2. CASE t # now
    <3>1. t \in 0 .. now
      BY <1>1
    <3>2. Spent(x, s, t)' = Spent(x, s, t)
      BY <1>6, <2>2, <3>1
    <3> QED BY <3>2 DEF Paid
  <2> QED BY <2>1, <2>2
<1>10. Paid'
  <2>1. \A x \in Clients : \A s \in 0 .. now' :
          Spent(x, s, now)' + Refilled(x)' <= burst + (now' - s) * rate
    BY <1>1, <1>8
  <2>2. \A x \in Clients : \A s \in 0 .. now' : \A t \in s .. now' :
          Spent(x, s, t)' <= burst + (t - s) * rate
    BY <1>1, <1>9
  <2> QED BY <2>1, <2>2 DEF Paid
<1> QED BY <1>3, <1>4, <1>10

-----------------------------------------------------------------------------
(***************************************************************************)
(* Theorems                                                                *)
(***************************************************************************)
\* At first every bucket is full, every window empty and no request counted.
LEMMA InitInv ==
  ASSUME Init
  PROVE  LimiterInv
<1>1. /\ rate \in Nat /\ burst \in Nat /\ cost \in Nat /\ MaxTime \in Nat /\ Period \in Nat
      /\ now = 0 /\ swept = 0 /\ DOMAIN buckets = {}
      /\ allowed = [c \in Clients |-> [t \in 0 .. MaxTime |-> 0]]
  BY RateLimiterAssumption DEF Init
<1>2. Clocked
  BY <1>1 DEF Clocked
<1>3. Counted
  BY <1>1 DEF Counted
<1>4. ASSUME NEW c \in Clients
      PROVE  Spent(c, 0, 0) = 0 /\ Refilled(c) = burst
  <2>1. 0 .. 0 = {} \cup {0} /\ allowed[c][0] = 0
    BY <1>1
  <2>2. IsFiniteSet({}) /\ Integral(allowed[c], {} \cup {0})
    BY <2>1, FS_EmptySet DEF Integral
  <2>3. Total(allowed[c], {} \cup {0}) = allowed[c][0] + Total(allowed[c], {})
    BY <2>2, TotalAdd
  <2>4. Total(allowed[c], 0 .. 0) = Total(allowed[c], {} \cup {0})
    BY <2>1
  <2>5. Total(allowed[c], 0 .. 0) = 0
    BY <2>1, <2>3, <2>4, TotalEmpty
  <2>6. 0 * cost = 0
    BY <1>1, OneMore
  <2> QED BY <1>1, <1>2, <2>5, <2>6, LevelRange DEF Spent
<1>5. Paid
  <2>1. \A s \in 0 .. now : s = 0 /\ \A t \in s .. now : t = 0
    BY <1>1
  <2>2. (0 - 0) * rate = 0
    BY <1>1, OneMore
  <2> QED BY <1>1, <1>4, <2>1, <2>2 DEF Paid
<1> QED BY <1>2, <1>3, <1>5 DEF LimiterInv

\* Levels stay between empty and full, buckets are swept in time, and every window
\* is paid for: the inductive invariant of the limiter.
THEOREM LimiterInvariant == Spec => []LimiterInv
<1>1. Init => LimiterInv
  BY InitInv
<1>2. LimiterInv /\ [Next]_vars => LimiterInv'
  <2> SUFFICES ASSUME LimiterInv, [Next]_vars PROVE LimiterInv'
    OBVIOUS
  <2>1. CASE Tick
    BY <2>1, TickInv
  <2>2. CASE janitor
    BY <2>2, JanitorInv
  <2>3. CASE \E c \in Clients : Allow(c)
    BY <2>3, AllowInv
  <2>4. CASE UNCHANGED vars
    BY <2>4 DEF vars, LimiterInv, Clocked, Counted, Paid, Spent, Refilled, Bucket
  <2> QED BY <2>1, <2>2, <2>3, <2>4 DEF Next
<1> QED BY <1>1, <1>2, PTL DEF Spec

\* In no window do more requests of a client pass than a full bucket and what flowed
\* in pay for, although buckets are forgotten and made anew.
THEOREM WindowsArePaidFor == Spec => []WindowBound
<1>1. LimiterInv => WindowBound
  <2>1. WindowBound <=> \A c \in Clients : \A s \in 0 .. now : \A t \in s .. now :
                          Spent(c, s, t) <= burst + (t - s) * rate
    BY Zenon DEF WindowBound, Spent, Total
  <2> QED BY <2>1 DEF LimiterInv, Paid
<1> QED BY <1>1, LimiterInvariant, PTL

\* The map of buckets does not keep clients that went away: a bucket is gone by the
\* first sweep after its idle time.
THEOREM IdleBucketsGo == Spec => []BucketsAreForgotten
<1>1. LimiterInv => BucketsAreForgotten
  BY RateLimiterAssumption DEF LimiterInv, Clocked, BucketsAreForgotten
<1> QED BY <1>1, LimiterInvariant, PTL

\* Allow, with its lazy refill and its janitor, decides as buckets do that fill at
\* every tick and are never forgotten.
THEOREM LimiterIsATokenBucket == Spec => ImplementsTokenBucket
<1> DEFINE level == [c \in Clients |-> Refilled(c)]
<1>1. Init => Ideal!Init
  <2> SUFFICES ASSUME Init PROVE Ideal!Init
    OBVIOUS
  <2>1. Clocked /\ DOMAIN buckets = {}
    BY InitInv DEF LimiterInv, Init
  <2>2. \A c \in Clients : Refilled(c) = burst
    BY <2>1, LevelRange
  <2> QED BY <2>2 DEF Init, Ideal!Init
<1>2. LimiterInv /\ [Next]_vars => [Ideal!Next]_<<level, answer>>
  <2> SUFFICES ASSUME LimiterInv, [Next]_vars
               PROVE  Ideal!Next \/ UNCHANGED <<level, answer>>
    OBVIOUS
  <2>0. Clocked
    BY DEF LimiterInv
  <2>1. CASE Tick
    <3>1. \A c \in Clients : Refilled(c)' = Smaller(burst, Refilled(c) + rate)
      BY <2>0, <2>1, LevelTick
    <3>2. Ideal!Fill
      BY <2>1, <3>1 DEF Ideal!Fill, Ideal!Smaller, Smaller, Tick
    <3> QED BY <3>2 DEF Ideal!Next
  <2>2. CASE janitor
    <3>1. \A c \in Clients : Refilled(c)' = Refilled(c)
      BY <2>0, <2>2, LevelJanitor
    <3> QED BY <2>2, <3>1 DEF janitor
  <2>3. ASSUME NEW c \in Clients, Allow(c) PROVE Ideal!Next
    <3>1. \A x \in Clients : Refilled(x)' = IF x = c /\ Refilled(c) >= cost
                                            THEN Refilled(c) - cost ELSE Refilled(x)
      BY <2>0, <2>3, LevelAllow
    <3>2. answer' = [client |-> c, ok |-> Refilled(c) >= cost]
      BY <2>3 DEF Allow
    <3>3. Ideal!Decide(c)
      <4>1. answer' = [client |-> c, ok |-> level[c] >= cost]
        BY <3>2
      <4>2. level' = IF level[c] >= cost THEN [level EXCEPT ![c] = @ - cost] ELSE level
        BY <3>1
      <4> QED BY <4>1, <4>2 DEF Ideal!Decide
    <3> QED BY <3>3 DEF Ideal!Next
  <2>4. CASE UNCHANGED vars
    BY <2>4 DEF vars, Refilled, Bucket
  <2> QED BY <2>1, <2>2, <2>3, <2>4 DEF Next
<1> QED BY <1>1, <1>2, LimiterInvariant, PTL DEF Spec, ImplementsTokenBucket, Ideal!Spec

-----------------------------------------------------------------------------
(***************************************************************************)
(* The rows of a page                                                      *)
(***************************************************************************)
Above(S, t) == {u \in S : u > t}

\* How many rows precede t when the newest comes first.
Rank(S, t) == Cardinality(Above(S, t))

\* The newer a row, the fewer precede it.
LEMMA NewerIsEarlier ==
  ASSUME NEW S, S \subseteq Nat, IsFiniteSet(S)
  PROVE  /\ Cardinality(S) \in Nat
         /\ \A t \in S : Rank(S, t) \in 0 .. Cardinality(S) - 1
         /\ \A t, u \in S : t < u => Rank(S, u) < Rank(S, t)
<1>1. Cardinality(S) \in Nat
  BY FS_CardinalityType
<1>2. ASSUME NEW t \in S PROVE IsFiniteSet(Above(S, t)) /\ Rank(S, t) \in Nat
  <2>1. Above(S, t) \in SUBSET S
    BY DEF Above
  <2>2. IsFiniteSet(Above(S, t))
    BY <2>1, FS_Subset
  <2> QED BY <2>2, FS_CardinalityType DEF Rank
<1>3. ASSUME NEW t \in S PROVE Rank(S, t) <= Cardinality(S) - 1
  <2>1. Above(S, t) \in SUBSET (S \ {t})
    BY DEF Above
  <2>2. IsFiniteSet(S \ {t}) /\ Cardinality(S \ {t}) = Cardinality(S) - 1
    BY FS_RemoveElement
  <2>3. Cardinality(Above(S, t)) <= Cardinality(S \ {t})
    BY <2>1, <2>2, FS_Subset
  <2> QED BY <2>2, <2>3 DEF Rank
<1>4. ASSUME NEW t \in S, NEW u \in S, t < u PROVE Rank(S, u) < Rank(S, t)
  <2>1. Above(S, u) \cup {u} \in SUBSET Above(S, t) /\ u \notin Above(S, u)
    <3>1. \A x \in S : x > u => x > t
      BY <1>4
    <3>2. u > t /\ ~(u > u)
      BY <1>4
    <3> QED BY <3>1, <3>2 DEF Above
  <2>2. Cardinality(Above(S, u) \cup {u}) = Cardinality(Above(S, u)) + 1
    BY <1>2, <2>1, FS_AddElement
  <2>3. Cardinality(Above(S, u) \cup {u}) <= Cardinality(Above(S, t))
    BY <1>2, <2>1, FS_Subset
  <2> QED BY <1>2, <2>2, <2>3 DEF Rank
<1> QED BY <1>1, <1>2, <1>3, <1>4

\* Every place is taken: some row has exactly k before it.
LEMMA EveryRankTaken ==
  ASSUME NEW S, S \subseteq Nat, IsFiniteSet(S)
  PROVE  \A k \in 0 .. Cardinality(S) - 1 : \E t \in S : Rank(S, t) = k
<1> DEFINE n == Cardinality(S)
           R == 0 .. n - 1
           f == [t \in S |-> Rank(S, t)]
<1>1. /\ n \in Nat
      /\ \A t \in S : Rank(S, t) \in R
      /\ \A t, u \in S : t < u => Rank(S, u) < Rank(S, t)
  BY NewerIsEarlier
<1>2. IsFiniteSet(R) /\ Cardinality(R) = n
  <2>1. 0 \in Int /\ n - 1 \in Int /\ (0 > n - 1 => n = 0) /\ (n - 1) - 0 + 1 = n
    BY <1>1
  <2> HIDE DEF n
  <2>2. IsFiniteSet(0 .. n - 1)
    BY <2>1, FS_Interval
  <2>3. Cardinality(0 .. n - 1) = IF 0 > n - 1 THEN 0 ELSE (n - 1) - 0 + 1
    BY <2>1, FS_Interval
  <2> QED BY <2>1, <2>2, <2>3
<1>3. \A t, u \in S : t # u => Rank(S, t) # Rank(S, u)
  <2> SUFFICES ASSUME NEW t \in S, NEW u \in S, t # u PROVE Rank(S, t) # Rank(S, u)
    OBVIOUS
  <2>1. Rank(S, t) \in Int /\ Rank(S, u) \in Int
    BY <1>1
  <2>2. t < u \/ u < t
    OBVIOUS
  <2> QED BY <1>1, <2>1, <2>2
<1> HIDE DEF R
<1>4. f \in [S -> R]
  BY <1>1
<1>5. f \in Injection(S, R)
  BY <1>3, <1>4 DEF Injection, IsInjective
<1>6. f \in Surjection(S, R)
  BY <1>2, <1>5, FS_Injection
<1>7. \A k \in R : \E t \in S : f[t] = k
  BY <1>6 DEF Surjection
<1> QED BY <1>7 DEF R

\* The statement counts as the limiter does.
LEMMA SameCount == ASSUME NEW X PROVE Pages!Cardinality(X) = Cardinality(X)
BY Zenon DEF Pages!Cardinality, Cardinality

\* There is a newest of several times.
LEMMA NewestTime == Pages!Latest \in Nat /\ \A t \in Times : t < Pages!Latest
<1>1. Times \subseteq Nat /\ Times # {} /\ IsFiniteSet(Times)
  BY QueryApiAssumption
<1>2. Cardinality(Times) \in Nat /\ Cardinality(Times) # 0
  BY <1>1, FS_CardinalityType, FS_EmptySet
<1>3. PICK t \in Times : Rank(Times, t) = 0
  <2>1. 0 \in 0 .. Cardinality(Times) - 1
    BY <1>2
  <2> QED BY <1>1, <2>1, EveryRankTaken
<1>4. Above(Times, t) \in SUBSET Times
  BY DEF Above
<1>5. Above(Times, t) = {}
  BY <1>1, <1>3, <1>4, FS_Subset, FS_EmptySet DEF Rank
<1>6. \A u \in Times : t >= u
  BY <1>1, <1>5 DEF Above
<1> DEFINE m == Pages!Max(Times)
<1>7. m \in Times /\ \A u \in Times : m >= u
  BY <1>6 DEF Pages!Max
<1>8. Pages!Latest = m + 1
  BY DEF Pages!Latest
<1> HIDE DEF m
<1> QED BY <1>1, <1>7, <1>8

Falling(s) == \A i, j \in 1 .. Len(s) : i < j => s[i] > s[j]

Has(s, t) == \E i \in 1 .. Len(s) : s[i] = t

\* The newest rows there are, newest first: all of them when the page is short, and
\* otherwise all that are not older than its last.
IsPage(S, p) ==
  /\ p \in Seq(Nat) /\ Len(p) <= limit
  /\ \A i \in 1 .. Len(p) : p[i] \in S
  /\ Falling(p)
  /\ Len(p) < limit => \A t \in S : Has(p, t)
  /\ Len(p) # 0 => \A t \in S : t >= p[Len(p)] => Has(p, t)

\* The SELECT returns a page.
LEMMA PageRows ==
  ASSUME NEW S, S \subseteq Nat, IsFiniteSet(S)
  PROVE  IsPage(S, Pages!Newest(S))
<1> SUFFICES ASSUME NEW p, p = Pages!Newest(S) PROVE IsPage(S, p)
  OBVIOUS
<1> DEFINE n == Cardinality(S)
           m == Pages!Min({limit, Pages!Cardinality(S)})
           At(i) == CHOOSE t \in S : Pages!Cardinality({u \in S : u > t}) = i - 1
<1>1. /\ n \in Nat
      /\ \A t \in S : Rank(S, t) \in 0 .. n - 1
      /\ \A t, u \in S : t < u => Rank(S, u) < Rank(S, t)
  BY NewerIsEarlier
<1>2. limit \in Nat \ {0}
  BY QueryApiAssumption
<1>3. m \in Nat /\ m <= limit /\ m <= n /\ (m = limit \/ m = n)
  <2>1. \E x \in {limit, n} : \A y \in {limit, n} : x =< y
    BY <1>1, <1>2
  <2>2. m \in {limit, n} /\ \A y \in {limit, n} : m =< y
    BY <2>1, SameCount DEF Pages!Min
  <2> QED BY <1>1, <1>2, <2>2
<1>4. p = [i \in 1 .. m |-> At(i)]
  BY Zenon DEF Pages!Newest
<1>5. ASSUME NEW i \in 1 .. m PROVE At(i) \in S /\ Rank(S, At(i)) = i - 1
  <2>1. i - 1 \in 0 .. n - 1
    BY <1>1, <1>3
  <2>2. \E t \in S : Rank(S, t) = i - 1
    BY <2>1, EveryRankTaken
  <2>3. \A t \in S : Pages!Cardinality({u \in S : u > t}) = Rank(S, t)
    BY SameCount DEF Rank, Above
  <2>4. \E t \in S : Pages!Cardinality({u \in S : u > t}) = i - 1
    BY <2>2, <2>3
  <2>5. At(i) \in S /\ Pages!Cardinality({u \in S : u > At(i)}) = i - 1
    BY <2>4
  <2> HIDE DEF At
  <2> QED BY <2>3, <2>5
<1> HIDE DEF At, m, n
<1>6. /\ p \in Seq(Nat) /\ Len(p) = m
      /\ \A i \in 1 .. m : p[i] \in S /\ Rank(S, p[i]) = i - 1
  <2>1. \A i \in 1 .. m : p[i] = At(i)
    BY <1>4
  <2>2. \A i \in 1 .. m : At(i) \in Nat
    BY <1>5
  <2>3. p \in Seq(Nat) /\ Len(p) = m
    BY <1>3, <1>4, <2>2
  <2> QED BY <1>5, <2>1, <2>3
<1>7. \A t, u \in S : Rank(S, t) = Rank(S, u) => t = u
  <2> SUFFICES ASSUME NEW t \in S, NEW u \in S, t # u PROVE Rank(S, t) # Rank(S, u)
    OBVIOUS
  <2>1. Rank(S, t) \in Int /\ Rank(S, u) \in Int /\ (t < u \/ u < t)
    BY <1>1
  <2> QED BY <1>1, <2>1
<1>8. ASSUME NEW i \in 1 .. m, NEW j \in 1 .. m, i < j PROVE p[i] > p[j]
  <2>1. /\ p[i] \in S /\ p[j] \in S /\ p[i] \in Nat /\ p[j] \in Nat
        /\ Rank(S, p[i]) = i - 1 /\ Rank(S, p[j]) = j - 1
    BY <1>6
  <2>2. ~(p[i] < p[j])
    BY <1>1, <1>3, <1>8, <2>1
  <2>3. p[i] # p[j]
    BY <1>3, <1>8, <2>1
  <2> QED BY <2>1, <2>2, <2>3
<1>9. ASSUME NEW t \in S, Rank(S, t) < m PROVE \E i \in 1 .. m : p[i] = t
  <2>1. Rank(S, t) + 1 \in 1 .. m /\ (Rank(S, t) + 1) - 1 = Rank(S, t)
    BY <1>1, <1>3, <1>9
  <2>2. p[Rank(S, t) + 1] = t
    BY <1>6, <1>7, <2>1
  <2> QED BY <2>1, <2>2
<1>10. ASSUME m < limit PROVE \A t \in S : \E i \in 1 .. m : p[i] = t
  BY <1>1, <1>3, <1>9, <1>10
<1>11. ASSUME m # 0, NEW t \in S, t >= p[m] PROVE \E i \in 1 .. m : p[i] = t
  <2>1. m \in 1 .. m
    BY <1>3, <1>11
  <2>2. p[m] \in S /\ p[m] \in Nat /\ t \in Nat /\ Rank(S, p[m]) = m - 1
    BY <1>6, <2>1
  <2>3. Rank(S, t) <= m - 1
    <3>1. CASE t = p[m]
      BY <2>2, <3>1, <1>3
    <3>2. CASE p[m] < t
      BY <1>1, <1>3, <2>2, <3>2
    <3> QED BY <1>11, <2>2, <3>1, <3>2
  <2> QED BY <1>1, <1>3, <1>9, <2>3
<1> QED BY <1>3, <1>6, <1>8, <1>10, <1>11 DEF IsPage, Falling, Has

-----------------------------------------------------------------------------
(***************************************************************************)
(* Reading page by page                                                    *)
(***************************************************************************)
\* The inductive invariant: what has been read is newer than the cursor or at it,
\* and what there was at the start has been read or lies before the cursor.
PageInv ==
  /\ entries \subseteq Times /\ first \subseteq entries
  /\ before \in Nat /\ got \in Seq(Nat) /\ done \in BOOLEAN
  /\ Falling(got)
  /\ \A i \in 1 .. Len(got) : got[i] >= before
  /\ \A t \in first : t < before \/ Has(got, t)
  /\ done => \A t \in first : Has(got, t)

\* What both parts of a statement hold, the whole holds.
LEMMA Joined ==
  ASSUME NEW g \in Seq(Nat), NEW p \in Seq(Nat)
  PROVE  /\ g \o p \in Seq(Nat) /\ Len(g \o p) = Len(g) + Len(p)
         /\ \A i \in 1 .. Len(g) + Len(p) :
              (g \o p)[i] = IF i <= Len(g) THEN g[i] ELSE p[i - Len(g)]
         /\ \A t : Has(g \o p, t) <=> Has(g, t) \/ Has(p, t)
<1>1. /\ g \o p \in Seq(Nat) /\ Len(g \o p) = Len(g) + Len(p)
      /\ Len(g) \in Nat /\ Len(p) \in Nat
      /\ \A i \in 1 .. Len(g) + Len(p) :
           (g \o p)[i] = IF i <= Len(g) THEN g[i] ELSE p[i - Len(g)]
  OBVIOUS
<1> DEFINE q == g \o p
<1> HIDE DEF q
<1>2. /\ Len(q) = Len(g) + Len(p)
      /\ \A i \in 1 .. Len(g) + Len(p) : q[i] = IF i <= Len(g) THEN g[i] ELSE p[i - Len(g)]
  BY <1>1 DEF q
<1>3. ASSUME NEW t, Has(q, t) PROVE Has(g, t) \/ Has(p, t)
  <2>1. PICK i \in 1 .. Len(g) + Len(p) : q[i] = t
    BY <1>2, <1>3 DEF Has
  <2>2. CASE i <= Len(g)
    BY <1>1, <1>2, <2>1, <2>2 DEF Has
  <2>3. CASE i > Len(g)
    <3>1. i - Len(g) \in 1 .. Len(p) /\ q[i] = p[i - Len(g)]
      BY <1>1, <1>2, <2>3
    <3> QED BY <2>1, <3>1 DEF Has
  <2> QED BY <1>1, <2>2, <2>3
<1>4. ASSUME NEW t, Has(g, t) PROVE Has(q, t)
  <2>1. PICK i \in 1 .. Len(g) : g[i] = t
    BY <1>4 DEF Has
  <2>2. i \in 1 .. Len(g) + Len(p) /\ q[i] = t
    BY <1>1, <1>2, <2>1
  <2> QED BY <1>2, <2>2 DEF Has
<1>5. ASSUME NEW t, Has(p, t) PROVE Has(q, t)
  <2>1. PICK i \in 1 .. Len(p) : p[i] = t
    BY <1>5 DEF Has
  <2>2. /\ i + Len(g) \in 1 .. Len(g) + Len(p) /\ ~(i + Len(g) <= Len(g))
        /\ (i + Len(g)) - Len(g) = i
    BY <1>1, <2>1
  <2>3. q[i + Len(g)] = t
    BY <1>2, <2>1, <2>2
  <2> QED BY <1>2, <2>2, <2>3 DEF Has
<1> QED BY <1>1, <1>3, <1>4, <1>5 DEF q

\* A page read at the cursor continues the statement.
LEMMA PageContinues ==
  ASSUME PageInv, Pages!handleStatement
  PROVE  PageInv'
<1> DEFINE S == {t \in entries : t < before}
           p == Pages!Newest(S)
           q == got \o p
<1>1. /\ entries \subseteq Times /\ Times \subseteq Nat /\ IsFiniteSet(Times)
      /\ first \subseteq entries /\ before \in Nat /\ got \in Seq(Nat)
      /\ limit \in Nat \ {0}
  BY QueryApiAssumption DEF PageInv
<1>2. S \subseteq Nat /\ IsFiniteSet(S)
  <2>1. S \in SUBSET Times
    BY <1>1
  <2> QED BY <1>1, <2>1, FS_Subset
<1>3. /\ got' = q /\ done' = (Len(p) < limit)
      /\ before' = IF p = <<>> THEN before ELSE p[Len(p)]
      /\ entries' = entries /\ first' = first
  BY Zenon DEF Pages!handleStatement, Pages!Page
<1>4. /\ p \in Seq(Nat) /\ Len(p) <= limit
      /\ \A i \in 1 .. Len(p) : p[i] \in S
      /\ Falling(p)
      /\ Len(p) < limit => \A t \in S : Has(p, t)
      /\ Len(p) # 0 => \A t \in S : t >= p[Len(p)] => Has(p, t)
  <2> HIDE DEF S
  <2>1. IsPage(S, p)
    BY <1>2, PageRows
  <2> HIDE DEF p
  <2> QED BY <2>1 DEF IsPage
<1> HIDE DEF p
<1>5. /\ q \in Seq(Nat) /\ Len(q) = Len(got) + Len(p)
      /\ \A i \in 1 .. Len(got) + Len(p) :
           q[i] = IF i <= Len(got) THEN got[i] ELSE p[i - Len(got)]
      /\ \A t : Has(q, t) <=> Has(got, t) \/ Has(p, t)
  BY <1>1, <1>4, Joined
<1> HIDE DEF q
<1>6. Len(got) \in Nat /\ Len(p) \in Nat /\ (p = <<>> <=> Len(p) = 0)
  BY <1>1, <1>4
<1>7. /\ \A i \in 1 .. Len(got) : got[i] \in Nat /\ got[i] >= before
      /\ \A i \in 1 .. Len(p) : p[i] \in Nat /\ p[i] < before
      /\ Falling(got)
  BY <1>1, <1>4 DEF PageInv
<1>8. Falling(q)
  <2> SUFFICES ASSUME NEW i \in 1 .. Len(q), NEW j \in 1 .. Len(q), i < j
               PROVE  q[i] > q[j]
    BY DEF Falling
  <2>1. CASE j <= Len(got)
    <3>1. i \in 1 .. Len(got) /\ j \in 1 .. Len(got) /\ q[i] = got[i] /\ q[j] = got[j]
      BY <1>5, <1>6, <2>1
    <3> QED BY <1>7, <3>1 DEF Falling
  <2>2. CASE i > Len(got)
    <3>1. /\ i - Len(got) \in 1 .. Len(p) /\ j - Len(got) \in 1 .. Len(p)
          /\ i - Len(got) < j - Len(got)
          /\ q[i] = p[i - Len(got)] /\ q[j] = p[j - Len(got)]
      BY <1>5, <1>6, <2>2
    <3> QED BY <1>4, <3>1 DEF Falling
  <2>3. CASE i <= Len(got) /\ j > Len(got)
    <3>1. /\ i \in 1 .. Len(got) /\ j - Len(got) \in 1 .. Len(p)
          /\ q[i] = got[i] /\ q[j] = p[j - Len(got)]
      BY <1>5, <1>6, <2>3
    <3>2. got[i] \in Nat /\ got[i] >= before /\ p[j - Len(got)] \in Nat /\ p[j - Len(got)] < before
      BY <1>7, <3>1
    <3> QED BY <1>1, <3>1, <3>2
  <2> QED BY <1>5, <1>6, <2>1, <2>2, <2>3
<1>9. before' \in Nat /\ before' <= before /\ \A i \in 1 .. Len(p) : p[i] >= before'
  <2>1. CASE Len(p) = 0
    BY <1>1, <1>3, <1>6, <2>1
  <2>2. CASE Len(p) # 0
    <3>1. Len(p) \in 1 .. Len(p) /\ before' = p[Len(p)]
      BY <1>3, <1>6, <2>2
    <3>2. p[Len(p)] \in Nat /\ p[Len(p)] < before
      BY <1>7, <3>1
    <3>3. ASSUME NEW i \in 1 .. Len(p) PROVE p[i] >= p[Len(p)]
      <4>1. CASE i = Len(p)
        BY <3>2, <4>1
      <4>2. CASE i < Len(p)
        BY <1>4, <1>7, <3>1, <3>2, <4>2 DEF Falling
      <4> QED BY <1>6, <4>1, <4>2
    <3> QED BY <1>1, <3>1, <3>2, <3>3
  <2> QED BY <2>1, <2>2
<1>10. \A i \in 1 .. Len(q) : q[i] >= before'
  <2> SUFFICES ASSUME NEW i \in 1 .. Len(q) PROVE q[i] >= before'
    OBVIOUS
  <2>1. CASE i <= Len(got)
    <3>1. i \in 1 .. Len(got) /\ q[i] = got[i]
      BY <1>5, <1>6, <2>1
    <3> QED BY <1>1, <1>7, <1>9, <3>1
  <2>2. CASE i > Len(got)
    <3>1. i - Len(got) \in 1 .. Len(p) /\ q[i] = p[i - Len(got)]
      BY <1>5, <1>6, <2>2
    <3> QED BY <1>9, <3>1
  <2> QED BY <1>6, <1>5, <2>1, <2>2
<1>11. ASSUME NEW t \in first PROVE t < before' \/ Has(q, t)
  <2>1. CASE Has(got, t)
    BY <1>5, <2>1
  <2>2. CASE t < before
    <3>1. t \in S /\ t \in Nat
      BY <1>1, <2>2
    <3>2. CASE Len(p) = 0
      BY <1>3, <1>6, <2>2, <3>2
    <3>3. CASE Len(p) # 0
      <4>1. before' = p[Len(p)]
        BY <1>3, <1>6, <3>3
      <4>2. t >= before' => Has(p, t)
        BY <1>4, <3>1, <3>3, <4>1
      <4> QED BY <1>5, <1>9, <3>1, <4>2
    <3> QED BY <3>2, <3>3
  <2> QED BY <2>1, <2>2 DEF PageInv
<1>12. ASSUME done', NEW t \in first PROVE Has(q, t)
  <2>1. \A u \in S : Has(p, u)
    BY <1>3, <1>4, <1>12
  <2>2. t < before => t \in S
    BY <1>1
  <2>3. t < before \/ Has(got, t)
    BY DEF PageInv
  <2> QED BY <1>5, <2>1, <2>2, <2>3
<1>13. done' \in BOOLEAN
  BY <1>3
<1> QED BY <1>1, <1>3, <1>5, <1>8, <1>9, <1>10, <1>11, <1>12, <1>13 DEF PageInv

\* What a client has read of a statement stays in place through refusals and
\* insertions: the inductive invariant of pagination.
THEOREM PagesInvariant == ApiSpec => []PageInv
<1>1. ApiInit => PageInv
  <2> SUFFICES ASSUME ApiInit PROVE PageInv
    OBVIOUS
  <2>1. /\ entries \subseteq Times /\ first = entries /\ before = Pages!Latest
        /\ got = <<>> /\ done = FALSE
    BY DEF ApiInit, Pages!Init
  <2>2. before \in Nat /\ \A t \in first : t < before
    BY <2>1, NewestTime
  <2>3. got \in Seq(Nat) /\ Len(got) = 0
    BY <2>1
  <2>4. \A i \in 1 .. Len(got) : FALSE
    BY <2>3
  <2>5. Falling(got) /\ \A i \in 1 .. Len(got) : got[i] >= before
    BY <2>4 DEF Falling
  <2>6. done \in BOOLEAN /\ ~done
    BY <2>1
  <2> QED BY <2>1, <2>2, <2>3, <2>5, <2>6 DEF PageInv
<1>2. PageInv /\ [ApiNext]_apiVars => PageInv'
  <2> SUFFICES ASSUME PageInv, [ApiNext]_apiVars PROVE PageInv'
    OBVIOUS
  <2>1. CASE Pages!handleStatement
    BY <2>1, PageContinues
  <2>2. CASE Pages!Project
    <3>1. PICK t \in Times : entries' = entries \cup {t}
      BY <2>2 DEF Pages!Project
    <3> QED BY <2>2, <3>1 DEF Pages!Project, PageInv, Falling, Has
  <2>3. CASE UNCHANGED pageVars
    BY <2>3 DEF pageVars, PageInv, Falling, Has
  <2> QED BY <2>1, <2>2, <2>3 DEF ApiNext, apiVars, Get, Other, Clock, Write
<1> QED BY <1>1, <1>2, PTL DEF ApiSpec

\* A statement read page by page repeats no entry, keeps their order and misses
\* nothing that was there at the start, whatever the projector inserts meanwhile and
\* however often the limiter refuses a page.
THEOREM PaginationIsStable == ApiSpec => []PagesAreStable
<1>1. PageInv => PagesAreStable
  <2> SUFFICES ASSUME PageInv PROVE PagesAreStable
    OBVIOUS
  <2>1. DOMAIN got = 1 .. Len(got)
    BY DEF PageInv
  <2>2. \A i, j \in DOMAIN got : i < j => got[i] > got[j]
    BY <2>1 DEF PageInv, Falling
  <2>3. done => first \subseteq {got[i] : i \in DOMAIN got}
    BY <2>1 DEF PageInv, Has
  <2> QED BY <2>2, <2>3 DEF PagesAreStable, Pages!PagesAreStable
<1> QED BY <1>1, PagesInvariant, PTL

\* Nothing the routes behind it do changes the limiter: the service as a whole
\* implements the limiter, so each of its guarantees holds of the service.
THEOREM ApiIsLimited == ApiSpec => Spec /\ [](WindowBound /\ BucketsAreForgotten)
                                   /\ ImplementsTokenBucket
<1>1. ApiInit => Init
  BY DEF ApiInit
<1>2. [ApiNext]_apiVars => [Next]_vars
  BY QueryApiAssumption DEF ApiNext, apiVars, Get, Other, Clock, Write, Next, vars
<1>3. ApiSpec => Spec
  BY <1>1, <1>2, PTL DEF ApiSpec, Spec
<1> QED BY <1>3, WindowsArePaidFor, IdleBucketsGo, LimiterIsATokenBucket, PTL
=============================================================================

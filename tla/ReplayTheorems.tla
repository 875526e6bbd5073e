--------------------------- MODULE ReplayTheorems ---------------------------
(***************************************************************************)
(* What Replay computes, for every stream: the facts about Accumulated,    *)
(* LastVersion and Insert that the proofs about the command side rest on,  *)
(* and what its decisions append.                                          *)
(*                                                                         *)
(* The facts by induction over versions are proved by looking at a least   *)
(* version at which they fail (LeastNat).                                  *)
(***************************************************************************)
EXTENDS EventStore, CollectionTheorems

-----------------------------------------------------------------------------
(***************************************************************************)
(* Accumulated is well defined                                             *)
(***************************************************************************)
\* Rows are a partial function from versions to events.
Rows(r) == \A v \in DOMAIN r : r[v] \in Event

\* One turn of the loop, at version n.
Turn(r, a, n) == IF n \in DOMAIN r THEN Apply(a, r[n]) ELSE a

\* Apply and one turn of the loop stay within the account states.
LEMMA ApplyType ==
  ASSUME NEW a \in AccountState, NEW e \in Event
  PROVE  /\ Apply(a, e) \in AccountState
         /\ Apply(a, e).version = e.version
         /\ Apply(a, e).balance = a.balance + Delta(e)
<1>1. /\ e.amount \in Nat /\ e.version \in Nat /\ e.type \in EventTypes
      /\ e.aggregate_id \in AccountIds
  BY DEF Event
<1>2. Delta(e) \in Int
  BY <1>1 DEF Delta
<1>3. /\ a.id \in AccountIds \cup {NoId} /\ a.balance \in Int
      /\ a.open \in BOOLEAN
  BY DEF AccountState
<1>4. (a.open \/ e.type = "account.opened") \in BOOLEAN
  OBVIOUS
<1> DEFINE owner == IF e.type = "account.opened" THEN e.aggregate_id ELSE a.id
           exists == (a.open \/ e.type = "account.opened")
           funds == a.balance + Delta(e)
<1>5. Apply(a, e) = [a EXCEPT !.id = owner, !.balance = funds, !.open = exists,
                              !.version = e.version]
  BY DEF Apply
<1>6. owner \in AccountIds \cup {NoId} /\ funds \in Int
  BY <1>1, <1>2, <1>3
<1>7. exists \in BOOLEAN
  BY <1>4
<1> HIDE DEF owner, exists
<1> QED
  BY <1>1, <1>5, <1>6, <1>7 DEF AccountState

\* A turn of the loop of Replay leaves an account.
LEMMA TurnType ==
  ASSUME NEW r, Rows(r), NEW a \in AccountState, NEW n \in Nat
  PROVE  Turn(r, a, n) \in AccountState
BY ApplyType DEF Turn, Rows

\* Accumulated satisfies the recursion that defines it.
THEOREM AccumulatedIsTheLoop ==
  ASSUME NEW b \in AccountState, NEW r, Rows(r)
  PROVE  /\ Accumulated(b, r) \in [Nat -> AccountState]
         /\ Accumulated(b, r)[0] = b
         /\ \A n \in Nat : Accumulated(b, r)[n + 1] =
                           Turn(r, Accumulated(b, r)[n], n + 1)
<1> DEFINE Body(f) == [n \in Nat |-> IF n = 0 THEN b
                         ELSE IF n \in DOMAIN r THEN Apply(f[n - 1], r[n])
                         ELSE f[n - 1]]
           H == [n \in Nat |-> [a \in AccountState |-> Turn(r, a, n)]]
<1>1. H \in [Nat -> [AccountState -> AccountState]]
  BY TurnType
<1>2. PICK F : Loop(AccountState, b, H, F)
  <2> HIDE DEF H
  <2> QED BY <1>1, LoopExists
<1>3. F[0] = b /\ F \in [Nat -> AccountState]
  BY <1>2 DEF Loop
<1>4. ASSUME NEW n \in Nat PROVE F[n + 1] = Turn(r, F[n], n + 1)
  <2>1. F[n + 1] = H[n + 1][F[n]] /\ F[n] \in AccountState /\ n + 1 \in Nat
    <3> HIDE DEF H
    <3> QED BY <1>2 DEF Loop
  <2> QED BY <2>1
<1>5. F = Body(F)
  <2>1. ASSUME NEW n \in Nat PROVE F[n] = Body(F)[n]
    <3>1. CASE n = 0
      BY <3>1, <1>3
    <3>2. CASE n # 0
      <4>1. n - 1 \in Nat /\ (n - 1) + 1 = n
        BY <3>2
      <4>2. F[n] = Turn(r, F[n - 1], n)
        BY <1>4, <4>1
      <4> QED BY <4>2, <3>2 DEF Turn
    <3> QED BY <3>1, <3>2
  <2> QED BY <2>1, <1>3
<1>6. Accumulated(b, r) = CHOOSE f : f = Body(f)
  BY DEF Accumulated
<1> DEFINE A == Accumulated(b, r)
<1>7. A = Body(A)
  BY <1>5, <1>6
<1> HIDE DEF A
<1>8. A[0] = b
  BY <1>7
<1>9. ASSUME NEW n \in Nat PROVE A[n + 1] = Turn(r, A[n], n + 1)
  <2>1. n + 1 \in Nat /\ n + 1 # 0 /\ (n + 1) - 1 = n
    OBVIOUS
  <2>2. Body(A)[n + 1] = IF n + 1 \in DOMAIN r THEN Apply(A[n], r[n + 1]) ELSE A[n]
    BY <2>1
  <2> QED BY <2>2, <1>7 DEF Turn
<1>10. A \in [Nat -> AccountState]
  <2> DEFINE T == {n \in Nat : A[n] \notin AccountState}
  <2>1. T = {}
    <3> SUFFICES ASSUME T # {} PROVE FALSE
      OBVIOUS
    <3>1. PICK n \in T : \A m \in T : n <= m
      <4>1. T \subseteq Nat
        OBVIOUS
      <4> HIDE DEF T
      <4> QED BY <4>1, LeastNat
    <3>2. n # 0
      BY <3>1, <1>8
    <3>3. n - 1 \in Nat /\ n - 1 \notin T /\ (n - 1) + 1 = n
      BY <3>1, <3>2
    <3>4. A[n] = Turn(r, A[n - 1], n)
      BY <3>3, <1>9
    <3> QED BY <3>1, <3>3, <3>4, TurnType
  <2>2. A = [n \in Nat |-> A[n]]
    BY <1>7
  <2> QED BY <2>1, <2>2
<1> QED
  BY <1>8, <1>9, <1>10 DEF A

-----------------------------------------------------------------------------
(***************************************************************************)
(* Streams: rows with the versions 1 .. n                                  *)
(***************************************************************************)
\* r is the stream of account a, n events long.
Stream(a, r, n) ==
  /\ n \in Nat
  /\ DOMAIN r = 1 .. n
  /\ \A v \in 1 .. n : /\ r[v] \in Event
                       /\ r[v].aggregate_id = a
                       /\ r[v].version = v
                       /\ r[v].type = "account.opened" <=> v = 1

States(r) == Accumulated(EmptyAccount, r)

\* domain.Account{} is an account.
LEMMA EmptyAccountType == EmptyAccount \in AccountState
BY DEF EmptyAccount, AccountState

\* The last version of a stream without gaps is its length.
LEMMA LastVersionOfStream ==
  ASSUME NEW r, NEW n \in Nat, DOMAIN r = 1 .. n
  PROVE  LastVersion(r) = n
<1>1. CASE n = 0
  BY <1>1 DEF LastVersion
<1>2. CASE n # 0
  <2>1. DOMAIN r # {} /\ n \in DOMAIN r
    BY <1>2
  <2>2. ASSUME NEW v \in DOMAIN r
        PROVE  (\A w \in DOMAIN r : w <= v) <=> v = n
    <3>1. v \in Int /\ v <= n
      OBVIOUS
    <3>2. (\A w \in DOMAIN r : w <= v) => n <= v
      BY <2>1
    <3>3. v = n => \A w \in DOMAIN r : w <= v
      OBVIOUS
    <3> QED BY <3>1, <3>2, <3>3
  <2> QED
    BY <2>1, <2>2 DEF LastVersion
<1> QED
  BY <1>1, <1>2

\* The state after v events of a stream depends on those events only.
LEMMA StatesOfPrefix ==
  ASSUME NEW r, NEW s, Rows(r), Rows(s), NEW n \in Nat,
         \A v \in 1 .. n : /\ v \in DOMAIN r <=> v \in DOMAIN s
                           /\ v \in DOMAIN r => r[v] = s[v]
  PROVE  \A m \in 0 .. n : States(r)[m] = States(s)[m]
<1> DEFINE A == States(r)
           B == States(s)
           T == {m \in 0 .. n : A[m] # B[m]}
<1>1. /\ A \in [Nat -> AccountState] /\ A[0] = EmptyAccount
      /\ \A m \in Nat : A[m + 1] = Turn(r, A[m], m + 1)
  BY AccumulatedIsTheLoop, EmptyAccountType DEF States
<1>2. /\ B \in [Nat -> AccountState] /\ B[0] = EmptyAccount
      /\ \A m \in Nat : B[m + 1] = Turn(s, B[m], m + 1)
  BY AccumulatedIsTheLoop, EmptyAccountType DEF States
<1> HIDE DEF A, B
<1>3. T = {}
  <2> SUFFICES ASSUME T # {} PROVE FALSE
    OBVIOUS
  <2>1. PICK m \in T : \A x \in T : m <= x
    <3>1. T \subseteq Nat
      OBVIOUS
    <3> HIDE DEF T
    <3> QED BY <3>1, LeastNat
  <2>2. m # 0
    BY <1>1, <1>2, <2>1
  <2>3. m - 1 \in Nat /\ m - 1 \notin T /\ (m - 1) + 1 = m /\ m \in 1 .. n
    BY <2>1, <2>2
  <2>4. A[m - 1] = B[m - 1]
    BY <2>3
  <2>5. A[m] = Turn(r, A[m - 1], m) /\ B[m] = Turn(s, B[m - 1], m)
    BY <1>1, <1>2, <2>3
  <2>6. A[m] = B[m]
    BY <2>3, <2>4, <2>5 DEF Turn
  <2> QED BY <2>1, <2>6
<1> QED
  BY <1>3 DEF A, B

\* The rows of a stream are rows the loop of Replay can take.
LEMMA StreamRows ==
  ASSUME NEW a, NEW r, NEW n, Stream(a, r, n)
  PROVE  Rows(r) /\ LastVersion(r) = n
BY LastVersionOfStream DEF Stream, Rows

\* Every state of a stream bears the account's id and its own version, and only
\* the empty one is not open.
THEOREM StatesOfStream ==
  ASSUME NEW a \in AccountIds, NEW r, NEW n, Stream(a, r, n)
  PROVE  \A m \in 0 .. n : /\ States(r)[m] \in AccountState
                           /\ States(r)[m].version = m
                           /\ m > 0 => /\ States(r)[m].id = a
                                       /\ States(r)[m].open
<1> DEFINE A == States(r)
           Good(m) == /\ A[m].version = m
                      /\ m > 0 => A[m].id = a /\ A[m].open
           T == {m \in 0 .. n : ~Good(m)}
<1>1. /\ A \in [Nat -> AccountState] /\ A[0] = EmptyAccount
      /\ \A m \in Nat : A[m + 1] = Turn(r, A[m], m + 1)
  BY AccumulatedIsTheLoop, EmptyAccountType, StreamRows DEF States
<1> HIDE DEF A
<1>2. T = {}
  <2> SUFFICES ASSUME T # {} PROVE FALSE
    OBVIOUS
  <2>1. PICK m \in T : \A x \in T : m <= x
    <3>1. T \subseteq Nat
      BY DEF Stream
    <3> HIDE DEF T
    <3> QED BY <3>1, LeastNat
  <2>2. m # 0
    BY <1>1, <2>1 DEF EmptyAccount
  <2>3. m - 1 \in Nat /\ m - 1 \notin T /\ (m - 1) + 1 = m /\ m \in 1 .. n
    BY <2>1, <2>2 DEF Stream
  <2>4. Good(m - 1)
    BY <2>3 DEF Stream
  <2>5. A[m] = Apply(A[m - 1], r[m])
    BY <1>1, <2>3 DEF Turn, Stream
  <2>6. /\ r[m].aggregate_id = a /\ r[m].version = m
        /\ r[m].type = "account.opened" <=> m = 1
    BY <2>3 DEF Stream
  <2>7. m # 1 => A[m - 1].id = a /\ A[m - 1].open
    BY <2>3, <2>4
  <2>8. A[m].version = m /\ A[m].id = a
    BY <2>5, <2>6, <2>7 DEF Apply
  <2>9. A[m].open <=> A[m - 1].open \/ r[m].type = "account.opened"
    <3> DEFINE now == (A[m - 1].open \/ r[m].type = "account.opened")
    <3>1. Apply(A[m - 1], r[m]).open = now
      BY DEF Apply
    <3> QED BY <2>5, <3>1
  <2>10. A[m].open
    BY <2>6, <2>7, <2>9
  <2>11. Good(m)
    BY <2>8, <2>10
  <2> QED BY <2>11
<1>3. \A m \in 0 .. n : Good(m) /\ A[m] \in AccountState
  BY <1>1, <1>2
<1> QED
  BY <1>3 DEF A

\* Load's shortcut is exact: replaying the events after a snapshot onto it gives
\* the state of the whole stream.
THEOREM ReplayOnSnapshot ==
  ASSUME NEW a \in AccountIds, NEW r, NEW n, Stream(a, r, n), NEW v \in 0 .. n
  PROVE  /\ RowsAfter(r, v) = [w \in v + 1 .. n |-> r[w]]
         /\ Replay(States(r)[v], RowsAfter(r, v)) = States(r)[n]
<1> DEFINE A == States(r)
           after == RowsAfter(r, v)
           B == Accumulated(A[v], after)
           T == {m \in 0 .. n : B[m] # IF m <= v THEN A[v] ELSE A[m]}
<1>0. n \in Nat /\ v \in Nat /\ DOMAIN r = 1 .. n /\ Rows(r)
  <2>1. n \in Nat /\ DOMAIN r = 1 .. n
    BY DEF Stream
  <2>2. Rows(r)
    BY StreamRows
  <2> QED BY <2>1, <2>2
<1>1. /\ A \in [Nat -> AccountState] /\ A[0] = EmptyAccount
      /\ \A m \in Nat : A[m + 1] = Turn(r, A[m], m + 1)
  BY AccumulatedIsTheLoop, EmptyAccountType, <1>0 DEF States
<1> HIDE DEF A
<1>2. {x \in DOMAIN r : x > v} = v + 1 .. n
  BY <1>0
<1>3. after = [w \in v + 1 .. n |-> r[w]]
  BY <1>2 DEF RowsAfter
<1>4. Rows(after)
  BY <1>0, <1>3 DEF Rows
<1> HIDE DEF after
<1>5. A[v] \in AccountState
  BY <1>0, <1>1
<1>6. /\ B \in [Nat -> AccountState] /\ B[0] = A[v]
      /\ \A m \in Nat : B[m + 1] = Turn(after, B[m], m + 1)
  BY AccumulatedIsTheLoop, <1>4, <1>5
<1>7. T = {}
  <2> HIDE DEF B
  <2> SUFFICES ASSUME T # {} PROVE FALSE
    OBVIOUS
  <2>1. PICK m \in T : \A x \in T : m <= x
    <3>1. T \subseteq Nat
      OBVIOUS
    <3> HIDE DEF T
    <3> QED BY <3>1, LeastNat
  <2>2. m # 0
    <3>1. ASSUME m = 0 PROVE FALSE
      <4>1. B[0] # IF 0 <= v THEN A[v] ELSE A[0]
        BY <2>1, <3>1
      <4>2. 0 <= v
        BY <1>0
      <4> QED BY <1>6, <4>1, <4>2
    <3> QED BY <3>1
  <2>3. m - 1 \in Nat /\ m - 1 \notin T /\ (m - 1) + 1 = m /\ m \in 1 .. n
    BY <1>0, <2>1, <2>2
  <2>4. B[m - 1] = IF m - 1 <= v THEN A[v] ELSE A[m - 1]
    BY <1>0, <2>3
  <2>5. B[m] = Turn(after, B[m - 1], m) /\ A[m] = Turn(r, A[m - 1], m)
    BY <1>1, <1>6, <2>3
  <2>6. CASE m <= v
    <3>1. m \notin DOMAIN after
      BY <1>0, <1>3, <2>3, <2>6
    <3>2. B[m] = A[v]
      BY <1>0, <2>3, <2>4, <2>5, <2>6, <3>1 DEF Turn
    <3> QED BY <2>1, <2>6, <3>2
  <2>7. CASE m > v
    <3>1. m \in DOMAIN after /\ after[m] = r[m] /\ m \in DOMAIN r
      BY <1>0, <1>3, <2>3, <2>7
    <3>2. B[m - 1] = A[m - 1]
      <4>1. m - 1 <= v => m - 1 = v
        BY <1>0, <2>3, <2>7
      <4> QED BY <2>4, <4>1
    <3>3. B[m] = A[m]
      BY <2>5, <3>1, <3>2 DEF Turn
    <3> QED BY <1>0, <2>1, <2>3, <2>7, <3>3
  <2> QED BY <1>0, <2>3, <2>6, <2>7
<1>8. LastVersion(after) = IF v < n THEN n ELSE 0
  <2>1. CASE v < n
    <3>1. DOMAIN after # {} /\ n \in DOMAIN after
      <4>1. DOMAIN after = v + 1 .. n
        BY <1>3
      <4>2. n \in v + 1 .. n
        BY <1>0, <2>1
      <4> QED BY <4>1, <4>2
    <3>2. ASSUME NEW x \in DOMAIN after
          PROVE  (\A w \in DOMAIN after : w <= x) <=> x = n
      <4>1. x \in Int /\ x <= n
        BY <1>0, <1>3
      <4>2. (\A w \in DOMAIN after : w <= x) => n <= x
        BY <3>1
      <4>3. x = n => \A w \in DOMAIN after : w <= x
        BY <1>0, <1>3
      <4> QED BY <1>0, <4>1, <4>2, <4>3
    <3> QED BY <2>1, <3>1, <3>2 DEF LastVersion
  <2>2. CASE ~(v < n)
    <3>1. DOMAIN after = {}
      BY <1>0, <1>3, <2>2
    <3> QED BY <2>2, <3>1 DEF LastVersion
  <2> QED BY <2>1, <2>2
<1>9. Replay(A[v], after) = A[n]
  <2>1. Replay(A[v], after) = B[LastVersion(after)]
    BY DEF Replay
  <2> HIDE DEF B
  <2>2. CASE v < n
    BY <1>0, <1>7, <1>8, <2>1, <2>2
  <2>3. CASE ~(v < n)
    <3>1. v = n
      BY <1>0, <2>3
    <3> QED BY <1>6, <1>8, <2>1, <2>3, <3>1
  <2> QED BY <2>2, <2>3
<1> QED
  BY <1>3, <1>9 DEF A, after

-----------------------------------------------------------------------------
(***************************************************************************)
(* What an append does to a stream                                         *)
(***************************************************************************)
\* A batch that continues a stream of n events leaves one of n + Len(evs).
LEMMA InsertExtends ==
  ASSUME NEW a \in AccountIds, NEW r, NEW n, Stream(a, r, n),
         NEW evs \in Seq(Event), WellFormed(a, n, evs)
  PROVE  Insert(r, evs) = [v \in 1 .. n + Len(evs) |->
                             IF v <= n THEN r[v] ELSE evs[v - n]]
<1>1. n \in Nat /\ DOMAIN r = 1 .. n
  BY DEF Stream
<1>2. Len(evs) \in Nat /\ DOMAIN evs = 1 .. Len(evs)
  OBVIOUS
<1>3. \A i \in 1 .. Len(evs) : evs[i].version = n + i
  BY <1>2 DEF WellFormed
<1> DEFINE D == DOMAIN r \cup {evs[i].version : i \in DOMAIN evs}
<1>4. D = 1 .. n + Len(evs)
  <2>1. ASSUME NEW v \in 1 .. n + Len(evs) PROVE v \in D
    <3>1. CASE v <= n
      BY <1>1, <3>1
    <3>2. CASE v > n
      <4>1. v - n \in DOMAIN evs /\ evs[v - n].version = v
        BY <1>1, <1>2, <1>3, <3>2
      <4> QED BY <4>1
    <3> QED BY <1>1, <3>1, <3>2
  <2>2. ASSUME NEW v \in D PROVE v \in 1 .. n + Len(evs)
    BY <1>1, <1>2, <1>3
  <2> QED BY <2>1, <2>2
<1>5. ASSUME NEW v \in 1 .. n + Len(evs), ~(v <= n)
      PROVE  evs[CHOOSE i \in DOMAIN evs : evs[i].version = v] = evs[v - n]
  <2>1. v - n \in DOMAIN evs /\ evs[v - n].version = v
    BY <1>1, <1>2, <1>3, <1>5
  <2> DEFINE j == CHOOSE i \in DOMAIN evs : evs[i].version = v
  <2>2. j \in DOMAIN evs /\ evs[j].version = v
    BY <2>1
  <2> HIDE DEF j
  <2>3. j = v - n
    BY <1>1, <1>2, <1>3, <2>2
  <2> QED BY <2>3 DEF j
<1>6. \A v \in 1 .. n + Len(evs) : v \in DOMAIN r <=> v <= n
  BY <1>1, <1>2
<1> QED
  BY <1>4, <1>5, <1>6 DEF Insert

\* One event more: the states before it stay, the last one is applied to.
LEMMA OneMoreEvent ==
  ASSUME NEW a \in AccountIds, NEW r, NEW n, Stream(a, r, n), NEW e,
         e \in Event, e.aggregate_id = a, e.version = n + 1,
         e.type = "account.opened" <=> n = 0,
         NEW s, s = [v \in 1 .. n + 1 |-> IF v <= n THEN r[v] ELSE e]
  PROVE  /\ Stream(a, s, n + 1)
         /\ \A v \in 0 .. n : States(s)[v] = States(r)[v]
         /\ States(s)[n + 1] = Apply(States(r)[n], e)
<1>1. n \in Nat /\ DOMAIN r = 1 .. n
  BY DEF Stream
<1>2. Stream(a, s, n + 1)
  <2>1. \A v \in 1 .. n + 1 : v <= n => s[v] = r[v]
    OBVIOUS
  <2>2. s[n + 1] = e
    BY <1>1
  <2>3. ASSUME NEW v \in 1 .. n + 1
        PROVE  /\ s[v] \in Event /\ s[v].aggregate_id = a /\ s[v].version = v
               /\ s[v].type = "account.opened" <=> v = 1
    <3>1. CASE v <= n
      BY <1>1, <2>1, <3>1 DEF Stream
    <3>2. CASE v = n + 1
      BY <1>1, <2>2, <3>2
    <3> QED BY <1>1, <3>1, <3>2
  <2> QED BY <1>1, <2>3 DEF Stream
<1>3. Rows(r) /\ Rows(s)
  BY <1>2, StreamRows
<1>4. \A v \in 0 .. n : States(s)[v] = States(r)[v]
  <2>1. \A v \in 1 .. n : /\ v \in DOMAIN s <=> v \in DOMAIN r
                          /\ v \in DOMAIN s => s[v] = r[v]
    BY <1>1
  <2> QED BY <1>1, <1>3, <2>1, StatesOfPrefix
<1>5. States(s)[n + 1] = Apply(States(r)[n], e)
  <2>1. States(s)[n + 1] = Turn(s, States(s)[n], n + 1)
    BY <1>1, <1>3, AccumulatedIsTheLoop, EmptyAccountType DEF States
  <2>2. n + 1 \in DOMAIN s /\ s[n + 1] = e
    BY <1>1
  <2>3. States(s)[n] = States(r)[n]
    BY <1>1, <1>4
  <2> QED BY <2>1, <2>2, <2>3 DEF Turn
<1> QED
  BY <1>2, <1>4, <1>5

\* The same through Insert and Replay: what Append stores is what Apply computes.
LEMMA InsertOne ==
  ASSUME NEW a \in AccountIds, NEW r, NEW n, Stream(a, r, n), NEW e,
         e \in Event, e.aggregate_id = a, e.version = n + 1,
         e.type = "account.opened" <=> n = 0,
         NEW s, s = Insert(r, <<e>>)
  PROVE  /\ Stream(a, s, n + 1)
         /\ s[n + 1] = e /\ \A v \in 1 .. n : s[v] = r[v]
         /\ Replay(EmptyAccount, s) = Apply(Replay(EmptyAccount, r), e)
<1>1. n \in Nat /\ DOMAIN r = 1 .. n
  BY DEF Stream
<1>2. s = [v \in 1 .. n + 1 |-> IF v <= n THEN r[v] ELSE e]
  <2> DEFINE evs == <<e>>
  <2>1. evs \in Seq(Event) /\ Len(evs) = 1 /\ evs[1] = e
    OBVIOUS
  <2>2. WellFormed(a, n, evs)
    BY <1>1 DEF WellFormed
  <2>3. s = Insert(r, evs)
    OBVIOUS
  <2> HIDE DEF evs
  <2>4. s = [v \in 1 .. n + Len(evs) |-> IF v <= n THEN r[v] ELSE evs[v - n]]
    <3>1. Insert(r, evs) = [v \in 1 .. n + Len(evs) |->
                              IF v <= n THEN r[v] ELSE evs[v - n]]
      <4>1. evs \in Seq(Event)
        BY <2>1
      <4> QED BY <2>2, <4>1, InsertExtends
    <3> QED BY <2>3, <3>1
  <2>5. \A v \in 1 .. n + 1 : ~(v <= n) => evs[v - n] = e
    BY <1>1, <2>1
  <2> QED BY <2>1, <2>4, <2>5
<1>3. Stream(a, s, n + 1) /\ States(s)[n + 1] = Apply(States(r)[n], e)
  BY <1>2, OneMoreEvent
<1>4. LastVersion(r) = n /\ LastVersion(s) = n + 1
  BY <1>3, StreamRows
<1>5. s[n + 1] = e /\ \A v \in 1 .. n : s[v] = r[v]
  BY <1>1, <1>2
<1> QED
  BY <1>3, <1>4, <1>5 DEF Replay, States

-----------------------------------------------------------------------------
(***************************************************************************)
(* What a decision yields                                                  *)
(***************************************************************************)
\* The guard of every decision but OpenAccount's: the account exists, the amount
\* is positive.
LEMMA GuardPasses ==
  ASSUME NEW x, NEW amount, guard(x, amount) = "nil"
  PROVE  /\ x.id # NoId
         /\ ~(amount <= 0)
BY DEF guard

\* An event that mutate may append to x: it continues the stream and leaves
\* money in the account.
MayAppend(x, e) ==
  /\ e \in Event
  /\ e.aggregate_id = x.id
  /\ e.version = x.version + 1
  /\ e.type # "account.opened"
  /\ x.balance >= 0 => x.balance + Delta(e) >= 0

\* The two kinds of event a decision may return.
LEMMA MoneyIn ==
  ASSUME NEW x \in AccountState, x.id \in AccountIds, NEW amount \in Int, amount > 0,
         NEW type \in {"money.deposited", "transfer.credited", "transfer.reversed"},
         NEW t \in TransferIds \cup {NoId}, NEW b \in AccountIds \cup {NoId}
  PROVE  MayAppend(x, NewEvent(x.id, x.version + 1, type, amount, t, b))
<1> DEFINE e == NewEvent(x.id, x.version + 1, type, amount, t, b)
<1>1. x.version \in Nat /\ x.balance \in Int /\ amount \in Nat
  BY DEF AccountState
<1>2. /\ e.aggregate_id = x.id /\ e.version = x.version + 1 /\ e.type = type
      /\ e.amount = amount
  BY DEF NewEvent
<1>3. e \in Event
  BY <1>1 DEF NewEvent, Event, EventTypes
<1> HIDE DEF e
<1>4. Delta(e) = amount
  BY <1>2 DEF Delta
<1> QED
  BY <1>1, <1>2, <1>3, <1>4 DEF MayAppend, e

\* A withdrawal or debit that the balance covers continues the account and
\* leaves no negative balance.
LEMMA MoneyOut ==
  ASSUME NEW x \in AccountState, x.id \in AccountIds, NEW amount \in Int, amount > 0,
         ~(x.balance < amount),
         NEW type \in {"money.withdrawn", "transfer.debited"},
         NEW t \in TransferIds \cup {NoId}, NEW b \in AccountIds \cup {NoId}
  PROVE  MayAppend(x, NewEvent(x.id, x.version + 1, type, amount, t, b))
<1> DEFINE e == NewEvent(x.id, x.version + 1, type, amount, t, b)
<1>1. x.version \in Nat /\ x.balance \in Int /\ amount \in Nat
  BY DEF AccountState
<1>2. /\ e.aggregate_id = x.id /\ e.version = x.version + 1 /\ e.type = type
      /\ e.amount = amount
  BY DEF NewEvent
<1>3. e \in Event
  BY <1>1 DEF NewEvent, Event, EventTypes
<1> HIDE DEF e
<1>4. Delta(e) = -amount
  BY <1>2 DEF Delta
<1> QED
  BY <1>1, <1>2, <1>3, <1>4 DEF MayAppend, e

\* Every decision on an open account either refuses or continues its stream.
LEMMA DecisionsContinue ==
  ASSUME NEW x \in AccountState, x.id \in AccountIds, NEW amount \in Int,
         NEW t \in TransferIds \cup {NoId}, NEW b \in AccountIds \cup {NoId},
         NEW d \in {Deposit(x, amount), Withdraw(x, amount), DebitTransfer(x, t, b, amount),
                    CreditTransfer(x, t, b, amount), ReverseTransfer(x, t, amount)},
         d.err = "nil"
  PROVE  MayAppend(x, d.event)
<1>1. CASE d = Deposit(x, amount)
  <2>1. guard(x, amount) = "nil"
    BY <1>1 DEF Deposit, Refuse
  <2>2. d.event = NewEvent(x.id, x.version + 1, "money.deposited", amount, NoId, NoId)
    BY <1>1, <2>1 DEF Deposit, Accept
  <2>3. amount > 0
    BY <2>1, GuardPasses
  <2> QED BY <2>1, <2>2, <2>3, MoneyIn
<1>2. CASE d = Withdraw(x, amount)
  <2>1. guard(x, amount) = "nil" /\ ~(x.balance < amount)
    BY <1>2 DEF Withdraw, Refuse
  <2>2. d.event = NewEvent(x.id, x.version + 1, "money.withdrawn", amount, NoId, NoId)
    BY <1>2, <2>1 DEF Withdraw, Accept
  <2>3. amount > 0
    BY <2>1, GuardPasses
  <2> QED BY <2>1, <2>2, <2>3, MoneyOut
<1>3. CASE d = DebitTransfer(x, t, b, amount)
  <2>1. guard(x, amount) = "nil" /\ ~(x.balance < amount) /\ x.id # b
    BY <1>3 DEF DebitTransfer, Refuse
  <2>2. d.event = NewEvent(x.id, x.version + 1, "transfer.debited", amount, t, b)
    BY <1>3, <2>1 DEF DebitTransfer, Accept
  <2>3. amount > 0
    BY <2>1, GuardPasses
  <2> QED BY <2>1, <2>2, <2>3, MoneyOut
<1>4. CASE d = CreditTransfer(x, t, b, amount)
  <2>1. guard(x, amount) = "nil"
    BY <1>4 DEF CreditTransfer, Refuse
  <2>2. d.event = NewEvent(x.id, x.version + 1, "transfer.credited", amount, t, b)
    BY <1>4, <2>1 DEF CreditTransfer, Accept
  <2>3. amount > 0
    BY <2>1, GuardPasses
  <2> QED BY <2>1, <2>2, <2>3, MoneyIn
<1>5. CASE d = ReverseTransfer(x, t, amount)
  <2>1. ~(amount <= 0) /\ x.id # NoId
    BY <1>5 DEF ReverseTransfer, Refuse
  <2>2. d.event = NewEvent(x.id, x.version + 1, "transfer.reversed", amount, t, NoId)
    BY <1>5, <2>1 DEF ReverseTransfer, Accept
  <2>3. amount > 0
    BY <2>1
  <2> QED BY <2>2, <2>3, MoneyIn
<1> QED
  BY <1>1, <1>2, <1>3, <1>4, <1>5

FirstEvent(a) == NewEvent(a, 1, "account.opened", 0, NoId, NoId)

\* The event of OpenAccount opens the empty account at version 1 with nothing.
LEMMA OpenedEvent ==
  ASSUME NEW a \in AccountIds
  PROVE  /\ FirstEvent(a) \in Event
         /\ FirstEvent(a).aggregate_id = a /\ FirstEvent(a).version = 1
         /\ FirstEvent(a).type = "account.opened"
         /\ Delta(FirstEvent(a)) = 0
         /\ Apply(EmptyAccount, FirstEvent(a)) \in AccountState
         /\ Apply(EmptyAccount, FirstEvent(a)).id = a
         /\ Apply(EmptyAccount, FirstEvent(a)).version = 1
         /\ Apply(EmptyAccount, FirstEvent(a)).balance = 0
<1> DEFINE e == FirstEvent(a)
<1>1. /\ e.aggregate_id = a /\ e.version = 1 /\ e.type = "account.opened"
      /\ e.amount = 0
  BY DEF FirstEvent, NewEvent
<1>2. e \in Event
  BY DEF FirstEvent, NewEvent, Event, EventTypes
<1> HIDE DEF e
<1>3. Delta(e) = 0
  BY <1>1 DEF Delta
<1>4. /\ Apply(EmptyAccount, e) \in AccountState
      /\ Apply(EmptyAccount, e).version = 1
      /\ Apply(EmptyAccount, e).balance = EmptyAccount.balance + Delta(e)
  BY <1>1, <1>2, ApplyType, EmptyAccountType
<1>5. Apply(EmptyAccount, e).id = a
  BY <1>1 DEF Apply
<1>6. EmptyAccount.balance = 0
  BY DEF EmptyAccount
<1> QED
  BY <1>1, <1>2, <1>3, <1>4, <1>5, <1>6 DEF e
=============================================================================

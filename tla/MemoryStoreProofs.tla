-------------------------- MODULE MemoryStoreProofs --------------------------
(***************************************************************************)
(* The store in memory matches the Postgres store for any accounts with a  *)
(* UUID, any transfers and amounts and streams of any length.              *)
(*                                                                         *)
(* The argument: a batch is decided on a version of the stream and so      *)
(* continues it from there.  Memory compares that version with the length  *)
(* of its stream, Postgres runs into UNIQUE: both let through exactly what *)
(* was decided on the last version, and so stay equal.                     *)
(***************************************************************************)
EXTENDS MemoryStore, ReplayTheorems

\* The streams are the rows of the table, each without a gap.
SameStreams ==
  /\ streams \in [AccountIds -> Seq(Event)] /\ DOMAIN table = AccountIds
  /\ \A a \in AccountIds : /\ table[a] = streams[a]
                           /\ Stream(a, streams[a], Len(streams[a]))
  /\ \A a \in Malformed : streams[a] = <<>>

\* An account's events come in order of their versions.
InOrder(s) ==
  \A i, j \in 1 .. Len(s) :
    i < j /\ s[i].aggregate_id = s[j].aggregate_id => s[i].version < s[j].version

\* The log holds the rows of the table.
SameLog == log \in Seq(Event) /\ Range(log) = AllRows(table) /\ InOrder(log)

\* The inductive invariant.
StoreInv == SameStreams /\ SameLog

-----------------------------------------------------------------------------
(***************************************************************************)
(* Batches                                                                 *)
(***************************************************************************)
\* A batch that Append takes at version v: it goes on from there, and opens the
\* account only as its first event.
Fits(a, v, evs) ==
  /\ evs \in Seq(Event) /\ evs # <<>>
  /\ WellFormed(a, v, evs)
  /\ \A i \in DOMAIN evs : evs[i].type = "account.opened" <=> v + i = 1

\* A decision on the account as it was at version v.
LEMMA OneDecided ==
  ASSUME NEW a \in AccountIds, NEW x \in AccountState, x.id = a, x.version \in Nat \ {0},
         NEW e, MayAppend(x, e)
  PROVE  Fits(a, x.version, <<e>>)
<1> DEFINE evs == <<e>>
<1>1. /\ e \in Event /\ e.aggregate_id = a /\ e.version = x.version + 1
      /\ e.type # "account.opened"
  BY DEF MayAppend
<1>2. evs \in Seq(Event) /\ evs # <<>> /\ DOMAIN evs = {1} /\ evs[1] = e
  BY <1>1
<1> HIDE DEF evs
<1>3. WellFormed(a, x.version, evs)
  BY <1>1, <1>2 DEF WellFormed
<1>4. \A i \in DOMAIN evs : evs[i].type = "account.opened" <=> x.version + i = 1
  BY <1>1, <1>2
<1>5. Fits(a, x.version, evs)
  BY <1>2, <1>3, <1>4 DEF Fits
<1> QED BY <1>5 DEF evs

\* The opening, alone or with the first deposit.
LEMMA OpeningFits ==
  ASSUME NEW a \in AccountIds
  PROVE  /\ Fits(a, 0, <<FirstEvent(a)>>)
         /\ \A d : MayAppend(Apply(EmptyAccount, FirstEvent(a)), d)
                     => Fits(a, 0, <<FirstEvent(a), d>>)
<1> DEFINE o == FirstEvent(a)
<1>1. /\ o \in Event /\ o.aggregate_id = a /\ o.version = 1
      /\ o.type = "account.opened"
      /\ Apply(EmptyAccount, o).id = a /\ Apply(EmptyAccount, o).version = 1
  BY OpenedEvent
<1> HIDE DEF o
<1>2. Fits(a, 0, <<o>>)
  <2> DEFINE evs == <<o>>
  <2>1. evs \in Seq(Event) /\ evs # <<>> /\ DOMAIN evs = {1} /\ evs[1] = o
    BY <1>1
  <2> HIDE DEF evs
  <2>2. WellFormed(a, 0, evs)
    BY <1>1, <2>1 DEF WellFormed
  <2>3. Fits(a, 0, evs)
    BY <1>1, <2>1, <2>2 DEF Fits
  <2> QED BY <2>3 DEF evs
<1>3. ASSUME NEW d, MayAppend(Apply(EmptyAccount, o), d) PROVE Fits(a, 0, <<o, d>>)
  <2> DEFINE evs == <<o, d>>
  <2>1. /\ d \in Event /\ d.aggregate_id = a /\ d.version = 2
        /\ d.type # "account.opened"
    BY <1>1, <1>3 DEF MayAppend
  <2>2. /\ evs \in Seq(Event) /\ evs # <<>> /\ DOMAIN evs = {1, 2}
        /\ evs[1] = o /\ evs[2] = d
    BY <1>1, <2>1
  <2> HIDE DEF evs
  <2>3. WellFormed(a, 0, evs)
    BY <1>1, <2>1, <2>2 DEF WellFormed
  <2>4. Fits(a, 0, evs)
    BY <1>1, <2>1, <2>2, <2>3 DEF Fits
  <2> QED BY <2>4 DEF evs
<1> QED BY <1>2, <1>3 DEF o

\* The first v rows of a stream are a stream.
LEMMA FirstRows ==
  ASSUME NEW a \in AccountIds, NEW r, NEW n, Stream(a, r, n), NEW v \in 0 .. n,
         NEW x, x = Replay(EmptyAccount, [w \in 1 .. v |-> r[w]])
  PROVE  x \in AccountState /\ x.version = v /\ (v > 0 => x.id = a)
<1> DEFINE s == [w \in 1 .. v |-> r[w]]
<1>1. v \in Nat /\ \A w \in 1 .. v : w \in 1 .. n
  BY DEF Stream
<1>2. Stream(a, s, v)
  BY <1>1 DEF Stream
<1> HIDE DEF s
<1>3. LastVersion(s) = v /\ v \in 0 .. v
  BY <1>1, <1>2, StreamRows
<1>4. x = States(s)[v]
  BY <1>3 DEF Replay, States, s
<1> QED BY <1>2, <1>3, <1>4, StatesOfStream

\* Whatever the command side decides on some version of a stream fits there.
LEMMA BatchesFit ==
  ASSUME NEW a \in AccountIds, NEW n, Stream(a, table[a], n), NEW v \in 0 .. n,
         NEW evs \in Batches(a, v)
  PROVE  Fits(a, v, evs)
<1> DEFINE x == Replay(EmptyAccount, [w \in 1 .. v |-> table[a][w]])
           opened == OpenAccount(a, TRUE).event
           decisions == (UNION {{Deposit(x, m), Withdraw(x, m)} : m \in Amounts})
             \cup {DebitTransfer(x, t, b, m) :
                     t \in TransferIds, b \in AccountIds \ {a}, m \in Amounts}
             \cup (UNION {{CreditTransfer(x, t, b, m), ReverseTransfer(x, t, m)} :
                     t \in TransferIds, b \in AccountIds \ ({a} \cup Malformed),
                     m \in Amounts})
<1>1. x \in AccountState /\ x.version = v /\ (v > 0 => x.id = a)
  BY FirstRows
<1>2. Amounts \subseteq Int /\ \A m \in Amounts : m \in 1 .. MaxOperationAmount
  BY MemoryStoreAssumption, AccountAssumption
<1>3. Batches(a, v) = IF v = 0
        THEN {<<opened>>} \cup {<<opened, Deposit(Apply(EmptyAccount, opened), m).event>> :
                                  m \in Amounts}
        ELSE {<<d.event>> : d \in {y \in decisions : y.err = "nil"}}
  BY DEF Batches
<1>4. CASE v = 0
  <2>1. opened = FirstEvent(a)
    BY DEF OpenAccount, Accept, FirstEvent
  <2> DEFINE y == Apply(EmptyAccount, FirstEvent(a))
  <2>2. y \in AccountState /\ y.id = a /\ y.version = 1 /\ y.open
    BY OpenedEvent DEF Apply, FirstEvent, NewEvent, EmptyAccount
  <2> HIDE DEF y
  <2>3. ASSUME NEW m \in Amounts PROVE MayAppend(y, Deposit(y, m).event)
    <3>1. guard(y, m) = "nil"
      BY <1>2, <2>2, AccountAssumption DEF guard
    <3>2. Deposit(y, m).err = "nil"
      BY <3>1 DEF Deposit, Accept
    <3> QED BY <1>2, <2>2, <3>2, DecisionsContinue
  <2>4. \A m \in Amounts : Fits(a, 0, <<FirstEvent(a), Deposit(y, m).event>>)
    BY <2>3, OpeningFits DEF y
  <2>5. \/ evs = <<FirstEvent(a)>>
        \/ \E m \in Amounts : evs = <<FirstEvent(a), Deposit(y, m).event>>
    <3>1. y = Apply(EmptyAccount, opened)
      BY <2>1 DEF y
    <3> HIDE DEF opened, decisions, x
    <3>2. evs \in {<<opened>>} \cup
                  {<<opened, Deposit(Apply(EmptyAccount, opened), m).event>> : m \in Amounts}
      BY <1>3, <1>4
    <3> QED BY <2>1, <3>1, <3>2
  <2> QED BY <1>4, <2>4, <2>5, OpeningFits
<1>5. CASE v # 0
  <2> HIDE DEF x
  <2>1. x.id = a /\ x.version \in Nat \ {0}
    BY <1>1, <1>5 DEF Stream
  <2>2. PICK d \in decisions : d.err = "nil" /\ evs = <<d.event>>
    BY <1>3, <1>5
  <2>3. MayAppend(x, d.event)
    <3>1. CASE \E m \in Amounts : d \in {Deposit(x, m), Withdraw(x, m)}
      <4>1. PICK m \in Amounts : d \in {Deposit(x, m), Withdraw(x, m)}
        BY <3>1
      <4>2. m \in Int /\ NoId \in TransferIds \cup {NoId} /\ NoId \in AccountIds \cup {NoId}
        BY <1>2
      <4> QED BY <1>1, <2>1, <2>2, <4>1, <4>2, DecisionsContinue
    <3>2. CASE \E t \in TransferIds, b \in AccountIds \ {a}, m \in Amounts :
                 d \in {DebitTransfer(x, t, b, m), CreditTransfer(x, t, b, m),
                        ReverseTransfer(x, t, m)}
      BY <1>1, <1>2, <2>1, <2>2, <3>2, DecisionsContinue
    <3> QED BY <2>2, <3>1, <3>2
  <2> QED BY <1>1, <2>1, <2>2, <2>3, OneDecided
<1> QED BY <1>4, <1>5

-----------------------------------------------------------------------------
(***************************************************************************)
(* Both answers to a call                                                  *)
(***************************************************************************)
\* Memory and Postgres refuse a batch alike: when it was decided on an old version.
LEMMA SameAnswers ==
  ASSUME NEW a \in AccountIds, Stream(a, table[a], Len(streams[a])),
         NEW v \in 0 .. Len(streams[a]), NEW evs, Fits(a, v, evs)
  PROVE  /\ MemoryAppend(a, v, evs) = IF v = Len(streams[a]) THEN "nil"
                                      ELSE "ErrConcurrency"
         /\ PostgresAppend(a, v, evs) = MemoryAppend(a, v, evs)
         /\ LoggedPart(a, v, evs) = IF v = Len(streams[a]) THEN evs ELSE <<>>
<1> DEFINE n == Len(streams[a])
           U == Unfit(a, v, evs, DOMAIN table[a])
<1>1. n \in Nat /\ DOMAIN table[a] = 1 .. n
  BY DEF Stream
<1>2. /\ DOMAIN evs \subseteq Nat \ {0} /\ 1 \in DOMAIN evs
      /\ \A i \in DOMAIN evs : evs[i].aggregate_id = a /\ evs[i].version = v + i
  BY DEF Fits, WellFormed
<1>3. Unfit(a, v, evs, {}) = {}
  BY <1>2 DEF Unfit
<1>4. U = {i \in DOMAIN evs : v + i \in 1 .. n}
  BY <1>1, <1>2 DEF Unfit
<1> HIDE DEF U
<1>5. MemoryAppend(a, v, evs) = IF v = n THEN "nil" ELSE "ErrConcurrency"
  BY <1>3 DEF MemoryAppend
<1>6. LoggedPart(a, v, evs) = IF v = n THEN evs ELSE <<>>
  BY <1>3 DEF LoggedPart
<1>7. CASE v = n
  <2>1. U = {}
    BY <1>1, <1>2, <1>4, <1>7
  <2>2. PostgresAppend(a, v, evs) = "nil"
    BY <2>1 DEF PostgresAppend, U
  <2> QED BY <1>5, <1>6, <1>7, <2>2
<1>8. CASE v # n
  <2>1. 1 \in U /\ U \subseteq Nat /\ U \subseteq DOMAIN evs
    BY <1>1, <1>2, <1>4, <1>8
  <2>2. \E i \in U : \A j \in U : i <= j
    BY <2>1, LeastNat
  <2>3. Min(U) \in U
    BY <2>2 DEF Min
  <2>4. evs[Min(U)].aggregate_id = a /\ evs[Min(U)].version = v + Min(U)
    BY <1>2, <2>1, <2>3
  <2>5. PostgresAppend(a, v, evs) = "ErrConcurrency"
    BY <2>1, <2>4 DEF PostgresAppend, U
  <2> QED BY <1>5, <1>6, <1>8, <2>5
<1> QED BY <1>7, <1>8

-----------------------------------------------------------------------------
(***************************************************************************)
(* What an accepted batch does to a stream, the table and the log          *)
(***************************************************************************)
\* Inserting a batch that fits appends it.
LEMMA StreamExtends ==
  ASSUME NEW a \in AccountIds, NEW r \in Seq(Event), Stream(a, r, Len(r)),
         NEW evs, Fits(a, Len(r), evs)
  PROVE  /\ Insert(r, evs) = r \o evs /\ r \o evs \in Seq(Event)
         /\ Stream(a, r \o evs, Len(r \o evs))
<1> DEFINE n == Len(r)
           s == r \o evs
<1>1. /\ evs \in Seq(Event) /\ WellFormed(a, n, evs)
      /\ \A i \in DOMAIN evs : evs[i].type = "account.opened" <=> n + i = 1
  BY DEF Fits
<1>2. /\ n \in Nat /\ Len(evs) \in Nat /\ s \in Seq(Event) /\ Len(s) = n + Len(evs)
      /\ s = [v \in 1 .. n + Len(evs) |-> IF v <= n THEN r[v] ELSE evs[v - n]]
      /\ DOMAIN evs = 1 .. Len(evs)
  <2>1. /\ n \in Nat /\ Len(evs) \in Nat /\ s \in Seq(Event) /\ Len(s) = n + Len(evs)
        /\ DOMAIN evs = 1 .. Len(evs)
        /\ \A v \in 1 .. n + Len(evs) : s[v] = IF v <= n THEN r[v] ELSE evs[v - n]
    BY <1>1
  <2> HIDE DEF s
  <2>2. s = [v \in 1 .. Len(s) |-> s[v]]
    BY <2>1
  <2>3. s = [v \in 1 .. n + Len(evs) |-> IF v <= n THEN r[v] ELSE evs[v - n]]
    BY <2>1, <2>2
  <2> QED BY <2>1, <2>3
<1>3. Insert(r, evs) = [v \in 1 .. n + Len(evs) |-> IF v <= n THEN r[v] ELSE evs[v - n]]
  BY <1>1, InsertExtends
<1>4. Insert(r, evs) = s
  BY <1>2, <1>3
<1> HIDE DEF s
<1>5. ASSUME NEW v \in 1 .. n + Len(evs)
      PROVE  /\ s[v] \in Event /\ s[v].aggregate_id = a /\ s[v].version = v
             /\ s[v].type = "account.opened" <=> v = 1
  <2>1. CASE v <= n
    <3>1. v \in 1 .. n /\ s[v] = r[v]
      BY <1>2, <2>1
    <3> QED BY <3>1 DEF Stream
  <2>2. CASE ~(v <= n)
    <3>1. v - n \in DOMAIN evs /\ s[v] = evs[v - n] /\ n + (v - n) = v
      BY <1>2, <2>2
    <3>2. s[v] \in Event
      BY <1>1, <3>1
    <3> QED BY <1>1, <3>1, <3>2 DEF WellFormed
  <2> QED BY <2>1, <2>2
<1>6. DOMAIN s = 1 .. n + Len(evs)
  BY <1>2
<1>7. Stream(a, s, n + Len(evs))
  BY <1>2, <1>5, <1>6 DEF Stream
<1> QED BY <1>2, <1>4, <1>7 DEF s

\* The rows of a table, stream by stream.
LEMMA RowsOf ==
  ASSUME NEW T
  PROVE  \A e : e \in AllRows(T) <=> \E b \in AccountIds : e \in Range(T[b])
BY DEF AllRows, Range

\* Q is the table T with a batch at the end of the stream of a.
Gains(T, Q, a, evs) ==
  /\ T[a] \in Seq(Event) /\ evs \in Seq(Event)
  /\ Q[a] = T[a] \o evs
  /\ \A b \in AccountIds : b # a => Q[b] = T[b]

\* The table gains the rows of the batch.
LEMMA TableExtends ==
  ASSUME NEW T, NEW Q, NEW a \in AccountIds, NEW evs, Gains(T, Q, a, evs)
  PROVE  AllRows(Q) = AllRows(T) \cup Range(evs)
<1>0. /\ T[a] \in Seq(Event) /\ evs \in Seq(Event) /\ Q[a] = T[a] \o evs
      /\ \A b \in AccountIds : b # a => Q[b] = T[b]
  BY DEF Gains
<1>1. Range(Q[a]) = Range(T[a]) \cup Range(evs)
  BY <1>0, Concatenated
<1>2. \A e : e \in AllRows(Q) <=> \E b \in AccountIds : e \in Range(Q[b])
  BY RowsOf
<1>3. \A e : e \in AllRows(T) <=> \E b \in AccountIds : e \in Range(T[b])
  BY RowsOf
<1>4. ASSUME NEW e \in AllRows(Q) PROVE e \in AllRows(T) \cup Range(evs)
  <2>1. PICK b \in AccountIds : e \in Range(Q[b])
    BY <1>2
  <2>2. CASE b = a
    BY <1>1, <1>3, <2>1, <2>2
  <2>3. CASE b # a
    BY <1>0, <1>3, <2>1, <2>3
  <2> QED BY <2>2, <2>3
<1>5. ASSUME NEW e \in AllRows(T) PROVE e \in AllRows(Q)
  <2>1. PICK b \in AccountIds : e \in Range(T[b])
    BY <1>3
  <2>2. CASE b = a
    BY <1>1, <1>2, <2>1, <2>2
  <2>3. CASE b # a
    BY <1>0, <1>2, <2>1, <2>3
  <2> QED BY <2>2, <2>3
<1>6. ASSUME NEW e \in Range(evs) PROVE e \in AllRows(Q)
  BY <1>1, <1>2, <1>6
<1> QED BY <1>4, <1>5, <1>6

\* The batch comes after all that is logged of its account.
LEMMA LogExtends ==
  ASSUME NEW a \in AccountIds, NEW l \in Seq(Event), InOrder(l), NEW n \in Nat,
         \A i \in 1 .. Len(l) : l[i].aggregate_id = a => l[i].version <= n,
         NEW evs, Fits(a, n, evs)
  PROVE  InOrder(l \o evs)
<1> DEFINE k == Len(l)
           s == l \o evs
<1>1. /\ evs \in Seq(Event)
      /\ \A i \in DOMAIN evs : evs[i].aggregate_id = a /\ evs[i].version = n + i
  BY DEF Fits, WellFormed
<1>2. /\ k \in Nat /\ Len(evs) \in Nat /\ Len(s) = k + Len(evs)
      /\ DOMAIN evs = 1 .. Len(evs)
      /\ \A v \in 1 .. k + Len(evs) : s[v] = IF v <= k THEN l[v] ELSE evs[v - k]
  BY <1>1
<1> HIDE DEF s
<1> SUFFICES ASSUME NEW i \in 1 .. Len(s), NEW j \in 1 .. Len(s), i < j,
                    s[i].aggregate_id = s[j].aggregate_id
             PROVE  s[i].version < s[j].version
  BY DEF InOrder, s
<1>3. CASE j <= k
  <2>1. i \in 1 .. k /\ j \in 1 .. k /\ s[i] = l[i] /\ s[j] = l[j]
    BY <1>2, <1>3
  <2> QED BY <2>1 DEF InOrder
<1>4. CASE ~(j <= k)
  <2>1. j - k \in DOMAIN evs /\ s[j] = evs[j - k]
    BY <1>2, <1>4
  <2>2. s[j].aggregate_id = a /\ s[j].version = n + (j - k) /\ j - k > 0
    BY <1>1, <1>2, <2>1
  <2>3. CASE i <= k
    <3>1. i \in 1 .. k /\ s[i] = l[i]
      BY <1>2, <2>3
    <3>2. l[i] \in Event /\ l[i].version <= n
      BY <2>2, <3>1
    <3>3. l[i].version \in Nat
      BY <3>2 DEF Event
    <3> QED BY <1>2, <2>2, <3>1, <3>2, <3>3
  <2>4. CASE ~(i <= k)
    <3>1. i - k \in DOMAIN evs /\ s[i] = evs[i - k]
      BY <1>2, <2>4
    <3>2. s[i].version = n + (i - k)
      BY <1>1, <3>1
    <3> QED BY <1>2, <2>2, <3>2
  <2> QED BY <2>3, <2>4
<1> QED BY <1>3, <1>4

\* What is logged of an account is a version of its stream.
LEMMA LoggedVersions ==
  ASSUME StoreInv, NEW a \in AccountIds, NEW i \in 1 .. Len(log), log[i].aggregate_id = a
  PROVE  log[i].version <= Len(streams[a])
<1>1. log[i] \in AllRows(table)
  BY DEF StoreInv, SameLog, Range
<1>2. PICK b \in AccountIds : log[i] \in Range(table[b])
  BY <1>1, RowsOf
<1>3. Stream(b, table[b], Len(streams[b]))
  BY DEF StoreInv, SameStreams
<1>4. PICK w \in 1 .. Len(streams[b]) : log[i] = table[b][w]
  BY <1>2, <1>3 DEF Stream, Range
<1>5. b = a /\ log[i].version = w /\ Len(streams[b]) \in Nat
  BY <1>3, <1>4 DEF Stream
<1> QED BY <1>4, <1>5

-----------------------------------------------------------------------------
(***************************************************************************)
(* The invariant                                                           *)
(***************************************************************************)
\* A call of Append keeps the stores equal, accepted or not.
LEMMA CallInv ==
  ASSUME StoreInv, NEW a \in AccountIds \ Malformed, NEW v \in 0 .. Len(streams[a]),
         NEW evs \in Batches(a, v), CallAppend(a, v, evs)
  PROVE  StoreInv'
<1> DEFINE n == Len(streams[a])
<1>1. /\ streams \in [AccountIds -> Seq(Event)] /\ DOMAIN table = AccountIds
      /\ \A b \in AccountIds : table[b] = streams[b] /\ Stream(b, streams[b], Len(streams[b]))
      /\ log \in Seq(Event) /\ Range(log) = AllRows(table) /\ InOrder(log)
      /\ Malformed \subseteq AccountIds /\ \A b \in Malformed : streams[b] = <<>>
  BY MemoryStoreAssumption DEF StoreInv, SameStreams, SameLog
<1>2. Stream(a, table[a], n) /\ streams[a] \in Seq(Event) /\ n \in Nat
  BY <1>1 DEF Stream
<1>3. Fits(a, v, evs)
  BY <1>2, BatchesFit
<1>4. /\ MemoryAppend(a, v, evs) = IF v = n THEN "nil" ELSE "ErrConcurrency"
      /\ PostgresAppend(a, v, evs) = MemoryAppend(a, v, evs)
      /\ LoggedPart(a, v, evs) = IF v = n THEN evs ELSE <<>>
  BY <1>2, <1>3, SameAnswers
<1>5. CASE v # n
  <2>1. streams' = streams /\ table' = table /\ log' = log
    BY <1>1, <1>4, <1>5 DEF CallAppend
  <2> QED BY <2>1 DEF StoreInv, SameStreams, SameLog, AllRows, InOrder
<1>6. CASE v = n
  <2>1. /\ streams' = [streams EXCEPT ![a] = streams[a] \o evs]
        /\ table' = [table EXCEPT ![a] = Insert(table[a], evs)]
        /\ log' = log \o evs
    BY <1>4, <1>6 DEF CallAppend
  <2>2. /\ Insert(streams[a], evs) = streams[a] \o evs /\ streams[a] \o evs \in Seq(Event)
        /\ Stream(a, streams[a] \o evs, Len(streams[a] \o evs))
    BY <1>1, <1>2, <1>3, <1>6, StreamExtends
  <2>3. /\ streams' \in [AccountIds -> Seq(Event)] /\ DOMAIN table' = AccountIds
        /\ streams'[a] = streams[a] \o evs /\ table'[a] = streams[a] \o evs
        /\ \A b \in AccountIds : b # a => streams'[b] = streams[b] /\ table'[b] = table[b]
    BY <1>1, <2>1, <2>2
  <2>4. SameStreams'
    <3>1. ASSUME NEW b \in AccountIds
          PROVE  table'[b] = streams'[b] /\ Stream(b, streams'[b], Len(streams'[b]))
      <4>1. CASE b = a
        BY <2>2, <2>3, <4>1
      <4>2. CASE b # a
        BY <1>1, <2>3, <4>2
      <4> QED BY <4>1, <4>2
    <3>2. \A b \in Malformed : streams'[b] = <<>>
      BY <1>1, <2>3
    <3> QED BY <2>3, <3>1, <3>2 DEF SameStreams, Stream
  <2>5. evs \in Seq(Event)
    BY <1>3 DEF Fits
  <2>6. AllRows(table') = AllRows(table) \cup Range(evs)
    <3>1. table[a] \in Seq(Event) /\ table'[a] = table[a] \o evs
      BY <1>1, <1>2, <2>3
    <3>2. \A b \in AccountIds : b # a => table'[b] = table[b]
      BY <2>3
    <3>3. Gains(table, table', a, evs)
      BY <2>5, <3>1, <3>2 DEF Gains
    <3>4. PICK T, Q : T = table /\ Q = table'
      OBVIOUS
    <3>5. AllRows(Q) = AllRows(T) \cup Range(evs)
      BY <3>3, <3>4, TableExtends
    <3> QED BY <3>4, <3>5
  <2>7. log' \in Seq(Event) /\ Range(log') = Range(log) \cup Range(evs)
    BY <1>1, <2>1, <2>5, Concatenated
  <2>8. InOrder(log')
    <3>1. \A i \in 1 .. Len(log) : log[i].aggregate_id = a => log[i].version <= n
      BY LoggedVersions
    <3>2. InOrder(log \o evs)
      BY <1>1, <1>2, <1>3, <1>6, <3>1, LogExtends
    <3> QED BY <2>1, <3>2
  <2>9. AllRows(table)' = AllRows(table')
    BY DEF AllRows
  <2>10. InOrder(log)' <=> InOrder(log')
    BY DEF InOrder
  <2> QED BY <1>1, <2>4, <2>6, <2>7, <2>8, <2>9, <2>10 DEF StoreInv, SameLog, Range
<1> QED BY <1>5, <1>6

\* Both stores hold the same streams, and the log their rows in order.
THEOREM StoreInvariant == Spec => []StoreInv
<1>1. Init => StoreInv
  <2> SUFFICES ASSUME Init PROVE StoreInv
    OBVIOUS
  <2>1. NoRows = <<>>
    BY DEF NoRows
  <2>2. <<>> \in Seq(Event) /\ Len(<<>>) = 0 /\ Range(<<>>) = {} /\ DOMAIN <<>> = 1 .. 0
    BY NothingQueued
  <2>3. \A a \in AccountIds : streams[a] = <<>> /\ table[a] = <<>>
    BY <2>1 DEF Init
  <2>4. \A a \in AccountIds : Stream(a, <<>>, 0)
    BY <2>2 DEF Stream
  <2>5. SameStreams
    BY <2>2, <2>3, <2>4, MemoryStoreAssumption DEF SameStreams, Init
  <2>6. AllRows(table) = {}
    BY <2>2, <2>3, RowsOf
  <2>7. log = <<>> /\ InOrder(<<>>)
    BY <2>2 DEF Init, InOrder
  <2> QED BY <2>2, <2>5, <2>6, <2>7 DEF StoreInv, SameLog
<1>2. StoreInv /\ [Next]_vars => StoreInv'
  <2> SUFFICES ASSUME StoreInv, [Next]_vars PROVE StoreInv'
    OBVIOUS
  <2>1. ASSUME NEW a \in AccountIds \ Malformed, NEW v \in 0 .. Len(streams[a]),
               NEW evs \in Batches(a, v), CallAppend(a, v, evs)
        PROVE  StoreInv'
    BY <2>1, CallInv
  <2>2. ASSUME UNCHANGED <<streams, log, table>> PROVE StoreInv'
    BY <2>2 DEF StoreInv, SameStreams, SameLog, AllRows, InOrder
  <2> QED BY <2>1, <2>2 DEF Next, vars, MarkProcessed
<1> QED BY <1>1, <1>2, PTL DEF Spec

\* On an account's UUID every call the command side can make, on the last version or
\* an old one, gets the same answer from Memory and from Postgres, and so does every
\* query; on any other id neither lets a command through.
THEOREM MemoryIsPostgres == Spec => []MemoryMatchesPostgres
<1>1. StoreInv => MemoryMatchesPostgres
  <2> SUFFICES ASSUME StoreInv PROVE MemoryMatchesPostgres
    OBVIOUS
  <2>1. /\ streams \in [AccountIds -> Seq(Event)]
        /\ \A a \in AccountIds : table[a] = streams[a]
                                 /\ Stream(a, table[a], Len(streams[a]))
    BY DEF StoreInv, SameStreams
  <2>2. ASSUME NEW a \in AccountIds, NEW v \in 0 .. Len(streams[a]),
               NEW evs \in Batches(a, v)
        PROVE  MemoryAppend(a, v, evs) = PostgresAppend(a, v, evs)
    <3>1. Stream(a, table[a], Len(streams[a]))
      BY <2>1
    <3>2. Fits(a, v, evs)
      BY <3>1, BatchesFit
    <3> QED BY <3>1, <3>2, SameAnswers
  <2>3. ASSUME NEW a \in AccountIds \ Malformed
        PROVE  /\ MemoryEventsByAggregate(a) = PostgresEventsByAggregate(a)
               /\ MemoryLoad(a) = PostgresLoad(a)
    <3>1. /\ streams[a] \in Seq(Event) /\ table[a] = streams[a]
          /\ DOMAIN streams[a] = 1 .. Len(streams[a])
      BY <2>1 DEF Stream
    <3>2. streams[a] = <<>> <=> DOMAIN table[a] = {}
      <4>1. Len(streams[a]) \in Nat /\ (streams[a] = <<>> <=> Len(streams[a]) = 0)
        BY <3>1, EmptySeq, LenProperties
      <4>2. \A n \in Nat : 1 .. n = {} <=> n = 0
        OBVIOUS
      <4> QED BY <3>1, <4>1, <4>2
    <3> QED BY <3>1, <3>2 DEF MemoryEventsByAggregate, PostgresEventsByAggregate,
                              MemoryLoad, PostgresLoad
  <2>4. ASSUME NEW a \in Malformed PROVE "nil" \notin {MemoryLoad(a).err, PostgresLoad(a).err}
    BY DEF StoreInv, SameStreams, MemoryLoad, PostgresLoad, NotFound
  <2>5. Logged = AllRows(table)
    BY DEF StoreInv, SameLog, Logged, Range
  <2>6. MemoryPendingDebits = PendingTransferDebits(table)
    BY <2>5 DEF MemoryPendingDebits, PendingTransferDebits, HasTransferEvent
  <2>7. \A type \in EventTypes, t \in TransferIds :
          MemoryHasTransferEvent(type, t) <=> HasTransferEvent(table, type, t)
    BY <2>5 DEF MemoryHasTransferEvent, HasTransferEvent
  <2> QED BY <2>2, <2>3, <2>4, <2>6, <2>7 DEF MemoryMatchesPostgres
<1> QED BY <1>1, StoreInvariant, PTL

\* The catch-up of a test meets an account's events in the order of their versions
\* and misses none that is not marked.
THEOREM CatchUpInOrder == Spec => []UnprocessedInOrder
<1>1. StoreInv => UnprocessedInOrder
  <2> SUFFICES ASSUME StoreInv PROVE UnprocessedInOrder
    OBVIOUS
  <2> DEFINE todo == MemoryUnprocessed
  <2>1. log \in Seq(Event) /\ Range(log) = AllRows(table) /\ InOrder(log)
    BY DEF StoreInv, SameLog
  <2>2. todo = Without(log, marks)
    BY Zenon DEF MemoryUnprocessed, Without
  <2> HIDE DEF todo
  <2>3. todo \in Seq(Event) /\ Range(todo) = Range(log) \ marks /\ SameOrder(todo, log, Len(log))
    BY <2>1, <2>2, WhatIsLeft
  <2>4. ASSUME NEW i \in DOMAIN todo, NEW j \in DOMAIN todo,
               i < j, todo[i].aggregate_id = todo[j].aggregate_id
        PROVE  todo[i].version < todo[j].version
    <3>1. i \in 1 .. Len(todo) /\ j \in 1 .. Len(todo)
      BY <2>3
    <3>2. PICK g \in 1 .. Len(log), h \in 1 .. Len(log) :
            g < h /\ todo[i] = log[g] /\ todo[j] = log[h]
      BY <2>3, <2>4, <3>1 DEF SameOrder
    <3> QED BY <2>1, <2>4, <3>2 DEF InOrder
  <2>5. {todo[i] : i \in DOMAIN todo} = AllRows(table) \ marks
    BY <2>1, <2>3 DEF Range
  <2> QED BY <2>4, <2>5 DEF UnprocessedInOrder, todo
<1> QED BY <1>1, StoreInvariant, PTL
=============================================================================

-------------------------- MODULE CommandSideProofs --------------------------
(***************************************************************************)
(* Proofs about the command side for any number of processes, accounts,    *)
(* commands and retries, any snapshot interval and streams of any length.  *)
(*                                                                         *)
(* The second half shows that it implements AtomicLedger.  The effect of a *)
(* command is its INSERT: UNIQUE lets through only decisions on the last   *)
(* state of the stream, whose balance is what its rows add up to, so the   *)
(* decision is the verdict of the ledger.  That a transfer is not settled  *)
(* twice needs an invariant of its own, Claims: who works on a transfer    *)
(* has it to itself.                                                       *)
(***************************************************************************)
EXTENDS CommandSideRefinement, ReplayTheorems

-----------------------------------------------------------------------------
(***************************************************************************)
(* What a decision yields                                                  *)
(***************************************************************************)
\* Every closure mutate is given either refuses or continues the stream of the
\* aggregate it was shown.
LEMMA DecisionContinues ==
  ASSUME NEW x \in AccountState, x.id \in AccountIds, NEW c \in Command,
         c.op # "open", DecideOn(x, c).err = "nil"
  PROVE  MayAppend(x, DecideOn(x, c).event)
<1> DEFINE d == DecideOn(x, c)
           n == c.amount
           t == c.transfer_id
           b == c.peer
<1>1. /\ n \in Int /\ t \in TransferIds \cup {NoId} /\ b \in AccountIds \cup {NoId}
      /\ c.op \in {"open", "deposit", "withdraw", "debit", "credit", "reverse"}
  BY DEF Command
<1>2. d \in {Deposit(x, n), Withdraw(x, n), DebitTransfer(x, t, b, n),
             CreditTransfer(x, t, b, n), ReverseTransfer(x, t, n)}
  BY <1>1 DEF DecideOn
<1>3. d.err = "nil"
  OBVIOUS
<1> HIDE DEF d, n, t, b
<1>4. MayAppend(x, d.event)
  BY <1>1, <1>2, <1>3, DecisionsContinue
<1> QED
  BY <1>4 DEF d

\* OpenAccount appends the opening alone or with the initial deposit.
LEMMA OpenDecision ==
  ASSUME NEW c \in Command, DecideOpen(c).err = "nil"
  PROVE  \/ DecideOpen(c).events = <<FirstEvent(c.account)>>
         \/ \E d : /\ DecideOpen(c).events = <<FirstEvent(c.account), d>>
                  /\ MayAppend(Apply(EmptyAccount, FirstEvent(c.account)), d)
<1> DEFINE o == OpenAccount(c.account, c.owner)
           x == Apply(EmptyAccount, FirstEvent(c.account))
           dep == Deposit(x, c.amount)
<1>1. c.amount \in Int /\ c.account \in AccountIds
  BY DEF Command
<1>2. ~(c.amount < 0)
  BY DEF DecideOpen, Declined
<1>3. o.err = "nil"
  <2>1. o.err # "nil" => DecideOpen(c).err = o.err
    BY <1>2 DEF DecideOpen, Declined
  <2> QED BY <2>1
<1>4. o.event = FirstEvent(c.account)
  <2>1. c.owner
    BY <1>3 DEF OpenAccount, Refuse
  <2> QED BY <2>1 DEF OpenAccount, Accept, FirstEvent
<1>5. CASE c.amount = 0
  BY <1>2, <1>3, <1>4, <1>5 DEF DecideOpen, Decided
<1>6. CASE c.amount # 0
  <2>0. DecideOpen(c) = IF dep.err # "nil" THEN Declined(dep.err)
                        ELSE Decided(<<FirstEvent(c.account), dep.event>>)
    BY <1>2, <1>3, <1>4, <1>6 DEF DecideOpen
  <2>1. dep.err = "nil"
    <3> HIDE DEF dep
    <3> QED BY <2>0 DEF Declined
  <2>2. DecideOpen(c).events = <<FirstEvent(c.account), dep.event>>
    <3> HIDE DEF dep
    <3> QED BY <2>0, <2>1 DEF Decided
  <2>3. guard(x, c.amount) = "nil"
    BY <2>1 DEF Deposit, Refuse
  <2>4. dep.event = NewEvent(x.id, x.version + 1, "money.deposited",
                             c.amount, NoId, NoId)
    BY <2>3 DEF Deposit, Accept
  <2>5. x \in AccountState /\ x.id \in AccountIds
    BY <1>1, OpenedEvent
  <2> HIDE DEF x
  <2>6. MayAppend(x, dep.event)
    BY <1>1, <1>2, <1>6, <2>4, <2>5, MoneyIn
  <2> QED BY <2>2, <2>6 DEF x
<1> QED
  BY <1>5, <1>6

-----------------------------------------------------------------------------
(***************************************************************************)
(* What an append does to a stream                                         *)
(***************************************************************************)
\* Only a writer that saw the whole stream passes the UNIQUE constraint.
LEMMA NoConflictMeansCurrent ==
  ASSUME NEW a \in AccountIds, NEW r, NEW n, Stream(a, r, n), NEW m \in 0 .. n,
         NEW evs \in Seq(Event), evs # <<>>, WellFormed(a, m, evs),
         ~UniqueViolation(r, evs)
  PROVE  m = n
<1>1. n \in Nat /\ DOMAIN r = 1 .. n
  BY DEF Stream
<1>2. 1 \in DOMAIN evs
  OBVIOUS
<1>3. evs[1].version = m + 1
  BY <1>2 DEF WellFormed
<1>4. m + 1 \notin 1 .. n
  BY <1>1, <1>2, <1>3 DEF UniqueViolation
<1> QED
  BY <1>1, <1>4

NonNegative(r, n) == \A v \in 0 .. n : States(r)[v].balance >= 0

\* s extends the stream r of length n to length k.
Extends(a, r, n, s, k) ==
  /\ Stream(a, s, k)
  /\ n < k
  /\ \A v \in 0 .. n : States(s)[v] = States(r)[v]
  /\ NonNegative(r, n) => NonNegative(s, k)

\* One event that continues the last state of a stream.
LEMMA ExtendByOne ==
  ASSUME NEW a \in AccountIds, NEW r, NEW n, Stream(a, r, n), NEW e,
         e \in Event, e.aggregate_id = a, e.version = n + 1,
         e.type = "account.opened" <=> n = 0,
         States(r)[n].balance >= 0 => States(r)[n].balance + Delta(e) >= 0,
         NEW s, s = [v \in 1 .. n + 1 |-> IF v <= n THEN r[v] ELSE e]
  PROVE  /\ Extends(a, r, n, s, n + 1)
         /\ States(s)[n + 1] = Apply(States(r)[n], e)
<1>1. n \in Nat
  BY DEF Stream
<1>2. /\ Stream(a, s, n + 1)
      /\ \A v \in 0 .. n : States(s)[v] = States(r)[v]
      /\ States(s)[n + 1] = Apply(States(r)[n], e)
  BY OneMoreEvent
<1>3. ASSUME NonNegative(r, n) PROVE NonNegative(s, n + 1)
  <2>1. States(r)[n] \in AccountState
    BY <1>1, StatesOfStream
  <2>2. States(s)[n + 1].balance = States(r)[n].balance + Delta(e)
    BY <1>2, <2>1, ApplyType
  <2>3. States(s)[n + 1].balance >= 0
    BY <1>1, <1>3, <2>2 DEF NonNegative
  <2>4. ASSUME NEW v \in 0 .. n + 1 PROVE States(s)[v].balance >= 0
    <3>1. CASE v \in 0 .. n
      BY <1>2, <1>3, <3>1 DEF NonNegative
    <3>2. CASE v = n + 1
      BY <2>3, <3>2
    <3> QED BY <1>1, <3>1, <3>2
  <2> QED BY <2>4 DEF NonNegative
<1> QED
  BY <1>1, <1>2, <1>3 DEF Extends

\* The aggregate a command decides on, x, is a state of the account's stream: the
\* empty one for an opening, a later one for any other command.
Shown(x, c, r, n) ==
  \E m \in 0 .. n : /\ x = States(r)[m]
                    /\ c.op = "open" => x = EmptyAccount
                    /\ c.op # "open" => m >= 1

\* Every stream starts from domain.Account{}.
LEMMA FirstState ==
  ASSUME NEW a, NEW r, NEW n, Stream(a, r, n)
  PROVE  States(r)[0] = EmptyAccount
BY StreamRows, AccumulatedIsTheLoop, EmptyAccountType DEF States

\* Append's own checks never refuse a decision: it is a batch of one or two
\* events that continues the stream from the version it was decided on.
LEMMA DecisionWellFormed ==
  ASSUME NEW a \in AccountIds, NEW r, NEW n, Stream(a, r, n),
         NEW c \in Command, c.account = a, NEW x, Shown(x, c, r, n),
         Decide(x, c).err = "nil"
  PROVE  /\ Decide(x, c).events \in Seq(Event)
         /\ Decide(x, c).events # <<>>
         /\ WellFormed(a, x.version, Decide(x, c).events)
<1> DEFINE evs == Decide(x, c).events
<1>1. CASE c.op = "open"
  <2>1. x = EmptyAccount /\ x.version = 0
    BY <1>1 DEF Shown, EmptyAccount
  <2>2. Decide(x, c) = DecideOpen(c)
    BY <1>1 DEF Decide
  <2>3. CASE evs = <<FirstEvent(a)>>
    <3>1. evs \in Seq(Event) /\ evs # <<>> /\ DOMAIN evs = {1} /\ evs[1] = FirstEvent(a)
      BY <2>3, OpenedEvent
    <3> QED BY <2>1, <3>1, OpenedEvent DEF WellFormed
  <2>4. ASSUME NEW d, evs = <<FirstEvent(a), d>>,
               MayAppend(Apply(EmptyAccount, FirstEvent(a)), d)
        PROVE  evs \in Seq(Event) /\ evs # <<>> /\ WellFormed(a, x.version, evs)
    <3>1. d \in Event /\ d.aggregate_id = a /\ d.version = 2
      BY <2>4, OpenedEvent DEF MayAppend
    <3>2. /\ evs \in Seq(Event) /\ evs # <<>> /\ DOMAIN evs = {1, 2}
          /\ evs[1] = FirstEvent(a) /\ evs[2] = d
      BY <2>4, <3>1, OpenedEvent
    <3> QED BY <2>1, <3>1, <3>2, OpenedEvent DEF WellFormed
  <2> QED BY <2>2, <2>3, <2>4, OpenDecision
<1>2. CASE c.op # "open"
  <2>1. PICK m \in 0 .. n : x = States(r)[m] /\ m >= 1
    BY <1>2 DEF Shown
  <2>2. x \in AccountState /\ x.id = a /\ x.version \in Nat
    <3>1. m > 0 /\ m \in Nat
      BY <2>1
    <3> QED BY <2>1, <3>1, StatesOfStream
  <2>3. DecideOn(x, c).err = "nil" /\ evs = <<DecideOn(x, c).event>>
    <3> DEFINE d == DecideOn(x, c)
    <3>1. Decide(x, c) = IF d.err # "nil" THEN Declined(d.err) ELSE Decided(<<d.event>>)
      BY <1>2 DEF Decide
    <3> HIDE DEF d
    <3> QED BY <3>1 DEF Declined, Decided, d
  <2>4. MayAppend(x, DecideOn(x, c).event)
    BY <1>2, <2>2, <2>3, DecisionContinues
  <2>5. /\ evs \in Seq(Event) /\ evs # <<>> /\ DOMAIN evs = {1}
        /\ evs[1] = DecideOn(x, c).event
    BY <2>3, <2>4 DEF MayAppend
  <2> QED BY <2>2, <2>4, <2>5 DEF WellFormed, MayAppend
<1> QED
  BY <1>1, <1>2

\* A batch that passes the UNIQUE constraint was decided on the account as it
\* is now, and extends its stream without an overdraft.
LEMMA AppendExtends ==
  ASSUME NEW a \in AccountIds, NEW r, NEW n, Stream(a, r, n),
         NEW c \in Command, c.account = a, NEW x, Shown(x, c, r, n),
         Decide(x, c).err = "nil", ~UniqueViolation(r, Decide(x, c).events)
  PROVE  \E k : Extends(a, r, n, Insert(r, Decide(x, c).events), k)
<1> DEFINE evs == Decide(x, c).events
           s == Insert(r, evs)
<1>1. n \in Nat /\ DOMAIN r = 1 .. n
  BY DEF Stream
<1>2. PICK m \in 0 .. n : /\ x = States(r)[m]
                          /\ c.op = "open" => x = EmptyAccount
                          /\ c.op # "open" => m >= 1
  BY DEF Shown
<1>3. x \in AccountState /\ x.version = m /\ (m > 0 => x.id = a)
  BY <1>2, StatesOfStream
<1>4. evs \in Seq(Event) /\ evs # <<>> /\ WellFormed(a, m, evs)
  BY <1>3, DecisionWellFormed
<1>5. m = n
  <2> HIDE DEF evs
  <2>1. ~UniqueViolation(r, evs)
    BY DEF evs
  <2> QED BY <1>4, <2>1, NoConflictMeansCurrent
<1>6. s = [v \in 1 .. n + Len(evs) |-> IF v <= n THEN r[v] ELSE evs[v - n]]
  <2> HIDE DEF evs
  <2> QED BY <1>4, <1>5, InsertExtends
<1>7. CASE c.op # "open"
  <2>1. DecideOn(x, c).err = "nil" /\ evs = <<DecideOn(x, c).event>>
    <3> DEFINE d == DecideOn(x, c)
    <3>1. Decide(x, c) = IF d.err # "nil" THEN Declined(d.err) ELSE Decided(<<d.event>>)
      BY <1>7 DEF Decide
    <3> HIDE DEF d
    <3> QED BY <3>1 DEF Declined, Decided, d
  <2>2. n >= 1 /\ x.id = a
    BY <1>1, <1>2, <1>3, <1>5, <1>7
  <2>3. MayAppend(x, DecideOn(x, c).event)
    BY <1>3, <1>7, <2>1, <2>2, DecisionContinues
  <2> DEFINE e == DecideOn(x, c).event
  <2> HIDE DEF e, evs
  <2>4. Len(evs) = 1 /\ evs[1] = e
    BY <2>1 DEF e
  <2>5. s = [v \in 1 .. n + 1 |-> IF v <= n THEN r[v] ELSE e]
    <3>1. \A v \in 1 .. n + 1 : ~(v <= n) => v - n = 1
      BY <1>1
    <3> QED BY <1>6, <2>4, <3>1
  <2>6. /\ e \in Event /\ e.aggregate_id = a /\ e.version = n + 1
        /\ (e.type = "account.opened" <=> n = 0)
        /\ (States(r)[n].balance >= 0 => States(r)[n].balance + Delta(e) >= 0)
    BY <1>1, <1>2, <1>3, <1>5, <2>2, <2>3 DEF MayAppend, e
  <2> HIDE DEF s
  <2>7. Extends(a, r, n, s, n + 1)
    BY <2>5, <2>6, ExtendByOne
  <2> QED BY <2>7 DEF s, evs
<1>8. CASE c.op = "open"
  <2>1. n = 0 /\ States(r)[0] = EmptyAccount
    <3>1. x.version = 0
      BY <1>2, <1>8 DEF EmptyAccount
    <3> QED BY <1>3, <1>5, <3>1, FirstState
  <2>2. Decide(x, c) = DecideOpen(c)
    BY <1>8 DEF Decide
  <2> DEFINE o == FirstEvent(a)
             s1 == [v \in 1 .. n + 1 |-> IF v <= n THEN r[v] ELSE o]
  <2>3. /\ o \in Event /\ o.aggregate_id = a /\ o.version = n + 1
        /\ (o.type = "account.opened" <=> n = 0) /\ Delta(o) = 0
    BY <2>1, OpenedEvent
  <2>4. EmptyAccount.balance = 0
    BY DEF EmptyAccount
  <2>5. /\ Extends(a, r, n, s1, n + 1)
        /\ States(s1)[n + 1] = Apply(EmptyAccount, o)
    <3> HIDE DEF o, s1
    <3>1. s1 = [v \in 1 .. n + 1 |-> IF v <= n THEN r[v] ELSE o]
      BY DEF s1
    <3>2. States(r)[n].balance >= 0 => States(r)[n].balance + Delta(o) >= 0
      BY <2>1, <2>3, <2>4
    <3>3. /\ Extends(a, r, n, s1, n + 1)
          /\ States(s1)[n + 1] = Apply(States(r)[n], o)
      BY <2>3, <3>1, <3>2, ExtendByOne
    <3> QED BY <2>1, <3>3
  <2>6. CASE evs = <<FirstEvent(a)>>
    <3>1. Len(evs) = 1 /\ evs[1] = o
      BY <2>6
    <3>2. s = s1
      <4> HIDE DEF evs, o
      <4>1. \A v \in 1 .. n + 1 : ~(v <= n) => v - n = 1
        BY <1>1
      <4> QED BY <1>6, <3>1, <4>1
    <3> QED BY <2>5, <3>2
  <2>7. ASSUME NEW d, evs = <<FirstEvent(a), d>>,
               MayAppend(Apply(EmptyAccount, FirstEvent(a)), d)
        PROVE  \E k : Extends(a, r, n, s, k)
    <3>1. /\ d \in Event /\ d.aggregate_id = a /\ d.version = 2
          /\ d.type # "account.opened"
          /\ States(s1)[1].balance >= 0 => States(s1)[1].balance + Delta(d) >= 0
      BY <2>1, <2>5, <2>7, OpenedEvent DEF MayAppend
    <3>2. Len(evs) = 2 /\ evs[1] = o /\ evs[2] = d
      BY <2>7
    <3>3. Stream(a, s1, 1)
      BY <2>1, <2>5 DEF Extends
    <3>4. s = [v \in 1 .. 1 + 1 |-> IF v <= 1 THEN s1[v] ELSE d]
      <4> HIDE DEF evs, o
      <4>1. s = [v \in 1 .. 2 |-> evs[v]]
        BY <1>6, <2>1, <3>2
      <4>2. s1 = [v \in 1 .. 1 |-> o]
        BY <2>1
      <4>3. \A v \in 1 .. 2 : v = 1 \/ v = 2
        OBVIOUS
      <4> HIDE DEF s1, s
      <4> QED BY <3>2, <4>1, <4>2, <4>3
    <3>5. Extends(a, s1, 1, s, 2)
      <4> HIDE DEF evs, o, s1, s
      <4>1. d.version = 1 + 1 /\ (d.type = "account.opened" <=> 1 = 0)
        BY <3>1
      <4>2. Extends(a, s1, 1, s, 1 + 1)
        BY <3>1, <3>3, <3>4, <4>1, ExtendByOne
      <4> QED BY <4>2
    <3>6. Extends(a, r, n, s, 2)
      <4> HIDE DEF evs, o, s1, s
      <4> QED BY <2>1, <2>5, <3>5 DEF Extends
    <3> QED BY <3>6
  <2> QED BY <2>2, <2>6, <2>7, OpenDecision
<1> QED
  BY <1>7, <1>8

-----------------------------------------------------------------------------
(***************************************************************************)
(* The invariant is inductive                                              *)
(***************************************************************************)
last(a) == LastVersion(events[a])

LedgerInv == VersionsContiguous /\ StreamsWellFormed /\ NoOverdraft

\* The invariant and the lemmas on streams name the same states.
LEMMA StateAtIsStates ==
  \A a, v : StateAt(a, v) = States(events[a])[v]
BY DEF StateAt, States

\* The invariant's view of the table is that of the lemmas on streams.
LEMMA StreamsOfTable ==
  ASSUME TypeOK, LedgerInv, NEW a \in AccountIds
  PROVE  /\ Stream(a, events[a], last(a))
         /\ NonNegative(events[a], last(a))
<1>1. last(a) \in Nat /\ DOMAIN events[a] = 1 .. last(a)
  BY DEF TypeOK, LedgerInv, VersionsContiguous, last
<1>2. Stream(a, events[a], last(a))
  BY <1>1 DEF Stream, TypeOK, LedgerInv, StreamsWellFormed
<1>3. ASSUME NEW v \in 0 .. last(a) PROVE States(events[a])[v].balance >= 0
  <2>1. CASE v = 0
    BY <1>2, <2>1, FirstState DEF EmptyAccount
  <2>2. CASE v # 0
    <3>1. v \in DOMAIN events[a]
      BY <1>1, <2>2
    <3> QED BY <3>1, StateAtIsStates DEF LedgerInv, NoOverdraft
  <2> QED BY <2>1, <2>2
<1> QED
  BY <1>2, <1>3 DEF NonNegative

\* And back: a table of non-negative streams satisfies the invariant's part on it.
LEMMA TableOfStreams ==
  ASSUME DOMAIN events = AccountIds,
         \A a \in AccountIds : \E n : /\ Stream(a, events[a], n)
                                     /\ NonNegative(events[a], n)
  PROVE  /\ LedgerInv
         /\ \A a \in AccountIds : /\ LastVersion(events[a]) \in Nat
                                  /\ \A v \in DOMAIN events[a] : events[a][v] \in Event
<1>1. ASSUME NEW a \in AccountIds
      PROVE  /\ Stream(a, events[a], last(a))
             /\ NonNegative(events[a], last(a))
  <2>1. PICK n : Stream(a, events[a], n) /\ NonNegative(events[a], n)
    OBVIOUS
  <2>2. last(a) = n
    BY <2>1, StreamRows DEF last
  <2> QED BY <2>1, <2>2
<1>2. \A a \in AccountIds : last(a) \in Nat /\ DOMAIN events[a] = 1 .. last(a)
  BY <1>1 DEF Stream
<1>3. VersionsContiguous
  BY <1>2 DEF VersionsContiguous, last
<1>4. StreamsWellFormed
  BY <1>1 DEF StreamsWellFormed, Stream
<1>5. NoOverdraft
  <2>1. ASSUME NEW a \in AccountIds, NEW v \in DOMAIN events[a]
        PROVE  StateAt(a, v).balance >= 0
    <3>1. v \in 0 .. last(a)
      BY <1>2
    <3> QED BY <1>1, <3>1, StateAtIsStates DEF NonNegative
  <2> QED BY <2>1 DEF NoOverdraft
<1>6. \A a \in AccountIds : \A v \in DOMAIN events[a] : events[a][v] \in Event
  BY <1>1 DEF Stream
<1> QED
  BY <1>2, <1>3, <1>4, <1>5, <1>6 DEF LedgerInv, last

\* A step keeps the history of every account: it may only add versions.
HistoryKept ==
  \A a \in AccountIds :
    /\ last(a)' \in Nat
    /\ last(a) <= last(a)'
    /\ \A v \in 0 .. last(a) : StateAt(a, v)' = StateAt(a, v)

\* A step that leaves the table alone keeps every past state.
LEMMA UnchangedKeepsHistory ==
  ASSUME TypeOK, UNCHANGED events
  PROVE  HistoryKept
<1>1. \A a \in AccountIds : last(a)' = last(a) /\ last(a) \in Nat
  BY DEF last, TypeOK
<1>2. \A a, v : StateAt(a, v)' = StateAt(a, v)
  BY DEF StateAt
<1> QED
  BY <1>1, <1>2 DEF HistoryKept

\* A commit adds to the stream of its account and changes no past state: what it
\* inserts was decided on the last state, or UNIQUE would have refused it.
LEMMA CommitKeepsHistory ==
  ASSUME IInv, NEW p \in Procs, Commit(p)
  PROVE  /\ HistoryKept
         /\ LedgerInv'
         /\ DOMAIN events' = AccountIds
         /\ \A a \in AccountIds :
              /\ LastVersion(events'[a]) \in Nat
              /\ \A v \in DOMAIN events'[a] : events'[a][v] \in Event
         /\ last(cmd[p].account) < LastVersion(events'[cmd[p].account])
<1> DEFINE c == cmd[p]
           b == c.account
           r == events[b]
           x == acc[p]
<1>1. TypeOK /\ LedgerInv /\ LocalOK(p)
  BY DEF IInv, LedgerInv, LocalsConsistent
<1>2. /\ pc[p] = "append" /\ ~UniqueViolation(r, batch[p])
      /\ events' = [events EXCEPT ![b] = Insert(r, batch[p])]
  BY DEF Commit
<1>3. c \in Command /\ b \in AccountIds
  BY <1>1, <1>2 DEF LocalOK, Command
<1>4. DOMAIN events = AccountIds /\ DOMAIN events' = AccountIds
  BY <1>1, <1>2 DEF TypeOK
<1>5. Stream(b, r, last(b)) /\ NonNegative(r, last(b)) /\ last(b) \in Nat
  BY <1>1, <1>3, StreamsOfTable DEF Stream
<1>6. Decide(x, c).err = "nil" /\ Decide(x, c).events = batch[p]
  BY <1>1, <1>2 DEF LocalOK, Decided
<1>7. Shown(x, c, r, last(b))
  <2>1. x.version \in 0 .. last(b) /\ x = States(r)[x.version]
    BY <1>1, <1>2, StateAtIsStates DEF LocalOK, IsPastState, last
  <2>2. c.op = "open" => x = EmptyAccount
    BY <1>1, <1>2 DEF LocalOK
  <2>3. c.op # "open" => x.version >= 1
    BY <1>1, <1>2, <2>1 DEF LocalOK
  <2> QED BY <2>1, <2>2, <2>3 DEF Shown
<1> HIDE DEF x, c
<1>8. PICK k : Extends(b, r, last(b), Insert(r, batch[p]), k)
  <2>1. c.account = b
    OBVIOUS
  <2> HIDE DEF b
  <2>2. \E k : Extends(b, r, last(b), Insert(r, Decide(x, c).events), k)
    <3>1. ~UniqueViolation(r, Decide(x, c).events)
      BY <1>2, <1>6
    <3> HIDE DEF r
    <3> QED BY <1>3, <1>5, <1>6, <1>7, <2>1, <3>1, AppendExtends
  <2> QED BY <1>6, <2>2
<1> HIDE DEF b, r
<1> DEFINE s == Insert(r, batch[p])
<1>9. \A a \in AccountIds : events'[a] = IF a = b THEN s ELSE events[a]
  BY <1>2, <1>3, <1>4
<1> HIDE DEF s
<1>10. ASSUME NEW a \in AccountIds
       PROVE  /\ \E n : Stream(a, events'[a], n) /\ NonNegative(events'[a], n)
              /\ last(a)' \in Nat
              /\ last(a) <= last(a)'
              /\ a = b => last(a) < LastVersion(events'[a])
              /\ \A v \in 0 .. last(a) : States(events'[a])[v] = States(events[a])[v]
  <2>1. CASE a = b
    <3>1. Stream(b, s, k) /\ NonNegative(s, k) /\ last(b) < k
          /\ \A v \in 0 .. last(b) : States(s)[v] = States(r)[v]
      BY <1>5, <1>8 DEF Extends, s
    <3>2. LastVersion(s) = k /\ k \in Nat
      <4>1. k \in Nat
        BY <3>1 DEF Stream
      <4> QED BY <3>1, <4>1, StreamRows
    <3> QED BY <1>3, <1>5, <1>9, <2>1, <3>1, <3>2 DEF last, r
  <2>2. CASE a # b
    <3>1. events'[a] = events[a]
      BY <1>9, <2>2
    <3>2. Stream(a, events[a], last(a)) /\ NonNegative(events[a], last(a))
      BY <1>1, StreamsOfTable
    <3>3. last(a) \in Nat
      BY <3>2 DEF Stream
    <3> QED BY <2>2, <3>1, <3>2, <3>3 DEF last
  <2> QED BY <2>1, <2>2
<1>11. HistoryKept
  BY <1>10 DEF HistoryKept, StateAt, States
<1>12. /\ LedgerInv'
       /\ \A a \in AccountIds :
              /\ LastVersion(events'[a]) \in Nat
              /\ \A v \in DOMAIN events'[a] : events'[a][v] \in Event
  <2>1. (DOMAIN events = AccountIds)'
    BY <1>4
  <2>2. (\A a \in AccountIds : \E n : /\ Stream(a, events[a], n)
                                     /\ NonNegative(events[a], n))'
    BY <1>10
  <2>3. (/\ LedgerInv
         /\ \A a \in AccountIds :
              /\ LastVersion(events[a]) \in Nat
              /\ \A v \in DOMAIN events[a] : events[a][v] \in Event)'
    BY <2>1, <2>2, TableOfStreams, PTL
  <2> QED BY <2>3
<1>13. last(b) < LastVersion(events'[b])
  BY <1>3, <1>10
<1> QED
  BY <1>4, <1>11, <1>12, <1>13 DEF b, c

Replies == BusinessErrors \cup TechnicalErrors \cup {"nil", "none"}

\* A refusal is one of the business errors.
LEMMA RefusalType ==
  ASSUME NEW x, NEW c
  PROVE  Decide(x, c).err \in Replies
<1>1. \A y, amount : guard(y, amount) \in Replies
  BY DEF guard, Replies, BusinessErrors
<1>2. \A y, amount : Deposit(y, amount).err \in Replies
  BY <1>1 DEF Deposit, Refuse, Accept, Replies
<1>3. Withdraw(x, c.amount).err \in Replies
  BY <1>1 DEF Withdraw, Refuse, Accept, Replies, BusinessErrors
<1>4. DebitTransfer(x, c.transfer_id, c.peer, c.amount).err \in Replies
  BY <1>1 DEF DebitTransfer, Refuse, Accept, Replies, BusinessErrors
<1>5. CreditTransfer(x, c.transfer_id, c.peer, c.amount).err \in Replies
  BY <1>1 DEF CreditTransfer, Refuse, Accept, Replies
<1>6. ReverseTransfer(x, c.transfer_id, c.amount).err \in Replies
  BY DEF ReverseTransfer, Refuse, Accept, Replies, BusinessErrors
<1>7. DecideOn(x, c).err \in Replies
  BY <1>2, <1>3, <1>4, <1>5, <1>6 DEF DecideOn
<1>8. OpenAccount(c.account, c.owner).err \in Replies
  BY DEF OpenAccount, Refuse, Accept, Replies, BusinessErrors
<1>9. DecideOpen(c).err \in Replies
  BY <1>2, <1>8 DEF DecideOpen, Declined, Decided, Replies, BusinessErrors
<1> QED
  BY <1>7, <1>9 DEF Decide, Declined, Decided, Replies

Same(q) == UNCHANGED <<pc[q], cmd[q], acc[q], batch[q], attempt[q], since[q]>>

\* A step leaves every command it does not run as consistent as it was.
LEMMA OthersKept ==
  ASSUME NEW q \in Procs, TypeOK, LocalOK(q), HistoryKept, Same(q)
  PROVE  LocalOK(q)'
<1>1. ASSUME pc[q] # "idle", IsPastState(q, acc[q]) PROVE IsPastState(q, acc[q])'
  <2>1. cmd[q].account \in AccountIds
    BY <1>1 DEF LocalOK, Command
  <2>2. /\ last(cmd[q].account) \in Nat
        /\ last(cmd[q].account) <= last(cmd[q].account)'
        /\ cmd'[q] = cmd[q] /\ acc'[q] = acc[q]
    BY <2>1 DEF HistoryKept, Same, TypeOK, last
  <2>3. acc[q].version \in 0 .. last(cmd[q].account)
        /\ acc[q] = StateAt(cmd[q].account, acc[q].version)
    BY <1>1 DEF IsPastState, last
  <2> DEFINE b == cmd[q].account
             v == acc[q].version
  <2>4. \A a \in AccountIds : \A w \in 0 .. last(a) :
          Accumulated(EmptyAccount, events'[a])[w] = StateAt(a, w)
    BY DEF HistoryKept, StateAt
  <2>5. Accumulated(EmptyAccount, events'[b])[v] = acc[q]
    BY <2>1, <2>3, <2>4
  <2>6. LastVersion(events[b]) <= LastVersion(events'[b])
        /\ LastVersion(events[b]) \in Nat /\ LastVersion(events'[b]) \in Nat
    BY <2>1 DEF HistoryKept, last, TypeOK
  <2>7. v \in 0 .. LastVersion(events'[b])
    BY <2>3, <2>6 DEF last
  <2> QED BY <2>2, <2>5, <2>7 DEF IsPastState, StateAt
<1> QED
  BY <1>1 DEF LocalOK, Same, Trying, Reading, Written

\* ConflictsMeanProgress of one command.
ConflictsOf(q) ==
  pc[q] # "idle" =>
    /\ since[q] + attempt[q] <= LastVersion(events[cmd[q].account])
    /\ Written(q) => since[q] + attempt[q] < LastVersion(events[cmd[q].account])

\* ConflictsMeanProgress, command by command.
LEMMA ConflictsByCommand ==
  ASSUME TypeOK, LocalsConsistent
  PROVE  ConflictsMeanProgress <=> \A q \in Procs : ConflictsOf(q)
<1>1. ASSUME NEW q \in Procs, pc[q] # "idle"
      PROVE  /\ since[q] \in Nat /\ attempt[q] \in Nat
             /\ LastVersion(events[cmd[q].account]) \in Nat
  <2>1. cmd[q].account \in AccountIds
    BY <1>1 DEF LocalsConsistent, LocalOK, Command
  <2> QED BY <2>1 DEF TypeOK
<1>2. ASSUME NEW q \in Procs, pc[q] # "idle"
      PROVE  ConflictsOf(q) <=> since[q] + attempt[q] + (IF Written(q) THEN 1 ELSE 0)
                                  <= LastVersion(events[cmd[q].account])
  <2>1. CASE Written(q)
    BY <1>1, <1>2, <2>1 DEF ConflictsOf
  <2>2. CASE ~Written(q)
    BY <1>1, <1>2, <2>2 DEF ConflictsOf
  <2> QED BY <2>1, <2>2
<1>3. ASSUME NEW q \in Procs, pc[q] = "idle" PROVE ConflictsOf(q)
  BY <1>3 DEF ConflictsOf
<1> QED BY <1>2, <1>3 DEF ConflictsMeanProgress

\* What is left to show of a step of p once its effect on p and on the tables
\* is known.
LEMMA StepOfOne ==
  ASSUME IInv, NEW p \in Procs, HistoryKept, TypeOK', LedgerInv',
         SnapshotsFaithful', LocalOK(p)', ConflictsOf(p)',
         \A q \in Procs \ {p} : Same(q)
  PROVE  IInv'
<1>1. TypeOK /\ LocalsConsistent /\ \A q \in Procs : ConflictsOf(q)
  BY ConflictsByCommand DEF IInv
<1>2. ASSUME NEW q \in Procs PROVE LocalOK(q)'
  <2>1. CASE q = p
    BY <2>1
  <2>2. CASE q # p
    BY <1>1, <2>2, OthersKept DEF LocalsConsistent
  <2> QED BY <2>1, <2>2
<1>3. ASSUME NEW q \in Procs PROVE ConflictsOf(q)'
  <2>1. CASE q = p
    BY <2>1
  <2>2. CASE q # p
    <3>1. /\ attempt'[q] = attempt[q] /\ since'[q] = since[q]
          /\ cmd'[q] = cmd[q] /\ pc'[q] = pc[q]
      BY <2>2 DEF Same
    <3>2. pc[q] # "idle" => cmd[q].account \in AccountIds
      BY <1>1 DEF LocalsConsistent, LocalOK, Command
    <3>3. ConflictsOf(q) /\ attempt[q] \in Nat /\ since[q] \in Nat
      BY <1>1 DEF TypeOK
    <3>4. \A a \in AccountIds : LastVersion(events[a]) \in Nat
           /\ LastVersion(events'[a]) \in Nat
           /\ LastVersion(events[a]) <= LastVersion(events'[a])
      BY <1>1 DEF HistoryKept, last, TypeOK
    <3> QED BY <3>1, <3>2, <3>3, <3>4 DEF ConflictsOf, Written
  <2> QED BY <2>1, <2>2
<1>4. LocalsConsistent'
  BY <1>2 DEF LocalsConsistent
<1>5. ConflictsMeanProgress'
  <2>1. (\A q \in Procs : ConflictsOf(q))'
    BY <1>3
  <2> QED BY <1>4, <2>1, ConflictsByCommand, PTL
<1> QED
  BY <1>4, <1>5 DEF IInv, LedgerInv

\* A snapshot stays faithful while past states are kept.
LEMMA SnapshotsKept ==
  ASSUME IInv, HistoryKept, LedgerInv', UNCHANGED snapshots
  PROVE  SnapshotsFaithful'
<1>1. TypeOK /\ VersionsContiguous /\ SnapshotsFaithful
  BY DEF IInv
<1>2. ASSUME NEW a \in AccountIds
      PROVE  /\ snapshots'[a].version \in {0} \cup DOMAIN events'[a]
             /\ snapshots'[a] = Accumulated(EmptyAccount, events'[a])[snapshots'[a].version]
  <2>1. /\ last(a) \in Nat /\ last(a)' \in Nat /\ last(a) <= last(a)'
        /\ DOMAIN events[a] = 1 .. last(a)
        /\ DOMAIN events'[a] = 1 .. last(a)'
    BY <1>1 DEF HistoryKept, VersionsContiguous, LedgerInv, last, TypeOK
  <2>2. /\ snapshots[a].version \in 0 .. last(a)
        /\ snapshots[a] = StateAt(a, snapshots[a].version)
    BY <1>1, <2>1 DEF SnapshotsFaithful
  <2>3. Accumulated(EmptyAccount, events'[a])[snapshots[a].version] = snapshots[a]
    BY <2>2 DEF HistoryKept, StateAt
  <2> QED BY <2>1, <2>2, <2>3
<1> QED
  BY <1>2 DEF SnapshotsFaithful, StateAt

\* A step that leaves the tables alone leaves what is said of them alone.
LEMMA QuietTables ==
  ASSUME IInv, UNCHANGED events
  PROVE  /\ HistoryKept
         /\ LedgerInv'
         /\ DOMAIN events' = AccountIds
         /\ \A a \in AccountIds :
              /\ LastVersion(events'[a]) \in Nat
              /\ \A v \in DOMAIN events'[a] : events'[a][v] \in Event
         /\ UNCHANGED snapshots => SnapshotsFaithful'
<1>1. TypeOK /\ LedgerInv
  BY DEF IInv, LedgerInv
<1>2. HistoryKept
  BY <1>1, UnchangedKeepsHistory
<1>3. LedgerInv'
  BY <1>1 DEF LedgerInv, VersionsContiguous, StreamsWellFormed, NoOverdraft, StateAt
<1>4. /\ DOMAIN events' = AccountIds
      /\ \A a \in AccountIds :
              /\ LastVersion(events'[a]) \in Nat
              /\ \A v \in DOMAIN events'[a] : events'[a][v] \in Event
  BY <1>1 DEF TypeOK
<1> QED
  BY <1>2, <1>3, <1>4, SnapshotsKept

TableTypes ==
  /\ DOMAIN events = AccountIds
  /\ \A a \in AccountIds : /\ LastVersion(events[a]) \in Nat
                           /\ \A v \in DOMAIN events[a] : events[a][v] \in Event
  /\ snapshots \in [AccountIds -> AccountState]
  /\ published \in [AccountIds -> Nat]

LocalTypes ==
  /\ pc \in [Procs -> Steps \cup {"idle"}]
  /\ cmd \in [Procs -> Command \cup {NoCommand}]
  /\ acc \in [Procs -> AccountState]
  /\ batch \in [Procs -> Seq(Event)]
  /\ attempt \in [Procs -> 0 .. maxRetries]
  /\ since \in [Procs -> Nat]
  /\ reply \in [Procs -> Replies]

\* TypeOK, split into the tables and the locals of the commands.
LEMMA TypeOKParts == TypeOK <=> TableTypes /\ LocalTypes
BY DEF TypeOK, TableTypes, LocalTypes, Replies

\* A command that returns holds nothing any more.
LEMMA ReturnKeeps ==
  ASSUME IInv, NEW p \in Procs, NEW x \in Replies, Return(p, x)
  PROVE  /\ LocalTypes' /\ LocalOK(p)' /\ ConflictsOf(p)'
         /\ \A q \in Procs \ {p} : Same(q)
<1>1. LocalTypes
  BY TypeOKParts DEF IInv
<1>2. LocalTypes'
  <2>1. maxRetries \in Nat
    BY CommandSideAssumption
  <2> QED BY <1>1, <2>1, EmptyAccountType DEF LocalTypes, Return, Steps
<1>3. pc'[p] = "idle" /\ attempt'[p] = 0
  BY <1>1 DEF Return, LocalTypes
<1>4. LocalOK(p)'
  BY <1>3 DEF LocalOK, Trying, Reading, Written
<1>5. ConflictsOf(p)'
  BY <1>3 DEF ConflictsOf
<1>6. \A q \in Procs \ {p} : Same(q)
  BY <1>1 DEF Return, Same, LocalTypes
<1> QED
  BY <1>2, <1>4, <1>5, <1>6

\* A return that leaves the tables alone.
LEMMA QuietReturn ==
  ASSUME IInv, NEW p \in Procs, NEW x \in Replies, Return(p, x),
         UNCHANGED <<tables, published>>
  PROVE  IInv'
<1>1. UNCHANGED events /\ UNCHANGED snapshots /\ UNCHANGED published
  BY DEF tables
<1>2. TableTypes'
  BY <1>1, TypeOKParts DEF IInv, TableTypes
<1>3. TypeOK'
  BY <1>2, ReturnKeeps, TypeOKParts, PTL
<1> QED
  BY <1>1, <1>3, QuietTables, ReturnKeeps, StepOfOne

\* Load returns the account as it is at its second query, whatever snapshot its
\* first query read.
LEMMA LoadIsCurrent ==
  ASSUME TypeOK, LedgerInv, NEW a \in AccountIds, NEW base,
         base.version \in 0 .. last(a), base = StateAt(a, base.version)
  PROVE  /\ Loaded(base, events[a]) = StateAt(a, last(a))
         /\ StateAt(a, last(a)) \in AccountState
         /\ StateAt(a, last(a)).version = last(a)
         /\ ~NotFound(base, events[a]) => last(a) >= 1
<1>1. Stream(a, events[a], last(a)) /\ last(a) \in Nat
  BY StreamsOfTable DEF Stream
<1> DEFINE r == events[a]
           n == last(a)
           v == base.version
<1>2. base = States(r)[v]
  BY StateAtIsStates
<1>3. /\ RowsAfter(r, v) = [w \in v + 1 .. n |-> r[w]]
      /\ Replay(States(r)[v], RowsAfter(r, v)) = States(r)[n]
  <2> HIDE DEF r, n, v
  <2>1. v \in 0 .. n
    BY DEF v, n
  <2>2. Stream(a, r, n)
    BY <1>1 DEF r, n
  <2> QED BY <2>1, <2>2, ReplayOnSnapshot
<1>4. Loaded(base, r) = States(r)[n]
  BY <1>2, <1>3 DEF Loaded
<1>5. States(r)[n] \in AccountState /\ States(r)[n].version = n
  BY <1>1, StatesOfStream
<1>6. ~NotFound(base, r) => n >= 1
  <2>1. n = 0 => v = 0 /\ DOMAIN RowsAfter(r, v) = {}
    BY <1>1, <1>3
  <2> QED BY <1>1, <2>1 DEF NotFound
<1> QED
  BY <1>4, <1>5, <1>6, StateAtIsStates

\* Proceed on a past state: refuse, or hold a decision made on it.
LEMMA ProceedKeeps ==
  ASSUME IInv, NEW p \in Procs, pc[p] \in {"open", "loadEvents"},
         NEW x \in AccountState, Proceed(p, x),
         x.version \in 0 .. last(cmd[p].account),
         x = StateAt(cmd[p].account, x.version),
         IF cmd[p].op = "open" THEN x = EmptyAccount
         ELSE x.version > 0 /\ since[p] + attempt[p] <= x.version,
         UNCHANGED <<tables, published>>
  PROVE  IInv'
<1> DEFINE c == cmd[p]
           d == Decide(x, c)
<1>1. /\ TypeOK /\ LedgerInv /\ LocalOK(p) /\ ConflictsOf(p) /\ LocalTypes /\ TableTypes
  BY TypeOKParts, ConflictsByCommand DEF IInv, LedgerInv, LocalsConsistent
<1>2. c \in Command /\ c.account \in AccountIds /\ attempt[p] < maxRetries
      /\ attempt[p] \in Nat
  BY <1>1 DEF LocalOK, Command, Trying, LocalTypes
<1>3. CASE d.err # "nil"
  <2>1. Return(p, d.err)
    BY <1>3 DEF Proceed
  <2>2. d.err \in Replies
    BY RefusalType
  <2> QED BY <2>1, <2>2, QuietReturn
<1>4. CASE d.err = "nil"
  <2>1. /\ acc' = [acc EXCEPT ![p] = x]
        /\ batch' = [batch EXCEPT ![p] = d.events]
        /\ pc' = [pc EXCEPT ![p] = "append"]
        /\ UNCHANGED <<cmd, attempt, since, reply>>
    BY <1>4 DEF Proceed, Goto
  <2>2. UNCHANGED events /\ UNCHANGED snapshots /\ UNCHANGED published
    BY DEF tables
  <2>3. Shown(x, c, events[c.account], last(c.account))
    BY <1>2, StateAtIsStates DEF Shown
  <2>4. d.events \in Seq(Event)
    <3>1. Stream(c.account, events[c.account], last(c.account))
      BY <1>1, <1>2, StreamsOfTable
    <3> QED BY <1>2, <1>4, <2>3, <3>1, DecisionWellFormed
  <2>5. d = Decided(d.events)
    <3>1. c.op = "open" => d = DecideOpen(c)
      BY DEF Decide
    <3>2. DecideOpen(c).err = "nil" => DecideOpen(c) = Decided(DecideOpen(c).events)
      BY DEF DecideOpen, Decided, Declined
    <3>3. \A e : Decided(e).events = e
      BY DEF Decided
    <3>4. c.op # "open" => d = Decided(<<DecideOn(x, c).event>>)
      <4>1. CASE DecideOn(x, c).err = "nil"
        BY <4>1 DEF Decide
      <4>2. CASE DecideOn(x, c).err # "nil"
        <5>1. c.op # "open" => d = Declined(DecideOn(x, c).err)
          BY <4>2 DEF Decide
        <5>2. Declined(DecideOn(x, c).err).err = DecideOn(x, c).err
          BY DEF Declined
        <5> QED BY <1>4, <4>2, <5>1, <5>2
      <4> QED BY <4>1, <4>2
    <3> HIDE DEF d
    <3> QED BY <1>4, <3>1, <3>2, <3>3, <3>4
  <2> HIDE DEF d
  <2>6. TypeOK'
    <3>1. TableTypes'
      BY <1>1, <2>2 DEF TableTypes
    <3>2. LocalTypes'
      BY <1>1, <2>1, <2>4 DEF LocalTypes, Steps
    <3> QED BY <3>1, <3>2, TypeOKParts, PTL
  <2>7. /\ pc'[p] = "append" /\ acc'[p] = x /\ batch'[p] = d.events
        /\ cmd'[p] = cmd[p] /\ attempt'[p] = attempt[p] /\ since'[p] = since[p]
    BY <1>1, <2>1 DEF LocalTypes
  <2>8. LocalOK(p)'
    <3>1. IsPastState(p, acc[p])'
      BY <2>2, <2>7 DEF IsPastState, StateAt, last
    <3>2. Decide(acc'[p], cmd'[p]) = Decided(batch'[p])
      BY <2>5, <2>7 DEF d
    <3> QED BY <1>2, <2>7, <3>1, <3>2 DEF LocalOK, Trying, Reading, Written
  <2>9. ConflictsOf(p)'
    BY <1>1, <2>2, <2>7 DEF ConflictsOf, Written
  <2>10. \A q \in Procs \ {p} : Same(q)
    BY <1>1, <2>1 DEF Same, LocalTypes
  <2> QED BY <2>2, <2>6, <2>8, <2>9, <2>10, QuietTables, StepOfOne
<1> QED
  BY <1>3, <1>4

\* A step of p that leaves the tables and the other processes alone.
LEMMA QuietStep ==
  ASSUME IInv, NEW p \in Procs, UNCHANGED tables,
         published' \in [AccountIds -> Nat], LocalTypes',
         LocalOK(p)', ConflictsOf(p)', \A q \in Procs \ {p} : Same(q)
  PROVE  IInv'
<1>1. UNCHANGED events /\ UNCHANGED snapshots
  BY DEF tables
<1>2. TableTypes'
  BY <1>1, TypeOKParts DEF IInv, TableTypes
<1>3. TypeOK'
  BY <1>2, TypeOKParts, PTL
<1> QED
  BY <1>1, <1>3, QuietTables, StepOfOne

-----------------------------------------------------------------------------
(***************************************************************************)
(* One lemma per group of actions, then the theorems                       *)
(***************************************************************************)
Facts(p) ==
  /\ TypeOK /\ TableTypes /\ LocalTypes /\ LedgerInv /\ SnapshotsFaithful
  /\ LocalOK(p) /\ ConflictsOf(p)
  /\ attempt[p] \in Nat /\ since[p] \in Nat
  /\ pc[p] # "idle" => cmd[p] \in Command /\ cmd[p].account \in AccountIds

\* What the steps below use of the invariant about one command.
LEMMA FactsOf ==
  ASSUME IInv, NEW p \in Procs
  PROVE  Facts(p)
<1>1. TypeOK /\ LedgerInv /\ SnapshotsFaithful /\ LocalOK(p) /\ ConflictsOf(p)
  BY ConflictsByCommand DEF IInv, LedgerInv, LocalsConsistent
<1>2. TableTypes /\ LocalTypes
  BY <1>1, TypeOKParts
<1>3. attempt[p] \in Nat /\ since[p] \in Nat
  BY <1>2 DEF LocalTypes
<1>4. pc[p] # "idle" => cmd[p] \in Command /\ cmd[p].account \in AccountIds
  BY <1>1 DEF LocalOK, Command
<1> QED
  BY <1>1, <1>2, <1>3, <1>4 DEF Facts

\* A command begins.
LEMMA BeginKeeps ==
  ASSUME IInv, NEW p \in Procs, NEW c \in Requests, Begin(p, c)
  PROVE  IInv'
<1>1. Facts(p) /\ c \in Command
  BY FactsOf, CommandSideAssumption
<1>2. FirstStep(c.op) \in {"open", "check", "loadSnapshot"}
      /\ (FirstStep(c.op) = "open" <=> c.op = "open")
  BY DEF FirstStep
<1>3. /\ pc'[p] = FirstStep(c.op) /\ cmd'[p] = c /\ attempt'[p] = 0
      /\ since'[p] = LastVersion(events[c.account])
      /\ LastVersion(events[c.account]) \in Nat
  <2>1. c.account \in AccountIds
    BY <1>1 DEF Command
  <2> QED BY <1>1, <2>1 DEF Begin, Facts, LocalTypes, LocalOK, TypeOK
<1>4. LocalTypes'
  BY <1>1, <1>2, <1>3 DEF Begin, Facts, LocalTypes, Steps, Replies
<1>5. LocalOK(p)'
  <2>1. 0 < maxRetries
    BY CommandSideAssumption
  <2> QED BY <1>1, <1>2, <1>3, <2>1 DEF LocalOK, Trying, Reading, Written
<1>6. ConflictsOf(p)'
  <2>1. UNCHANGED events
    BY DEF Begin, tables
  <2> QED BY <1>2, <1>3, <2>1 DEF ConflictsOf, Written
<1>7. \A q \in Procs \ {p} : Same(q)
  BY <1>1 DEF Begin, Same, Facts, LocalTypes
<1>8. published' \in [AccountIds -> Nat]
  BY <1>1 DEF Begin, Facts, TableTypes
<1> QED
  BY <1>4, <1>5, <1>6, <1>7, <1>8, QuietStep DEF Begin

\* OpenAccount decides without a load.
LEMMA OpenKeeps ==
  ASSUME IInv, NEW p \in Procs, Open(p)
  PROVE  IInv'
<1>1. Facts(p) /\ pc[p] = "open" /\ cmd[p].account \in AccountIds
  BY FactsOf DEF Open, Facts
<1>2. Stream(cmd[p].account, events[cmd[p].account], last(cmd[p].account))
      /\ last(cmd[p].account) \in Nat
  BY <1>1, StreamsOfTable DEF Facts, Stream
<1>3. EmptyAccount.version = 0 /\ EmptyAccount \in AccountState
  BY EmptyAccountType DEF EmptyAccount
<1>4. EmptyAccount = StateAt(cmd[p].account, EmptyAccount.version)
  BY <1>2, <1>3, FirstState, StateAtIsStates
<1>5. cmd[p].op = "open"
  BY <1>1 DEF Facts, LocalOK
<1> QED
  BY <1>1, <1>2, <1>3, <1>4, <1>5, ProceedKeeps DEF Open

\* Load ends in a past state of the account, perhaps no longer the last one, and
\* the command decides on it.
LEMMA LoadEventsKeeps ==
  ASSUME IInv, NEW p \in Procs, LoadEvents(p)
  PROVE  IInv'
<1> DEFINE b == cmd[p].account
<1>1. Facts(p) /\ pc[p] = "loadEvents" /\ b \in AccountIds /\ UNCHANGED <<tables, published>>
  BY FactsOf DEF LoadEvents, Facts
<1>2. CASE NotFound(acc[p], events[b])
  <2>1. Return(p, "ErrAccountNotFound")
    BY <1>2 DEF LoadEvents
  <2>2. "ErrAccountNotFound" \in Replies
    BY DEF Replies, BusinessErrors
  <2> QED BY <1>1, <2>1, <2>2, QuietReturn
<1>3. CASE ~NotFound(acc[p], events[b])
  <2>1. acc[p].version \in 0 .. last(b) /\ acc[p] = StateAt(b, acc[p].version)
    BY <1>1 DEF Facts, LocalOK, Reading, IsPastState, last
  <2> DEFINE x == Loaded(acc[p], events[b])
  <2>2. /\ x = StateAt(b, last(b)) /\ x \in AccountState /\ x.version = last(b)
        /\ last(b) >= 1
    BY <1>1, <1>3, <2>1, LoadIsCurrent DEF Facts
  <2>3. Proceed(p, x)
    BY <1>3 DEF LoadEvents
  <2> HIDE DEF x
  <2>4. last(b) \in Nat
    BY <1>1 DEF Facts, TypeOK, last
  <2>5. cmd[p].op # "open" /\ x.version > 0 /\ since[p] + attempt[p] <= x.version
    BY <1>1, <2>2, <2>4 DEF Facts, LocalOK, ConflictsOf, last
  <2> QED BY <1>1, <2>2, <2>3, <2>4, <2>5, ProceedKeeps
<1> QED
  BY <1>2, <1>3

\* Steps that return, or only move the process on.
LEMMA CheckKeeps ==
  ASSUME IInv, NEW p \in Procs, Check(p)
  PROVE  IInv'
<1>1. Facts(p) /\ pc[p] = "check" /\ UNCHANGED <<tables, published>>
  BY FactsOf DEF Check
<1>2. CASE Return(p, "nil")
  BY <1>1, <1>2, QuietReturn DEF Replies
<1>3. CASE Goto(p, "loadSnapshot") /\ UNCHANGED <<cmd, acc, batch, attempt, since, reply>>
  <2>1. pc'[p] = "loadSnapshot" /\ LocalTypes' /\ \A q \in Procs \ {p} : Same(q)
    BY <1>1, <1>3 DEF Goto, Facts, LocalTypes, Same, Steps
  <2>2. LocalOK(p)'
    BY <1>1, <1>3, <2>1 DEF Facts, LocalOK, Trying, Reading, Written
  <2>3. UNCHANGED events
    BY <1>1 DEF tables
  <2>4. ConflictsOf(p)'
    BY <1>1, <1>3, <2>1, <2>3 DEF Facts, ConflictsOf, Written
  <2>5. published' \in [AccountIds -> Nat]
    BY <1>1 DEF Facts, TableTypes
  <2> QED BY <1>1, <2>1, <2>2, <2>4, <2>5, QuietStep
<1> QED
  BY <1>2, <1>3 DEF Check

\* mutate tries again or gives up.
LEMMA BackoffKeeps ==
  ASSUME IInv, NEW p \in Procs, Backoff(p)
  PROVE  IInv'
<1>1. Facts(p) /\ pc[p] = "backoff" /\ UNCHANGED <<tables, published>>
  BY FactsOf DEF Backoff
<1>2. CASE Return(p, "ErrTooManyConflicts")
  BY <1>1, <1>2, QuietReturn DEF Replies, TechnicalErrors
<1>3. CASE /\ attempt[p] < maxRetries
           /\ Goto(p, "loadSnapshot")
           /\ UNCHANGED <<cmd, acc, batch, attempt, since, reply>>
  <2>1. pc'[p] = "loadSnapshot" /\ LocalTypes' /\ \A q \in Procs \ {p} : Same(q)
    BY <1>1, <1>3 DEF Goto, Facts, LocalTypes, Same, Steps
  <2>2. LocalOK(p)'
    BY <1>1, <1>3, <2>1 DEF Facts, LocalOK, Trying, Reading, Written
  <2>3. UNCHANGED events
    BY <1>1 DEF tables
  <2>4. ConflictsOf(p)'
    BY <1>1, <1>3, <2>1, <2>3 DEF Facts, ConflictsOf, Written
  <2>5. published' \in [AccountIds -> Nat]
    BY <1>1 DEF Facts, TableTypes
  <2> QED BY <1>1, <2>1, <2>2, <2>4, <2>5, QuietStep
<1> QED
  BY <1>2, <1>3 DEF Backoff

\* A failed call returns.
LEMMA FailKeeps ==
  ASSUME IInv, NEW p \in Procs, Fail(p)
  PROVE  IInv'
BY QuietReturn DEF Fail, Replies, TechnicalErrors

\* The steps that read a snapshot, before a decision or to save a newer one.
LEMMA ReadSnapshotKeeps ==
  ASSUME IInv, NEW p \in Procs, LoadSnapshot(p) \/ SaveLoadSnapshot(p)
  PROVE  IInv'
<1> DEFINE b == cmd[p].account
           next == IF pc[p] = "loadSnapshot" THEN "loadEvents" ELSE "saveLoadEvents"
<1>1. /\ Facts(p) /\ b \in AccountIds /\ UNCHANGED <<tables, published>>
      /\ pc[p] \in {"loadSnapshot", "saveLoadSnapshot"}
      /\ acc' = [acc EXCEPT ![p] = snapshots[b]]
      /\ pc' = [pc EXCEPT ![p] = next]
      /\ UNCHANGED <<cmd, batch, attempt, since, reply>>
  BY FactsOf DEF LoadSnapshot, SaveLoadSnapshot, Facts, Goto
<1>2. UNCHANGED events
  BY <1>1 DEF tables
<1>3. snapshots[b] \in AccountState
  BY <1>1 DEF Facts, TableTypes
<1>4. LocalTypes' /\ pc'[p] = next /\ acc'[p] = snapshots[b]
      /\ \A q \in Procs \ {p} : Same(q)
  BY <1>1, <1>3 DEF Facts, LocalTypes, Same, Steps
<1>5. /\ snapshots[b].version \in 0 .. LastVersion(events[b])
      /\ snapshots[b] = StateAt(b, snapshots[b].version)
  <2>1. LastVersion(events[b]) \in Nat
        /\ DOMAIN events[b] = 1 .. LastVersion(events[b])
    BY <1>1 DEF Facts, LedgerInv, VersionsContiguous, TypeOK
  <2> QED BY <1>1, <2>1 DEF Facts, SnapshotsFaithful
<1>6. IsPastState(p, acc[p])'
  BY <1>1, <1>2, <1>4, <1>5 DEF IsPastState, StateAt
<1>7. LocalOK(p)'
  BY <1>1, <1>4, <1>6 DEF Facts, LocalOK, Trying, Reading, Written
<1>8. ConflictsOf(p)'
  BY <1>1, <1>2, <1>4 DEF Facts, ConflictsOf, Written
<1>9. published' \in [AccountIds -> Nat]
  BY <1>1 DEF Facts, TableTypes
<1> QED
  BY <1>1, <1>4, <1>7, <1>8, <1>9, QuietStep

\* saveSnapshot's own Load ends in a past state too.
LEMMA SaveLoadEventsKeeps ==
  ASSUME IInv, NEW p \in Procs, SaveLoadEvents(p)
  PROVE  IInv'
<1> DEFINE b == cmd[p].account
           x == Loaded(acc[p], events[b])
<1>1. /\ Facts(p) /\ b \in AccountIds /\ UNCHANGED <<tables, published>>
      /\ pc[p] = "saveLoadEvents" /\ UNCHANGED <<cmd, batch, attempt, since, reply>>
  BY FactsOf DEF SaveLoadEvents, Facts
<1>2. UNCHANGED events
  BY <1>1 DEF tables
<1>3. acc[p].version \in 0 .. last(b) /\ acc[p] = StateAt(b, acc[p].version)
  BY <1>1 DEF Facts, LocalOK, Reading, IsPastState, last
<1>4. x = StateAt(b, last(b)) /\ x \in AccountState /\ x.version = last(b)
  BY <1>1, <1>3, LoadIsCurrent DEF Facts
<1>5. last(b) \in Nat
  BY <1>1 DEF Facts, TypeOK, last
<1> HIDE DEF x
<1>6. PICK step \in {"publish", "saveUpsert"} :
        /\ pc' = [pc EXCEPT ![p] = step]
        /\ step = "saveUpsert" => acc' = [acc EXCEPT ![p] = x]
        /\ step = "publish" => acc' = acc
  BY DEF SaveLoadEvents, Goto, x
<1>7. /\ LocalTypes' /\ pc'[p] = step /\ (step = "saveUpsert" => acc'[p] = x)
      /\ \A q \in Procs \ {p} : Same(q)
  BY <1>1, <1>4, <1>6 DEF Facts, LocalTypes, Same, Steps
<1>8. step = "saveUpsert" => IsPastState(p, acc[p])'
  BY <1>1, <1>2, <1>4, <1>5, <1>7 DEF IsPastState, StateAt, last
<1>9. LocalOK(p)'
  BY <1>1, <1>7, <1>8 DEF Facts, LocalOK, Trying, Reading, Written
<1>10. ConflictsOf(p)'
  BY <1>1, <1>2, <1>7 DEF Facts, ConflictsOf, Written
<1>11. published' \in [AccountIds -> Nat]
  BY <1>1 DEF Facts, TableTypes
<1> QED
  BY <1>1, <1>7, <1>9, <1>10, <1>11, QuietStep

\* A snapshot that fails changes nothing.
LEMMA SaveFailKeeps ==
  ASSUME IInv, NEW p \in Procs, SaveFail(p)
  PROVE  IInv'
<1>1. /\ Facts(p) /\ UNCHANGED <<tables, published>> /\ Written(p) /\ pc[p] # "idle"
      /\ pc' = [pc EXCEPT ![p] = "publish"]
      /\ UNCHANGED <<cmd, acc, batch, attempt, since, reply>>
  BY FactsOf DEF SaveFail, Goto, Written
<1>2. UNCHANGED events
  BY <1>1 DEF tables
<1>3. LocalTypes' /\ pc'[p] = "publish" /\ \A q \in Procs \ {p} : Same(q)
  BY <1>1 DEF Facts, LocalTypes, Same, Steps
<1>4. LocalOK(p)'
  BY <1>1, <1>3 DEF Facts, LocalOK, Trying, Reading, Written
<1>5. ConflictsOf(p)'
  BY <1>1, <1>2, <1>3 DEF Facts, ConflictsOf, Written
<1>6. published' \in [AccountIds -> Nat]
  BY <1>1 DEF Facts, TableTypes
<1> QED
  BY <1>1, <1>3, <1>4, <1>5, <1>6, QuietStep

\* The upsert stores a past state.
LEMMA SaveUpsertKeeps ==
  ASSUME IInv, NEW p \in Procs, SaveUpsert(p)
  PROVE  IInv'
<1> DEFINE b == cmd[p].account
<1>1. /\ Facts(p) /\ b \in AccountIds /\ UNCHANGED <<events, published>>
      /\ pc[p] = "saveUpsert"
      /\ snapshots' = [snapshots EXCEPT ![b] = Upsert(snapshots[b], acc[p])]
      /\ pc' = [pc EXCEPT ![p] = "publish"]
      /\ UNCHANGED <<cmd, acc, batch, attempt, since, reply>>
  BY FactsOf DEF SaveUpsert, Goto, Facts
<1>2. LocalTypes' /\ pc'[p] = "publish" /\ \A q \in Procs \ {p} : Same(q)
  BY <1>1 DEF Facts, LocalTypes, Same, Steps
<1>3. LocalOK(p)'
  BY <1>1, <1>2 DEF Facts, LocalOK, Trying, Reading, Written
<1>4. ConflictsOf(p)'
  BY <1>1, <1>2 DEF Facts, ConflictsOf, Written
<1>5. Upsert(snapshots[b], acc[p]) \in {snapshots[b], acc[p]}
  BY DEF Upsert
<1>6. acc[p] \in AccountState /\ acc[p].version \in 0 .. last(b)
      /\ acc[p] = StateAt(b, acc[p].version)
  BY <1>1 DEF Facts, LocalTypes, LocalOK, Reading, IsPastState, last
<1>7. TypeOK'
  <2>1. TableTypes'
    BY <1>1, <1>5, <1>6 DEF Facts, TableTypes
  <2> QED BY <1>2, <2>1, TypeOKParts, PTL
<1>8. SnapshotsFaithful'
  <2>1. ASSUME NEW a \in AccountIds
        PROVE  /\ snapshots'[a].version \in {0} \cup DOMAIN events[a]
               /\ snapshots'[a] = StateAt(a, snapshots'[a].version)
    <3>1. snapshots'[a] = snapshots[a] \/ (a = b /\ snapshots'[a] = acc[p])
      BY <1>1, <1>5 DEF Facts, TableTypes
    <3>2. DOMAIN events[a] = 1 .. last(a) /\ last(a) \in Nat
      BY <1>1 DEF Facts, LedgerInv, VersionsContiguous, last, TypeOK
    <3> QED BY <1>1, <1>6, <3>1, <3>2 DEF Facts, SnapshotsFaithful
  <2> QED BY <1>1, <2>1 DEF SnapshotsFaithful, StateAt
<1> QED
  BY <1>1, <1>2, <1>3, <1>4, <1>7, <1>8, QuietTables, StepOfOne

\* Publishing touches neither table.
LEMMA PublishKeeps ==
  ASSUME IInv, NEW p \in Procs, Publish(p)
  PROVE  IInv'
<1> DEFINE b == cmd[p].account
           evs == batch[p]
<1>1. /\ Facts(p) /\ b \in AccountIds /\ pc[p] = "publish" /\ UNCHANGED tables
      /\ published' = [published EXCEPT ![b] = Head(evs).version]
  BY FactsOf DEF Publish, Facts
<1>2. UNCHANGED events
  BY <1>1 DEF tables
<1>3. evs \in Seq(Event) /\ evs # <<>>
  BY <1>1 DEF Facts, LocalTypes, LocalOK, Written
<1>4. Head(evs).version \in Nat
  <2> HIDE DEF evs
  <2>1. Head(evs) \in Event
    BY <1>3
  <2> QED BY <2>1 DEF Event
<1>5. published' \in [AccountIds -> Nat]
  BY <1>1, <1>4 DEF Facts, TableTypes
<1>6. CASE Len(evs) = 1
  <2>1. Return(p, "nil")
    BY <1>6 DEF Publish
  <2>2. LocalTypes' /\ LocalOK(p)' /\ ConflictsOf(p)' /\ \A q \in Procs \ {p} : Same(q)
    BY <2>1, ReturnKeeps DEF Replies
  <2> QED BY <1>1, <1>5, <2>2, QuietStep
<1>7. CASE Len(evs) # 1
  <2>1. /\ batch' = [batch EXCEPT ![p] = Tail(evs)]
        /\ UNCHANGED <<pc, cmd, acc, attempt, since, reply>>
    BY <1>7 DEF Publish
  <2>2. Tail(evs) \in Seq(Event) /\ Tail(evs) # <<>>
    <3> HIDE DEF evs
    <3>1. Len(evs) \in Nat \ {0} /\ Len(<<>>) = 0
      BY <1>3, EmptySeq
    <3>2. Tail(evs) \in Seq(Event) /\ Len(Tail(evs)) = Len(evs) - 1
      BY <1>3
    <3>3. Len(Tail(evs)) # 0
      BY <1>3, <1>7, <3>1, <3>2
    <3> QED BY <3>1, <3>2, <3>3
  <2>3. LocalTypes' /\ batch'[p] = Tail(evs) /\ \A q \in Procs \ {p} : Same(q)
    BY <1>1, <2>1, <2>2 DEF Facts, LocalTypes, Same
  <2>4. LocalOK(p)'
    BY <1>1, <2>1, <2>2, <2>3 DEF Facts, LocalOK, Trying, Reading, Written
  <2>5. ConflictsOf(p)'
    BY <1>1, <1>2, <2>1 DEF Facts, ConflictsOf, Written
  <2> QED BY <1>1, <1>5, <2>3, <2>4, <2>5, QuietStep
<1> QED
  BY <1>6, <1>7

\* A command about to append holds a batch that passes Append's own checks.
LEMMA HeldBatch ==
  ASSUME IInv, NEW p \in Procs, pc[p] = "append"
  PROVE  batch[p] # <<>>
<1> DEFINE c == cmd[p]
           b == c.account
           x == acc[p]
<1>1. Facts(p) /\ c \in Command /\ b \in AccountIds
  BY FactsOf DEF Facts
<1>2. Stream(b, events[b], last(b))
  BY <1>1, StreamsOfTable DEF Facts
<1>3. x.version \in 0 .. last(b) /\ x = States(events[b])[x.version]
  BY <1>1, StateAtIsStates DEF Facts, LocalOK, IsPastState, last
<1>4. Shown(x, c, events[b], last(b))
  <2>1. c.op # "open" => x.version >= 1
    BY <1>1, <1>3 DEF Facts, LocalOK
  <2>2. c.op = "open" => x = EmptyAccount
    BY <1>1 DEF Facts, LocalOK
  <2> QED BY <1>3, <2>1, <2>2 DEF Shown
<1>5. Decide(x, c).err = "nil" /\ Decide(x, c).events = batch[p]
  BY <1>1 DEF Facts, LocalOK, Decided
<1> HIDE DEF x, c
<1>6. c.account = b
  OBVIOUS
<1> HIDE DEF b
<1> QED
  BY <1>1, <1>2, <1>4, <1>5, <1>6, DecisionWellFormed

\* What a commit establishes about the tables, whether or not it is heard of.
LEMMA CommitFacts ==
  ASSUME IInv, NEW p \in Procs, Commit(p)
  PROVE  /\ HistoryKept /\ LedgerInv' /\ SnapshotsFaithful' /\ TableTypes'
         /\ pc[p] = "append"
         /\ batch[p] # <<>>
         /\ last(cmd[p].account) < LastVersion(events'[cmd[p].account])
<1>1. Facts(p) /\ UNCHANGED snapshots /\ UNCHANGED published /\ pc[p] = "append"
  BY FactsOf DEF Commit
<1>2. HistoryKept /\ LedgerInv'
  BY CommitKeepsHistory
<1>3. SnapshotsFaithful'
  BY <1>1, <1>2, SnapshotsKept
<1>4. TableTypes'
  <2>1. /\ DOMAIN events' = AccountIds
        /\ \A a \in AccountIds :
              /\ LastVersion(events'[a]) \in Nat
              /\ \A v \in DOMAIN events'[a] : events'[a][v] \in Event
    BY CommitKeepsHistory
  <2> QED BY <1>1, <2>1 DEF Facts, TableTypes
<1>5. batch[p] # <<>>
  BY <1>1, HeldBatch
<1>6. last(cmd[p].account) < LastVersion(events'[cmd[p].account])
  BY CommitKeepsHistory
<1> QED
  BY <1>1, <1>2, <1>3, <1>4, <1>5, <1>6

\* A commit that is heard of.
LEMMA AppendOkKeeps ==
  ASSUME IInv, NEW p \in Procs, AppendOk(p)
  PROVE  IInv'
<1>1. Facts(p) /\ Commit(p)
  BY FactsOf DEF AppendOk
<1>2. PICK step \in {"saveLoadSnapshot", "publish"} :
        /\ pc' = [pc EXCEPT ![p] = step]
        /\ UNCHANGED <<cmd, acc, batch, attempt, since, reply>>
  BY DEF AppendOk, Goto
<1>3. LocalTypes' /\ pc'[p] = step /\ \A q \in Procs \ {p} : Same(q)
  BY <1>1, <1>2 DEF Facts, LocalTypes, Same, Steps
<1>4. pc[p] = "append" /\ batch[p] # <<>>
  BY <1>1, CommitFacts
<1>5. LocalOK(p)'
  BY <1>1, <1>2, <1>3, <1>4 DEF Facts, LocalOK, Trying, Reading, Written
<1>6. ConflictsOf(p)'
  <2>1. /\ cmd[p].account \in AccountIds /\ attempt[p] \in Nat /\ since[p] \in Nat
        /\ since[p] + attempt[p] <= LastVersion(events[cmd[p].account])
    BY <1>1, <1>4 DEF Facts, ConflictsOf
  <2>2. /\ LastVersion(events[cmd[p].account]) \in Nat
        /\ cmd'[p] = cmd[p] /\ attempt'[p] = attempt[p] /\ since'[p] = since[p]
    BY <1>1, <1>2, <2>1 DEF Facts, TypeOK
  <2>3. LastVersion(events'[cmd[p].account]) \in Nat
    BY <1>1, <2>1, CommitFacts DEF TableTypes
  <2>4. LastVersion(events[cmd[p].account]) < LastVersion(events'[cmd[p].account])
    BY <1>1, <1>2, CommitFacts DEF last
  <2> QED BY <1>3, <2>1, <2>2, <2>3, <2>4 DEF ConflictsOf
<1>7. TypeOK'
  <2>1. TableTypes'
    BY <1>1, CommitFacts
  <2> QED BY <1>3, <2>1, TypeOKParts, PTL
<1> QED
  BY <1>1, <1>3, <1>5, <1>6, <1>7, CommitFacts, StepOfOne

\* A commit whose answer is lost.
LEMMA AppendAckLostKeeps ==
  ASSUME IInv, NEW p \in Procs, AppendAckLost(p)
  PROVE  IInv'
<1>1. Commit(p) /\ Return(p, "error")
  BY DEF AppendAckLost
<1>2. LocalTypes' /\ LocalOK(p)' /\ ConflictsOf(p)' /\ \A q \in Procs \ {p} : Same(q)
  BY <1>1, ReturnKeeps DEF Replies, TechnicalErrors
<1>3. TypeOK'
  <2>1. TableTypes'
    BY <1>1, CommitFacts
  <2> QED BY <1>2, <2>1, TypeOKParts, PTL
<1> QED
  BY <1>1, <1>2, <1>3, CommitFacts, StepOfOne

\* A conflict proves that the stream grew past the version the command saw.
LEMMA AppendConflictKeeps ==
  ASSUME IInv, NEW p \in Procs, AppendConflict(p)
  PROVE  IInv'
<1> DEFINE b == cmd[p].account
<1>1. /\ Facts(p) /\ b \in AccountIds /\ pc[p] = "append" /\ UNCHANGED <<tables, published>>
      /\ WellFormed(b, acc[p].version, batch[p])
      /\ UniqueViolation(events[b], batch[p])
  BY FactsOf DEF AppendConflict, Facts
<1>2. CASE cmd[p].op = "open"
  <2>1. Return(p, "error")
    BY <1>2 DEF AppendConflict
  <2> QED BY <1>1, <2>1, QuietReturn DEF Replies, TechnicalErrors
<1>3. CASE cmd[p].op # "open"
  <2>1. /\ attempt' = [attempt EXCEPT ![p] = attempt[p] + 1]
        /\ batch' = [batch EXCEPT ![p] = <<>>]
        /\ pc' = [pc EXCEPT ![p] = "backoff"]
        /\ UNCHANGED <<cmd, acc, since, reply>>
    BY <1>3 DEF AppendConflict, Goto
  <2>2. /\ attempt[p] < maxRetries /\ attempt[p] \in Nat /\ since[p] \in Nat
        /\ since[p] + attempt[p] <= acc[p].version
        /\ maxRetries \in Nat /\ acc[p].version \in Nat
    BY <1>1, <1>3, CommandSideAssumption DEF Facts, LocalOK, Trying, LocalTypes, AccountState
  <2>3. /\ LocalTypes' /\ pc'[p] = "backoff" /\ attempt'[p] = attempt[p] + 1
        /\ \A q \in Procs \ {p} : Same(q)
    BY <1>1, <2>1, <2>2 DEF Facts, LocalTypes, Same, Steps
  <2>4. LocalOK(p)'
    BY <1>1, <1>3, <2>1, <2>3 DEF Facts, LocalOK, Trying, Reading, Written
  <2>5. last(b) \in Nat /\ DOMAIN events[b] = 1 .. last(b)
    BY <1>1 DEF Facts, TypeOK, LedgerInv, VersionsContiguous, last
  <2>6. acc[p].version < last(b)
    <3>1. PICK i \in DOMAIN batch[p] : batch[p][i].version \in DOMAIN events[b]
      BY <1>1 DEF UniqueViolation
    <3>2. batch[p][i].version = acc[p].version + i
      BY <1>1 DEF WellFormed
    <3>3. batch[p] \in Seq(Event)
      BY <1>1 DEF Facts, LocalTypes
    <3>4. i \in Nat /\ i >= 1
      BY <3>1, <3>3
    <3> QED BY <2>2, <2>5, <3>1, <3>2, <3>4
  <2>7. ConflictsOf(p)'
    <3>1. UNCHANGED events
      BY <1>1 DEF tables
    <3> QED BY <2>1, <2>2, <2>3, <2>5, <2>6, <3>1 DEF ConflictsOf, Written, last
  <2>8. published' \in [AccountIds -> Nat]
    BY <1>1 DEF Facts, TableTypes
  <2> QED BY <1>1, <2>3, <2>4, <2>7, <2>8, QuietStep
<1> QED
  BY <1>2, <1>3

\* A crash keeps the tables and forgets every command.
LEMMA CrashKeeps ==
  ASSUME IInv, Crash
  PROVE  IInv'
<1>1. UNCHANGED events /\ UNCHANGED snapshots
  BY DEF Crash, tables
<1>2. TypeOK'
  <2>1. TableTypes /\ maxRetries \in Nat
    BY TypeOKParts, CommandSideAssumption DEF IInv
  <2>2. TableTypes'
    BY <1>1, <2>1 DEF Crash, TableTypes
  <2>3. LocalTypes'
    BY <2>1, EmptyAccountType DEF Crash, LocalTypes, Replies
  <2> QED BY <2>2, <2>3, TypeOKParts, PTL
<1>3. LedgerInv' /\ SnapshotsFaithful'
  BY <1>1, QuietTables
<1>4. ConflictsMeanProgress'
  BY DEF Crash, ConflictsMeanProgress
<1>5. LocalsConsistent'
  BY DEF Crash, LocalsConsistent, LocalOK, Trying, Reading, Written
<1> QED
  BY <1>2, <1>3, <1>4, <1>5 DEF IInv, LedgerInv

\* The invariant holds of the empty tables.
LEMMA InitIInv == Init => IInv
<1> SUFFICES ASSUME Init PROVE IInv
  OBVIOUS
<1>1. \A a \in AccountIds : events[a] = NoRows /\ DOMAIN events[a] = {}
  BY DEF Init, NoRows
<1>2. \A a \in AccountIds : LastVersion(events[a]) = 0
  BY <1>1 DEF LastVersion
<1>3. TypeOK
  <2>1. maxRetries \in Nat
    BY CommandSideAssumption
  <2> QED BY <1>1, <1>2, <2>1, EmptyAccountType DEF Init, TypeOK
<1>4. VersionsContiguous /\ StreamsWellFormed /\ NoOverdraft
  BY <1>1, <1>2 DEF VersionsContiguous, StreamsWellFormed, NoOverdraft
<1>5. SnapshotsFaithful
  <2>1. ASSUME NEW a \in AccountIds PROVE StateAt(a, 0) = EmptyAccount
    <3>1. Stream(a, events[a], 0)
      BY <1>1 DEF Stream
    <3> QED BY <3>1, FirstState, StateAtIsStates
  <2>2. EmptyAccount.version = 0
    BY DEF EmptyAccount
  <2> QED BY <2>1, <2>2 DEF Init, SnapshotsFaithful
<1>6. ConflictsMeanProgress
  BY DEF Init, ConflictsMeanProgress
<1>7. LocalsConsistent
  BY DEF Init, LocalsConsistent, LocalOK, Trying, Reading, Written
<1> QED
  BY <1>3, <1>4, <1>5, <1>6, <1>7 DEF IInv

\* Every step of every process, and a crash, keeps the invariant.
LEMMA NextIInv == IInv /\ [Next]_vars => IInv'
<1> SUFFICES ASSUME IInv, [Next]_vars PROVE IInv'
  OBVIOUS
<1>1. ASSUME NEW p \in Procs, NEW c \in Requests, Begin(p, c) PROVE IInv'
  BY <1>1, BeginKeeps
<1>2. ASSUME NEW p \in Procs, Step(p) PROVE IInv'
  BY <1>2, OpenKeeps, CheckKeeps, ReadSnapshotKeeps, LoadEventsKeeps,
     AppendOkKeeps, AppendAckLostKeeps, AppendConflictKeeps, BackoffKeeps,
     FailKeeps, SaveLoadEventsKeeps, SaveUpsertKeeps, SaveFailKeeps,
     PublishKeeps DEF Step
<1>3. CASE Crash
  BY <1>3, CrashKeeps
<1>4. CASE UNCHANGED vars
  BY <1>4 DEF vars, tables, locals, IInv, TypeOK, VersionsContiguous,
     StreamsWellFormed, NoOverdraft, SnapshotsFaithful, ConflictsMeanProgress,
     LocalsConsistent, LocalOK, Trying, Reading, Written, IsPastState, StateAt
<1> QED
  BY <1>1, <1>2, <1>3, <1>4 DEF Next

\* The invariant holds in every reachable state of the command side.
THEOREM CommandSideInvariant == Spec => []IInv
BY InitIInv, NextIInv, PTL DEF Spec

\* TypeOK, for every instance: the tables and the locals of every command keep
\* their types through conflicts, failures, lost answers and crashes.
THEOREM CommandSideTypeOK == Spec => []TypeOK
BY CommandSideInvariant, PTL DEF IInv

\* No prefix of any stream is overdrawn, however many commands run at once
\* (app.go:122-125, README guarantee 1).
THEOREM NeverOverdrawn == Spec => []NoOverdraft
BY CommandSideInvariant, PTL DEF IInv

\* Streams have no gaps although Append only relies on UNIQUE (postgres.go:16-18).
THEOREM StreamsHaveNoGaps == Spec => []VersionsContiguous
BY CommandSideInvariant, PTL DEF IInv

\* A snapshot is always a state of the account's history (postgres.go:114-131).
THEOREM SnapshotsAreHistory == Spec => []SnapshotsFaithful
BY CommandSideInvariant, PTL DEF IInv

\* Every conflict of a command is an event that others committed to its account
\* since it began, so it runs out of attempts only when maxRetries commits got in
\* ahead of it (app.go:18-21, app.go:127-151).
THEOREM ConflictsAreProgress == Spec => []ConflictsMeanProgress
BY CommandSideInvariant, PTL DEF IInv

\* A command decides on a state the account really had, and inserts exactly what
\* it decided on it (app.go:127-136).
THEOREM CommandsHoldHistory == Spec => []LocalsConsistent
BY CommandSideInvariant, PTL DEF IInv

\* The WHERE of the upsert keeps a slow saveSnapshot from undoing a newer one.
THEOREM SnapshotsNeverRegress == Spec => SnapshotsMonotone
<1> DEFINE Forward == \A a \in AccountIds : snapshots'[a].version >= snapshots[a].version
<1>1. ASSUME IInv, [Next]_vars PROVE [Forward]_vars
  <2>1. \A a \in AccountIds : snapshots[a].version \in Nat
    BY <1>1 DEF IInv, TypeOK, AccountState
  <2>2. CASE UNCHANGED snapshots
    BY <2>1, <2>2
  <2>3. ASSUME NEW p \in Procs, SaveUpsert(p) PROVE Forward
    <3>1. \A b \in AccountIds :
            Upsert(snapshots[b], acc[p]).version >= snapshots[b].version
      <4>1. acc[p].version \in Nat
        BY <1>1, <2>3 DEF IInv, TypeOK, AccountState
      <4> QED BY <2>1, <4>1 DEF Upsert
    <3>2. snapshots \in [AccountIds -> AccountState]
      BY <1>1 DEF IInv, TypeOK
    <3> QED BY <2>1, <2>3, <3>1, <3>2 DEF SaveUpsert
  <2>4. ASSUME NEW p \in Procs, NEW c \in Requests, Begin(p, c)
        PROVE  UNCHANGED snapshots
    BY <2>4 DEF Begin, tables
  <2>5. ASSUME NEW p \in Procs, Step(p)
        PROVE  SaveUpsert(p) \/ UNCHANGED snapshots
    BY <2>5 DEF Step, Open, Check, LoadSnapshot, LoadEvents, AppendOk,
       AppendAckLost, Commit, AppendConflict, Backoff, Fail, SaveLoadSnapshot,
       SaveLoadEvents, SaveFail, Publish, tables
  <2>6. Crash \/ UNCHANGED vars => UNCHANGED snapshots
    BY DEF Crash, vars, tables
  <2> HIDE DEF Forward
  <2> QED
    BY <1>1, <2>2, <2>3, <2>4, <2>5, <2>6 DEF Next
<1> QED
  BY <1>1, CommandSideInvariant, PTL DEF Spec, SnapshotsMonotone


-----------------------------------------------------------------------------
(***************************************************************************)
(* Every command ends                                                      *)
(***************************************************************************)
\* A decision is one event, or two for an opening with a deposit.
LEMMA DecisionSize ==
  ASSUME NEW x, NEW c, Decide(x, c).err = "nil"
  PROVE  /\ Len(Decide(x, c).events) \in {1, 2}
         /\ c.op # "open" => Len(Decide(x, c).events) = 1
<1>1. \A e, f : Len(<<e>>) = 1 /\ Len(<<e, f>>) = 2
  OBVIOUS
<1>2. CASE c.op = "open"
  <2>1. PICK e, f : DecideOpen(c).err = "nil" =>
          DecideOpen(c).events = <<e>> \/ DecideOpen(c).events = <<e, f>>
    <3> DEFINE o == OpenAccount(c.account, c.owner)
               d == Deposit(Apply(EmptyAccount, o.event), c.amount)
    <3>1. \/ DecideOpen(c) = Decided(<<o.event>>)
          \/ DecideOpen(c) = Decided(<<o.event, d.event>>)
          \/ DecideOpen(c) = Declined("ErrInvalidAmount")
          \/ o.err # "nil" /\ DecideOpen(c) = Declined(o.err)
          \/ d.err # "nil" /\ DecideOpen(c) = Declined(d.err)
      BY DEF DecideOpen
    <3> HIDE DEF o, d
    <3> QED BY <3>1 DEF Decided, Declined
  <2> QED BY <1>1, <1>2, <2>1 DEF Decide
<1>3. CASE c.op # "open"
  <2>1. PICK d : d = DecideOn(x, c)
    OBVIOUS
  <2>2. Decide(x, c) = IF d.err # "nil" THEN Declined(d.err) ELSE Decided(<<d.event>>)
    BY <1>3, <2>1 DEF Decide
  <2>3. Decide(x, c).events = <<d.event>>
    BY <2>2 DEF Declined, Decided
  <2> QED BY <1>1, <2>3
<1> QED BY <1>2, <1>3

\* What StepsLeft is at each place.
Ranked(p) ==
  LET left == 4 * (maxRetries - attempt[p])
      n    == Len(batch[p])
  IN  /\ attempt[p] \in 0 .. maxRetries /\ n \in Nat
      /\ pc[p] \in Steps \cup {"idle"}
      /\ pc[p] = "idle"             => StepsLeft(p) = 0
      /\ pc[p] = "publish"          => StepsLeft(p) = n /\ n > 0
      /\ pc[p] = "saveUpsert"       => StepsLeft(p) = n + 1
      /\ pc[p] = "saveLoadEvents"   => StepsLeft(p) = n + 2
      /\ pc[p] = "saveLoadSnapshot" => StepsLeft(p) = n + 3
      /\ pc[p] = "append"           => StepsLeft(p) = left + n + 4 /\ n > 0
      /\ pc[p] = "loadEvents"       => StepsLeft(p) = left + 6
      /\ pc[p] = "loadSnapshot"     => StepsLeft(p) = left + 7
      /\ pc[p] \in {"check", "open"} => StepsLeft(p) = 4 * maxRetries + 8
      /\ pc[p] = "backoff"          => StepsLeft(p) = left + 8

\* The invariant gives every command its rank.
LEMMA Ranking == IInv => \A p \in Procs : Ranked(p)
<1> SUFFICES ASSUME IInv, NEW p \in Procs PROVE Ranked(p)
  OBVIOUS
<1>1. Facts(p)
  BY FactsOf
<1>2. PICK s, b, k, n : s = pc[p] /\ b = batch[p] /\ k = attempt[p] /\ n = Len(b)
  OBVIOUS
<1>3. s \in Steps \cup {"idle"} /\ b \in Seq(Event) /\ k \in 0 .. maxRetries
  BY <1>1, <1>2 DEF Facts, LocalTypes
<1>4. n \in Nat /\ (b # <<>> => n > 0)
  BY <1>2, <1>3, EmptySeq, LenProperties
<1>5. s \in {"publish", "append"} => b # <<>>
  BY <1>1, <1>2, HeldBatch DEF Facts, LocalOK, Written
<1>6. /\ s = "idle"             => StepsLeft(p) = 0
      /\ s = "publish"          => StepsLeft(p) = n
      /\ s = "saveUpsert"       => StepsLeft(p) = n + 1
      /\ s = "saveLoadEvents"   => StepsLeft(p) = n + 2
      /\ s = "saveLoadSnapshot" => StepsLeft(p) = n + 3
      /\ s = "append"           => StepsLeft(p) = 4 * (maxRetries - k) + n + 4
      /\ s = "loadEvents"       => StepsLeft(p) = 4 * (maxRetries - k) + 6
      /\ s = "loadSnapshot"     => StepsLeft(p) = 4 * (maxRetries - k) + 7
      /\ s \in {"check", "open"} => StepsLeft(p) = 4 * maxRetries + 8
      /\ s = "backoff"          => StepsLeft(p) = 4 * (maxRetries - k) + 8
  BY <1>2 DEF StepsLeft
<1> QED BY <1>2, <1>3, <1>4, <1>5, <1>6 DEF Ranked

\* The same in the next state.
LEMMA RankingNext == IInv' => (\A p \in Procs : Ranked(p))'
BY Ranking, PTL

\* No rank but that of an idle process is zero.
LEMMA RankPositive ==
  ASSUME NEW m \in Nat, NEW k \in 0 .. m, NEW n \in Nat, NEW z,
         \/ (z = n /\ n > 0) \/ z = n + 1 \/ z = n + 2 \/ z = n + 3 \/ z = 4 * (m - k) + n + 4
         \/ z = 4 * (m - k) + 6 \/ z = 4 * (m - k) + 7 \/ z = 4 * m + 8 \/ z = 4 * (m - k) + 8
  PROVE  z > 0
OBVIOUS

\* The first attempt's rank is under that of a command just begun.
LEMMA FirstTry ==
  ASSUME NEW m \in Nat, NEW k \in 0 .. m, NEW n \in {1, 2}
  PROVE  4 * (m - k) + n + 4 < 4 * m + 8
OBVIOUS

\* p's command goes on towards its end.
Nearer(p) == StepsLeft(p)' < StepsLeft(p)

\* A command that has ended has no step left.
LEMMA EndNearer ==
  ASSUME NEW p \in Procs, Ranked(p), Ranked(p)', pc[p] # "idle", pc'[p] = "idle"
  PROVE  Nearer(p)
<1>2. StepsLeft(p)' = 0
  BY DEF Ranked
<1>3. PICK m, k, n, z : m = maxRetries /\ k = attempt[p] /\ n = Len(batch[p]) /\ z = StepsLeft(p)
  OBVIOUS
<1>4. m \in Nat /\ k \in 0 .. m /\ n \in Nat
  BY <1>3, CommandSideAssumption DEF Ranked
<1>5. \/ (z = n /\ n > 0) \/ z = n + 1 \/ z = n + 2 \/ z = n + 3 \/ z = 4 * (m - k) + n + 4
      \/ z = 4 * (m - k) + 6 \/ z = 4 * (m - k) + 7 \/ z = 4 * m + 8 \/ z = 4 * (m - k) + 8
  BY <1>3, pc[p] # "idle", Ranked(p) DEF Ranked, Steps
<1>6. z > 0
  BY <1>4, <1>5, RankPositive
<1> QED BY <1>2, <1>3, <1>6 DEF Nearer

\* Returning ends a command.
LEMMA ReturnEnds ==
  ASSUME NEW p \in Procs, pc \in [Procs -> Steps \cup {"idle"}], Ranked(p), Ranked(p)',
         pc[p] # "idle", NEW x, Return(p, x)
  PROVE  Nearer(p)
<1>1. pc'[p] = "idle"
  BY DEF Return
<1> QED BY <1>1, EndNearer

\* A decision leads to append, or ends the command.
LEMMA ProceedNearer ==
  ASSUME NEW p \in Procs, LocalTypes, Ranked(p), Ranked(p)', NEW x, Proceed(p, x),
         \/ pc[p] = "open"
         \/ pc[p] = "loadEvents" /\ cmd[p].op # "open"
  PROVE  Nearer(p)
<1>1. PICK d : d = Decide(x, cmd[p])
  OBVIOUS
<1>2. CASE d.err # "nil"
  <2>1. Return(p, d.err)
    BY <1>1, <1>2 DEF Proceed
  <2> QED BY <2>1, ReturnEnds DEF LocalTypes
<1>3. CASE d.err = "nil"
  <2>1. /\ pc'[p] = "append" /\ batch'[p] = d.events /\ attempt'[p] = attempt[p]
    BY <1>1, <1>3 DEF Proceed, Goto, LocalTypes
  <2>2. PICK n : n = Len(d.events) /\ n \in {1, 2} /\ (cmd[p].op # "open" => n = 1)
    BY <1>1, <1>3, DecisionSize
  <2>3. /\ attempt[p] \in 0 .. maxRetries /\ maxRetries \in Nat
        /\ StepsLeft(p)' = 4 * (maxRetries - attempt[p]) + n + 4
    BY <2>1, <2>2, CommandSideAssumption DEF Ranked
  <2>4. CASE pc[p] = "open"
    <3>1. StepsLeft(p) = 4 * maxRetries + 8
      BY <2>4 DEF Ranked
    <3>2. ASSUME NEW k \in 0 .. maxRetries
          PROVE  4 * (maxRetries - k) + n + 4 < 4 * maxRetries + 8
      BY <2>2, <2>3, FirstTry
    <3> QED BY <2>3, <3>1, <3>2 DEF Nearer
  <2>5. CASE pc[p] = "loadEvents" /\ n = 1
    BY <2>3, <2>5 DEF Ranked, Nearer
  <2> QED BY <2>2, <2>4, <2>5
<1> QED BY <1>2, <1>3

\* Every step of a command takes it nearer to its end.
LEMMA StepNearer ==
  ASSUME IInv, IInv', NEW p \in Procs, Step(p)
  PROVE  Nearer(p)
<1>1. Facts(p) /\ Ranked(p) /\ maxRetries \in Nat \ {0}
  BY FactsOf, Ranking, CommandSideAssumption
<1>2. Ranked(p)'
  BY RankingNext
<1>3. LocalTypes
  BY <1>1 DEF Facts
<1>4. ASSUME NEW x, Return(p, x), pc[p] # "idle" PROVE Nearer(p)
  BY <1>1, <1>2, <1>3, <1>4, ReturnEnds DEF LocalTypes
<1>5. CASE Open(p)
  BY <1>1, <1>2, <1>3, <1>5, ProceedNearer DEF Open
<1>6. CASE LoadEvents(p)
  <2>1. pc[p] = "loadEvents" /\ cmd[p].op # "open"
    BY <1>1, <1>6 DEF LoadEvents, Facts, LocalOK
  <2>2. CASE Return(p, "ErrAccountNotFound")
    BY <1>4, <2>1, <2>2
  <2>3. CASE Proceed(p, Loaded(acc[p], events[cmd[p].account]))
    BY <1>1, <1>2, <1>3, <2>1, <2>3, ProceedNearer
  <2> QED BY <1>6, <2>2, <2>3 DEF LoadEvents
<1>7. CASE Check(p)
  <2>1. CASE Goto(p, "loadSnapshot") /\ UNCHANGED attempt
    <3>1. pc[p] = "check" /\ pc'[p] = "loadSnapshot" /\ attempt'[p] = attempt[p]
      BY <1>3, <1>7, <2>1 DEF Check, Goto, LocalTypes
    <3> QED BY <1>1, <1>2, <3>1 DEF Ranked, Nearer
  <2> QED BY <1>4, <1>7, <2>1 DEF Check
<1>8. CASE Backoff(p)
  <2>1. CASE Goto(p, "loadSnapshot") /\ UNCHANGED attempt
    <3>1. pc[p] = "backoff" /\ pc'[p] = "loadSnapshot" /\ attempt'[p] = attempt[p]
      BY <1>3, <1>8, <2>1 DEF Backoff, Goto, LocalTypes
    <3> QED BY <1>1, <1>2, <3>1 DEF Ranked, Nearer
  <2> QED BY <1>4, <1>8, <2>1 DEF Backoff
<1>9. CASE Fail(p)
  BY <1>4, <1>9 DEF Fail
<1>10. CASE LoadSnapshot(p)
  <2>1. pc[p] = "loadSnapshot" /\ pc'[p] = "loadEvents" /\ attempt'[p] = attempt[p]
    BY <1>3, <1>10 DEF LoadSnapshot, Goto, LocalTypes
  <2> QED BY <1>1, <1>2, <2>1 DEF Ranked, Nearer
<1>11. CASE AppendOk(p)
  <2>1. /\ pc[p] = "append" /\ pc'[p] \in {"saveLoadSnapshot", "publish"}
        /\ batch'[p] = batch[p]
    BY <1>3, <1>11 DEF AppendOk, Commit, Goto, LocalTypes
  <2> QED BY <1>1, <1>2, <2>1 DEF Ranked, Nearer
<1>12. CASE AppendAckLost(p)
  BY <1>4, <1>12 DEF AppendAckLost, Commit
<1>13. CASE AppendConflict(p)
  <2>1. pc[p] = "append"
    BY <1>13 DEF AppendConflict
  <2>2. CASE Return(p, "error")
    BY <1>4, <2>1, <2>2
  <2>3. CASE Goto(p, "backoff") /\ attempt' = [attempt EXCEPT ![p] = @ + 1]
    <3>1. pc'[p] = "backoff" /\ attempt'[p] = attempt[p] + 1
      BY <1>3, <2>3 DEF Goto, LocalTypes
    <3>2. PICK k, n, m : k = attempt[p] /\ n = Len(batch[p]) /\ m = maxRetries
      OBVIOUS
    <3>3. /\ k \in Int /\ n \in Nat /\ n > 0 /\ m \in Int
          /\ StepsLeft(p) = 4 * (m - k) + n + 4
      BY <1>1, <2>1, <3>2 DEF Ranked
    <3>4. StepsLeft(p)' = 4 * (m - (k + 1)) + 8
      BY <1>2, <3>1, <3>2 DEF Ranked
    <3>5. 4 * (m - (k + 1)) + 8 < 4 * (m - k) + n + 4
      BY <3>3
    <3> QED BY <3>3, <3>4, <3>5 DEF Nearer
  <2> QED BY <1>13, <2>2, <2>3 DEF AppendConflict
<1>14. CASE SaveLoadSnapshot(p)
  <2>1. pc[p] = "saveLoadSnapshot" /\ pc'[p] = "saveLoadEvents" /\ batch'[p] = batch[p]
    BY <1>3, <1>14 DEF SaveLoadSnapshot, Goto, LocalTypes
  <2> QED BY <1>1, <1>2, <2>1 DEF Ranked, Nearer
<1>15. CASE SaveLoadEvents(p)
  <2>1. /\ pc[p] = "saveLoadEvents" /\ pc'[p] \in {"saveUpsert", "publish"}
        /\ batch'[p] = batch[p]
    BY <1>3, <1>15 DEF SaveLoadEvents, Goto, LocalTypes
  <2> QED BY <1>1, <1>2, <2>1 DEF Ranked, Nearer
<1>16. CASE SaveUpsert(p)
  <2>1. pc[p] = "saveUpsert" /\ pc'[p] = "publish" /\ batch'[p] = batch[p]
    BY <1>3, <1>16 DEF SaveUpsert, Goto, LocalTypes
  <2> QED BY <1>1, <1>2, <2>1 DEF Ranked, Nearer
<1>17. CASE SaveFail(p)
  <2>1. /\ pc[p] \in {"saveLoadSnapshot", "saveLoadEvents", "saveUpsert"}
        /\ pc'[p] = "publish" /\ batch'[p] = batch[p]
    BY <1>3, <1>17 DEF SaveFail, Goto, LocalTypes
  <2> QED BY <1>1, <1>2, <2>1 DEF Ranked, Nearer
<1>18. CASE Publish(p)
  <2>1. pc[p] = "publish"
    BY <1>18 DEF Publish
  <2>2. CASE Return(p, "nil")
    BY <1>4, <2>1, <2>2
  <2>3. CASE batch' = [batch EXCEPT ![p] = Tail(@)] /\ UNCHANGED pc
    <3>1. PICK b : b = batch[p] /\ b \in Seq(Event) /\ Len(b) > 0
      BY <1>1, <1>3, <2>1 DEF LocalTypes, Ranked
    <3>2. Len(Tail(b)) = Len(b) - 1 /\ Len(b) \in Nat
      BY <3>1
    <3>3. pc'[p] = "publish" /\ batch'[p] = Tail(b)
      BY <1>3, <2>1, <2>3, <3>1 DEF LocalTypes
    <3>4. StepsLeft(p)' = Len(b) - 1 /\ StepsLeft(p) = Len(b)
      BY <1>1, <1>2, <2>1, <3>1, <3>2, <3>3 DEF Ranked
    <3> QED BY <3>2, <3>4 DEF Nearer
  <2> QED BY <1>18, <2>2, <2>3 DEF Publish
<1> QED BY <1>5, <1>6, <1>7, <1>8, <1>9, <1>10, <1>11, <1>12, <1>13, <1>14, <1>15, <1>16,
           <1>17, <1>18, Step(p) DEF Step


\* A step of p leaves the commands of the others alone.
LEMMA OthersSame ==
  ASSUME LocalTypes, NEW p \in Procs, NEW q \in Procs, q # p,
         \/ Step(p)
         \/ \E c \in Requests : Begin(p, c)
  PROVE  Same(q)
<1>1. ASSUME NEW x, Return(p, x) PROVE Same(q)
  BY <1>1 DEF Return, Same, LocalTypes
<1>2. ASSUME NEW x, Proceed(p, x) PROVE Same(q)
  BY <1>1, <1>2 DEF Proceed, Goto, Same, LocalTypes
<1>3. CASE \E c \in Requests : Begin(p, c)
  BY <1>3 DEF Begin, Same, LocalTypes
<1>4. CASE Open(p) \/ LoadEvents(p)
  BY <1>1, <1>2, <1>4 DEF Open, LoadEvents
<1>5. CASE Check(p) \/ Backoff(p)
  BY <1>1, <1>5 DEF Check, Backoff, Goto, Same, LocalTypes
<1>6. CASE Fail(p) \/ AppendAckLost(p)
  BY <1>1, <1>6 DEF Fail, AppendAckLost
<1>7. CASE LoadSnapshot(p) \/ SaveLoadSnapshot(p)
  BY <1>7 DEF LoadSnapshot, SaveLoadSnapshot, Goto, Same, LocalTypes
<1>8. CASE AppendOk(p)
  BY <1>8 DEF AppendOk, Goto, Same, LocalTypes
<1>9. CASE AppendConflict(p)
  BY <1>1, <1>9 DEF AppendConflict, Goto, Same, LocalTypes
<1>10. CASE SaveLoadEvents(p)
  BY <1>10 DEF SaveLoadEvents, Goto, Same, LocalTypes
<1>11. CASE SaveUpsert(p) \/ SaveFail(p)
  BY <1>11 DEF SaveUpsert, SaveFail, Goto, Same, LocalTypes
<1>12. CASE Publish(p)
  BY <1>1, <1>12 DEF Publish, Same, LocalTypes
<1> QED BY <1>3, <1>4, <1>5, <1>6, <1>7, <1>8, <1>9, <1>10, <1>11, <1>12 DEF Step

\* A running command only moves towards its return: whatever conflicts, failures
\* and other commands it meets, mutate's loop is over after maxRetries attempts
\* (app.go:127-151).
THEOREM CommandsEnd == Spec => CommandsTerminate
<1> DEFINE Onward == \A p \in Procs :
                       pc[p] # "idle" =>
                         \/ UNCHANGED <<pc[p], cmd[p], acc[p], batch[p], attempt[p]>>
                         \/ StepsLeft(p)' < StepsLeft(p)
<1>1. ASSUME IInv, IInv', [Next]_vars PROVE [Onward]_vars
  <2> SUFFICES ASSUME Next, NEW p \in Procs, pc[p] # "idle" PROVE Same(p) \/ Nearer(p)
    BY <1>1 DEF Same, Nearer
  <2>1. LocalTypes
    BY <1>1, FactsOf DEF Facts
  <2>2. ASSUME NEW q \in Procs, \/ Step(q)
                                \/ \E c \in Requests : Begin(q, c)
        PROVE  Same(p) \/ Nearer(p)
    <3>1. CASE q # p
      BY <2>1, <2>2, <3>1, OthersSame
    <3>2. CASE q = p
      <4>1. Step(p)
        BY <2>2, <3>2 DEF Begin
      <4> QED BY <1>1, <4>1, StepNearer
    <3> QED BY <3>1, <3>2
  <2>3. CASE Crash
    <3>1. pc'[p] = "idle"
      BY <2>3 DEF Crash
    <3>2. Ranked(p) /\ Ranked(p)'
      BY <1>1, Ranking, RankingNext
    <3> QED BY <3>1, <3>2, EndNearer
  <2> QED BY <2>2, <2>3 DEF Next
<1> QED
  BY <1>1, CommandSideInvariant, PTL DEF Spec, CommandsTerminate

-----------------------------------------------------------------------------
(***************************************************************************)
(* The ledger the tables stand for                                         *)
(***************************************************************************)
RowSet(r) == {r[v] : v \in DOMAIN r}

\* The amounts of rows are integers, so they can be summed.
LEMMA RowsSum ==
  ASSUME NEW a, NEW r, NEW n, Stream(a, r, n)
  PROVE  /\ RowSet(r) \subseteq Event /\ IsFiniteSet(RowSet(r))
         /\ \A e \in Event : Change[e] = Delta(e) /\ Change[e] \in Int
<1>1. n \in Nat /\ DOMAIN r = 1 .. n /\ \A v \in 1 .. n : r[v] \in Event
  BY DEF Stream
<1>2. RowSet(r) \subseteq Event
  BY <1>1 DEF RowSet
<1>3. IsFiniteSet(RowSet(r))
  <2> DEFINE S == 1 .. n
             f == [v \in S |-> r[v]]
  <2>1. IsFiniteSet(S)
    BY <1>1, FS_Interval
  <2>2. f \in Surjection(S, RowSet(r))
    BY <1>1 DEF Surjection, RowSet
  <2> HIDE DEF S, f
  <2> QED BY <2>1, <2>2, FS_Surjection
<1>4. ASSUME NEW e \in Event PROVE Change[e] = Delta(e) /\ Change[e] \in Int
  <2>1. Change[e] = Delta(e)
    BY DEF Change
  <2>2. e.amount \in Int
    BY DEF Event
  <2> QED BY <2>1, <2>2 DEF Delta
<1> QED BY <1>2, <1>3, <1>4

First(r, m) == {r[v] : v \in 1 .. m}

\* What the rows of a stream add up to is the balance of its last state.
LEMMA SumOfStream ==
  ASSUME NEW a \in AccountIds, NEW r, NEW n, Stream(a, r, n)
  PROVE  Total(Change, RowSet(r)) = States(r)[n].balance
<1> DEFINE A == States(r)
           T == {m \in 0 .. n : Total(Change, First(r, m)) # A[m].balance}
<1>1. /\ A \in [Nat -> AccountState] /\ A[0] = EmptyAccount
      /\ \A m \in Nat : A[m + 1] = Turn(r, A[m], m + 1)
  BY AccumulatedIsTheLoop, EmptyAccountType, StreamRows DEF States
<1>2. n \in Nat /\ DOMAIN r = 1 .. n
  BY DEF Stream
<1> HIDE DEF A
<1>3. T = {}
  <2> SUFFICES ASSUME T # {} PROVE FALSE
    OBVIOUS
  <2>1. PICK m \in T : \A x \in T : m <= x
    <3>1. T \subseteq Nat
      BY <1>2
    <3> HIDE DEF T
    <3> QED BY <3>1, LeastNat
  <2>2. m # 0
    <3>1. First(r, 0) = {}
      BY DEF First
    <3>2. A[0].balance = 0
      BY <1>1 DEF EmptyAccount
    <3>3. Total(Change, First(r, 0)) = 0
      BY <3>1, TotalEmpty
    <3> QED BY <2>1, <3>2, <3>3
  <2>3. PICK k \in Nat : k = m - 1 /\ k \notin T /\ k + 1 = m /\ m \in 1 .. n /\ k \in 0 .. n
    BY <1>2, <2>1, <2>2
  <2>4. Total(Change, First(r, k)) = A[k].balance
    BY <2>3
  <2>5. r[m] \in Event /\ A[m] = Apply(A[k], r[m]) /\ A[k] \in AccountState
    BY <1>1, <2>3 DEF Turn, Stream
  <2>6. A[m].balance = A[k].balance + Delta(r[m])
    BY <2>5, ApplyType
  <2>7. First(r, m) = First(r, k) \cup {r[m]}
    <3>1. 1 .. m = (1 .. k) \cup {m}
      BY <2>3
    <3> QED BY <3>1 DEF First
  <2>8. r[m] \notin First(r, k)
    <3>1. \A v \in 1 .. n : r[v].version = v
      BY DEF Stream
    <3>2. \A v \in 1 .. k : v \in 1 .. n /\ v # m
      BY <1>2, <2>3
    <3> QED BY <2>3, <3>1, <3>2 DEF First
  <2>9. First(r, k) \subseteq RowSet(r) /\ First(r, m) \subseteq RowSet(r)
    <3>1. 1 .. k \subseteq DOMAIN r /\ 1 .. m \subseteq DOMAIN r
      BY <1>2, <2>3
    <3> QED BY <3>1 DEF First, RowSet
  <2>10. /\ IsFiniteSet(First(r, k)) /\ Integral(Change, First(r, k) \cup {r[m]})
         /\ Change[r[m]] = Delta(r[m]) /\ Delta(r[m]) \in Int
    BY <2>5, <2>7, <2>9, RowsSum, FS_Subset DEF Integral
  <2>11. Total(Change, First(r, m)) = Change[r[m]] + Total(Change, First(r, k))
    BY <2>7, <2>8, <2>10, TotalAdd
  <2>12. A[k].balance \in Int
    BY <2>5 DEF AccountState
  <2> QED BY <2>1, <2>4, <2>6, <2>10, <2>11, <2>12
<1>4. First(r, n) = RowSet(r)
  BY <1>2 DEF First, RowSet
<1>5. Total(Change, First(r, n)) = A[n].balance
  BY <1>2, <1>3
<1> QED BY <1>4, <1>5 DEF A

-----------------------------------------------------------------------------
(***************************************************************************)
(* What a command writes                                                   *)
(***************************************************************************)
TransferOps   == {"debit", "credit", "reverse"}
TransferTypes == {"transfer.debited", "transfer.credited", "transfer.reversed"}

\* e is what the command c writes of a transfer, if anything.
Carries(c, e) ==
  /\ c.op \in TransferOps => /\ e.type \in TransferTypes /\ Operation(e.type) = c.op
                             /\ e.transfer_id = c.transfer_id
  /\ c.op \notin TransferOps => e.type \notin TransferTypes /\ e.transfer_id = NoId

\* The only event of a command other than open.
LEMMA MutateWrites ==
  ASSUME NEW x \in AccountState, NEW c \in Command, c.op # "open", Decide(x, c).err = "nil"
  PROVE  \E e : /\ Decide(x, c).events = <<e>>
                /\ Carries(c, e)
                /\ Delta(e) = Ledger!Added(c)
<1>1. PICK d : d = DecideOn(x, c)
  OBVIOUS
<1>2. Decide(x, c) = IF d.err # "nil" THEN Declined(d.err) ELSE Decided(<<d.event>>)
  BY <1>1 DEF Decide
<1>3. d.err = "nil" /\ Decide(x, c).events = <<d.event>>
  BY <1>2 DEF Declined, Decided
<1>4. /\ c.op \in {"deposit", "withdraw", "debit", "credit", "reverse"} /\ c.amount \in Int
  BY DEF Command
<1>5. PICK type, t, b : /\ d.event = NewEvent(x.id, x.version + 1, type, c.amount, t, b)
                        /\ c.op = "deposit"  => type = "money.deposited" /\ t = NoId
                        /\ c.op = "withdraw" => type = "money.withdrawn" /\ t = NoId
                        /\ c.op = "debit"    => type = "transfer.debited" /\ t = c.transfer_id
                        /\ c.op = "credit"   => type = "transfer.credited" /\ t = c.transfer_id
                        /\ c.op = "reverse"  => type = "transfer.reversed" /\ t = c.transfer_id
  <2>1. CASE c.op = "deposit"
    BY <1>1, <1>3, <2>1 DEF DecideOn, Deposit, Refuse, Accept
  <2>2. CASE c.op = "withdraw"
    BY <1>1, <1>3, <2>2 DEF DecideOn, Withdraw, Refuse, Accept
  <2>3. CASE c.op = "debit"
    BY <1>1, <1>3, <2>3 DEF DecideOn, DebitTransfer, Refuse, Accept
  <2>4. CASE c.op = "credit"
    BY <1>1, <1>3, <2>4 DEF DecideOn, CreditTransfer, Refuse, Accept
  <2>5. CASE c.op = "reverse"
    BY <1>1, <1>3, <2>5 DEF DecideOn, ReverseTransfer, Refuse, Accept
  <2> QED BY <1>4, <2>1, <2>2, <2>3, <2>4, <2>5
<1>6. PICK e : e = d.event /\ e.type = type /\ e.transfer_id = t /\ e.amount = c.amount
  BY <1>5 DEF NewEvent
<1>7. Carries(c, e)
  BY <1>4, <1>5, <1>6 DEF Carries, TransferOps, TransferTypes, Operation
<1>8. Delta(e) = Ledger!Added(c)
  BY <1>4, <1>5, <1>6 DEF Delta, Ledger!Added
<1> QED BY <1>3, <1>6, <1>7, <1>8

\* An opening writes nothing of a transfer, and its amount as a deposit.
LEMMA OpenWrites ==
  ASSUME NEW x, NEW c \in Command, c.op = "open", Decide(x, c).err = "nil"
  PROVE  \E o, d :
           /\ Carries(c, o) /\ Delta(o) = 0
           /\ \/ Decide(x, c).events = <<o>> /\ Ledger!Added(c) = 0
              \/ /\ Decide(x, c).events = <<o, d>> /\ Carries(c, d)
                 /\ Delta(d) = Ledger!Added(c)
<1> DEFINE f == OpenAccount(c.account, c.owner)
           y == Apply(EmptyAccount, f.event)
           g == Deposit(y, c.amount)
<1>1. c.amount \in Int /\ Ledger!Added(c) = c.amount
  BY DEF Command, Ledger!Added
<1>2. \/ c.amount = 0 /\ f.err = "nil" /\ Decide(x, c) = Decided(<<f.event>>)
      \/ /\ f.err = "nil" /\ g.err = "nil"
         /\ Decide(x, c) = Decided(<<f.event, g.event>>)
  <2>1. \/ c.amount = 0 /\ f.err = "nil" /\ DecideOpen(c) = Decided(<<f.event>>)
        \/ /\ f.err = "nil" /\ g.err = "nil"
           /\ DecideOpen(c) = Decided(<<f.event, g.event>>)
        \/ DecideOpen(c) = Declined("ErrInvalidAmount")
        \/ f.err # "nil" /\ DecideOpen(c) = Declined(f.err)
        \/ g.err # "nil" /\ DecideOpen(c) = Declined(g.err)
    BY DEF DecideOpen
  <2>2. Decide(x, c) = DecideOpen(c)
    BY DEF Decide
  <2> HIDE DEF f, g
  <2> QED BY <2>1, <2>2 DEF Declined
<1>3. f.err = "nil" => f.event = NewEvent(c.account, 1, "account.opened", 0, NoId, NoId)
  BY DEF OpenAccount, Refuse, Accept
<1> HIDE DEF f, y
<1>4. g.err = "nil" => g.event = NewEvent(y.id, y.version + 1, "money.deposited",
                                          c.amount, NoId, NoId)
  BY DEF Deposit, Refuse, Accept
<1> HIDE DEF g
<1>5. PICK o, d : o = f.event /\ d = g.event
  OBVIOUS
<1>6. Carries(c, o) /\ Delta(o) = 0
  BY <1>2, <1>3, <1>5 DEF Carries, TransferOps, TransferTypes, NewEvent, Delta
<1>7. g.err = "nil" => Carries(c, d) /\ Delta(d) = c.amount
  BY <1>4, <1>5 DEF Carries, TransferOps, TransferTypes, NewEvent, Delta
<1> QED BY <1>1, <1>2, <1>5, <1>6, <1>7 DEF Decided

\* Rows with the versions that follow a stream are not in it, and add to its sum.
LEMMA NewRowAdds ==
  ASSUME NEW a, NEW r, NEW n, Stream(a, r, n), NEW S, S \subseteq Event, IsFiniteSet(S),
         NEW e \in Event, e \notin S
  PROVE  /\ Total(Change, S \cup {e}) = Total(Change, S) + Delta(e)
         /\ Total(Change, S) \in Int
<1>1. \A x \in Event : Change[x] = Delta(x) /\ Change[x] \in Int
  BY RowsSum
<1>2. Integral(Change, S) /\ Integral(Change, S \cup {e})
  BY <1>1 DEF Integral
<1>3. Total(Change, S \cup {e}) = Change[e] + Total(Change, S) /\ Total(Change, S) \in Int
  BY <1>2, TotalAdd, TotalType
<1> QED BY <1>1, <1>3

\* The rows after an INSERT.
LEMMA InsertedRows ==
  ASSUME NEW a \in AccountIds, NEW r, NEW n, Stream(a, r, n),
         NEW evs \in Seq(Event), WellFormed(a, n, evs)
  PROVE  RowSet(Insert(r, evs)) = RowSet(r) \cup RowSet(evs)
<1>1. n \in Nat /\ DOMAIN r = 1 .. n
  BY DEF Stream
<1>2. PICK l \in Nat : l = Len(evs) /\ DOMAIN evs = 1 .. l
  OBVIOUS
<1>3. PICK s : s = Insert(r, evs)
  OBVIOUS
<1>4. s = [v \in 1 .. n + l |-> IF v <= n THEN r[v] ELSE evs[v - n]]
  <2>1. Insert(r, evs) = [v \in 1 .. n + Len(evs) |-> IF v <= n THEN r[v] ELSE evs[v - n]]
    BY InsertExtends
  <2> QED BY <1>2, <1>3, <2>1
<1>5. RowSet(s) = RowSet(r) \cup RowSet(evs)
  <2>1. ASSUME NEW v \in 1 .. n + l PROVE s[v] \in RowSet(r) \cup RowSet(evs)
    <3>1. CASE v <= n
      <4>1. v \in 1 .. n /\ s[v] = r[v]
        BY <1>1, <1>4, <3>1
      <4> QED BY <1>1, <4>1 DEF RowSet
    <3>2. CASE ~(v <= n)
      <4>1. v - n \in 1 .. l /\ s[v] = evs[v - n]
        BY <1>1, <1>4, <3>2
      <4> QED BY <1>2, <4>1 DEF RowSet
    <3> QED BY <3>1, <3>2
  <2>2. ASSUME NEW v \in 1 .. n PROVE r[v] \in RowSet(s)
    <3>1. v \in 1 .. n + l /\ v <= n
      BY <1>1
    <3> QED BY <1>4, <3>1 DEF RowSet
  <2>3. ASSUME NEW i \in 1 .. l PROVE evs[i] \in RowSet(s)
    <3>1. PICK v \in 1 .. n + l : ~(v <= n) /\ v - n = i
      <4>1. n + i \in 1 .. n + l /\ ~(n + i <= n) /\ (n + i) - n = i
        BY <1>1
      <4> QED BY <4>1
    <3>2. s[v] = evs[i] /\ v \in DOMAIN s
      BY <1>4, <3>1
    <3> QED BY <3>2 DEF RowSet
  <2>4. DOMAIN s = 1 .. n + l
    BY <1>4
  <2>5. RowSet(s) \subseteq RowSet(r) \cup RowSet(evs)
    BY <2>1, <2>4 DEF RowSet
  <2>6. RowSet(r) \subseteq RowSet(s)
    BY <1>1, <2>2 DEF RowSet
  <2>7. RowSet(evs) \subseteq RowSet(s)
    BY <1>2, <2>3 DEF RowSet
  <2> QED BY <2>5, <2>6, <2>7
<1> QED BY <1>3, <1>5

\* What the INSERT of a decision adds to the table and to the account's sum.
LEMMA InsertAdds ==
  ASSUME NEW a \in AccountIds, NEW r, NEW n, Stream(a, r, n), NEW c \in Command,
         NEW x \in AccountState, Decide(x, c).err = "nil",
         NEW evs \in Seq(Event), evs = Decide(x, c).events, WellFormed(a, n, evs)
  PROVE  /\ RowSet(Insert(r, evs)) = RowSet(r) \cup RowSet(evs)
         /\ Total(Change, RowSet(Insert(r, evs))) = Total(Change, RowSet(r)) + Ledger!Added(c)
         /\ \A e \in RowSet(evs) : Carries(c, e)
         /\ RowSet(evs) # {}
<1>1. n \in Nat /\ DOMAIN r = 1 .. n /\ \A v \in 1 .. n : r[v].version = v
  BY DEF Stream
<1>2. PICK l \in Nat : l = Len(evs) /\ DOMAIN evs = 1 .. l
  OBVIOUS
<1>3. PICK s : s = Insert(r, evs)
  OBVIOUS
<1>5. RowSet(s) = RowSet(r) \cup RowSet(evs)
  BY <1>3, InsertedRows
<1>6. \A i \in 1 .. l : evs[i] \in Event /\ evs[i].version = n + i
  BY <1>2 DEF WellFormed
<1>7. \A e \in RowSet(r) : e.version \in 1 .. n
  BY <1>1 DEF RowSet
<1>8. RowSet(r) \subseteq Event /\ IsFiniteSet(RowSet(r))
  BY RowsSum
<1>9. ASSUME NEW e, evs = <<e>>
      PROVE  /\ RowSet(evs) = {e} /\ e \in Event /\ e \notin RowSet(r)
             /\ Total(Change, RowSet(s)) = Total(Change, RowSet(r)) + Delta(e)
             /\ Total(Change, RowSet(r)) \in Int
  <2>1. l = 1 /\ evs[1] = e
    BY <1>2, <1>9
  <2>2. RowSet(evs) = {e}
    BY <1>2, <2>1 DEF RowSet
  <2>3. e \in Event /\ e.version = n + 1
    BY <1>6, <2>1
  <2>4. e \notin RowSet(r)
    BY <1>1, <1>7, <2>3
  <2> QED BY <1>5, <1>8, <2>2, <2>3, <2>4, NewRowAdds
<1>10. CASE c.op # "open"
  <2>1. PICK e : evs = <<e>> /\ Carries(c, e) /\ Delta(e) = Ledger!Added(c)
    BY <1>10, MutateWrites
  <2> QED BY <1>3, <1>5, <1>9, <2>1
<1>11. CASE c.op = "open"
  <2>1. PICK o, d : /\ Carries(c, o) /\ Delta(o) = 0
                    /\ \/ evs = <<o>> /\ Ledger!Added(c) = 0
                       \/ /\ evs = <<o, d>> /\ Carries(c, d)
                          /\ Delta(d) = Ledger!Added(c)
    BY <1>11, OpenWrites
  <2>2. CASE evs = <<o>> /\ Ledger!Added(c) = 0
    BY <1>3, <1>5, <1>9, <2>1, <2>2
  <2>3. CASE evs = <<o, d>> /\ Carries(c, d) /\ Delta(d) = Ledger!Added(c)
    <3>1. l = 2 /\ evs[1] = o /\ evs[2] = d
      BY <1>2, <2>3
    <3>2. RowSet(evs) = {o, d}
      <4>1. 1 .. 2 = {1, 2}
        OBVIOUS
      <4> QED BY <1>2, <3>1, <4>1 DEF RowSet
    <3>3. o \in Event /\ d \in Event /\ o.version = n + 1 /\ d.version = n + 2
      BY <1>6, <3>1
    <3>4. o \notin RowSet(r) /\ d \notin RowSet(r) \cup {o}
      BY <1>1, <1>7, <3>3
    <3>5. PICK S : S = RowSet(r) \cup {o} /\ S \subseteq Event /\ IsFiniteSet(S)
      <4>1. IsFiniteSet(RowSet(r) \cup {o})
        BY <1>8, FS_AddElement
      <4> QED BY <1>8, <3>3, <4>1
    <3>6. RowSet(s) = S \cup {d}
      BY <1>5, <3>2, <3>5
    <3>7. /\ Total(Change, S) = Total(Change, RowSet(r)) + Delta(o)
          /\ Total(Change, RowSet(r)) \in Int
      BY <1>8, <3>3, <3>4, <3>5, NewRowAdds
    <3>8. Total(Change, RowSet(s)) = Total(Change, S) + Delta(d)
      BY <3>3, <3>4, <3>5, <3>6, NewRowAdds
    <3> QED BY <1>3, <1>5, <2>1, <2>3, <3>2, <3>7, <3>8
  <2> QED BY <2>1, <2>2, <2>3
<1> QED BY <1>10, <1>11

\* The rules of the ledger are those of the decision on the account as it is.
LEMMA VerdictIsDecision ==
  ASSUME NEW c \in Command, NEW x \in AccountState,
         c.op # "open" => /\ c.account \in Existing
                          /\ x.id = c.account /\ x.open
                          /\ Balances[c.account] = x.balance
  PROVE  Ledger!Verdict(c) = Decide(x, c).err
<1>1. /\ c.op \in {"open", "deposit", "withdraw", "debit", "credit", "reverse"}
      /\ c.amount \in Int /\ c.account \in AccountIds /\ c.account # NoId
      /\ MaxOperationAmount \in Nat /\ x.balance \in Int
  BY AccountAssumption DEF Command, AccountState
<1>2. CASE c.op = "open"
  <2> DEFINE o == NewEvent(c.account, 1, "account.opened", 0, NoId, NoId)
             y == Apply(EmptyAccount, o)
  <2>1. y.id = c.account /\ y.open
    <3>1. o.type = "account.opened" /\ o.aggregate_id = c.account
      BY DEF NewEvent
    <3> HIDE DEF o
    <3> QED BY <3>1 DEF Apply, EmptyAccount
  <2> HIDE DEF y
  <2>2. PICK f : f = OpenAccount(c.account, c.owner)
    OBVIOUS
  <2>3. /\ c.owner => f.err = "nil" /\ Apply(EmptyAccount, f.event) = y
        /\ ~c.owner => f.err = "ErrOwnerRequired"
    BY <2>2 DEF OpenAccount, Accept, Refuse, y
  <2>4. PICK z : z = Deposit(Apply(EmptyAccount, f.event), c.amount)
    OBVIOUS
  <2>5. c.owner /\ c.amount > 0 => z.err = IF c.amount > MaxOperationAmount
                                          THEN "ErrAmountTooLarge" ELSE "nil"
    BY <1>1, <2>1, <2>3, <2>4 DEF Deposit, guard, Refuse, Accept
  <2>6. Decide(x, c).err = IF c.amount < 0 THEN "ErrInvalidAmount"
                           ELSE IF f.err # "nil" THEN f.err
                           ELSE IF c.amount = 0 THEN "nil"
                           ELSE IF z.err # "nil" THEN z.err
                           ELSE "nil"
    <3> DEFINE g == OpenAccount(c.account, c.owner)
               w == Deposit(Apply(EmptyAccount, g.event), c.amount)
    <3>1. DecideOpen(c) = IF c.amount < 0 THEN Declined("ErrInvalidAmount")
                          ELSE IF g.err # "nil" THEN Declined(g.err)
                          ELSE IF c.amount = 0 THEN Decided(<<g.event>>)
                          ELSE IF w.err # "nil" THEN Declined(w.err)
                          ELSE Decided(<<g.event, w.event>>)
      BY DEF DecideOpen
    <3>2. Decide(x, c) = DecideOpen(c)
      BY <1>2 DEF Decide
    <3>3. g = f /\ w = z
      BY <2>2, <2>4
    <3> HIDE DEF g, w
    <3> QED BY <3>1, <3>2, <3>3 DEF Declined, Decided
  <2>7. c.owner \in BOOLEAN
    BY DEF Command
  <2> QED BY <1>1, <1>2, <2>3, <2>5, <2>6, <2>7 DEF Ledger!Verdict
<1>3. CASE c.op # "open"
  <2>1. PICK d : d = DecideOn(x, c)
    OBVIOUS
  <2>2. Decide(x, c) = IF d.err # "nil" THEN Declined(d.err) ELSE Decided(<<d.event>>)
    BY <1>3, <2>1 DEF Decide
  <2>3. Decide(x, c).err = d.err
    BY <2>2 DEF Declined, Decided
  <2>4. PICK b : b = x.balance /\ Balances[c.account] = b /\ b \in Int
    BY <1>1, <1>3
  <2>5. guard(x, c.amount) = IF c.amount <= 0 THEN "ErrInvalidAmount"
                             ELSE IF c.amount > MaxOperationAmount THEN "ErrAmountTooLarge"
                             ELSE "nil"
    BY <1>1, <1>3 DEF guard
  <2>6. CASE c.op = "deposit"
    BY <1>1, <1>3, <2>1, <2>3, <2>5, <2>6
       DEF DecideOn, Deposit, Refuse, Accept, Ledger!Verdict
  <2>7. CASE c.op = "withdraw"
    BY <1>1, <1>3, <2>1, <2>3, <2>4, <2>5, <2>7
       DEF DecideOn, Withdraw, Refuse, Accept, Ledger!Verdict
  <2>8. CASE c.op = "debit"
    BY <1>1, <1>3, <2>1, <2>3, <2>4, <2>5, <2>8
       DEF DecideOn, DebitTransfer, Refuse, Accept, Ledger!Verdict
  <2>9. CASE c.op = "credit"
    BY <1>1, <1>3, <2>1, <2>3, <2>5, <2>9
       DEF DecideOn, CreditTransfer, Refuse, Accept, Ledger!Verdict
  <2>10. CASE c.op = "reverse"
    BY <1>1, <1>3, <2>1, <2>3, <2>10
       DEF DecideOn, ReverseTransfer, Refuse, Accept, Ledger!Verdict
  <2> QED BY <1>1, <1>3, <2>6, <2>7, <2>8, <2>9, <2>10
<1> QED BY <1>2, <1>3

-----------------------------------------------------------------------------
(***************************************************************************)
(* Who may write what of a transfer                                        *)
(***************************************************************************)
\* The event that a command of the saga or a debit writes.
TypeOf(op) == CASE op = "debit"   -> "transfer.debited"
                [] op = "credit"  -> "transfer.credited"
                [] op = "reverse" -> "transfer.reversed"

Has(type, t) == HasTransferEvent(events, type, t)
Moving(p)    == pc[p] # "idle" /\ cmd[p].op \in TransferOps

\* A command that has found its settlement missing, or that drew a new transfer,
\* has not been overtaken; the saga settles what was debited.
Claim(p) ==
  /\ pc[p] = "idle" => cmd[p] = NoCommand
  /\ pc[p] = "check" => cmd[p].op \in {"credit", "reverse"}
  /\ Moving(p) =>
       /\ cmd[p].transfer_id # NoId
       /\ ~Written(p) /\ pc[p] # "check" => ~Has(TypeOf(cmd[p].op), cmd[p].transfer_id)
       /\ cmd[p].op # "debit" => Has("transfer.debited", cmd[p].transfer_id)

\* Every command on a transfer has it to itself, and transfers are what bears an id.
Claims ==
  /\ \A p \in Procs : Claim(p)
  /\ \A p, q \in Procs :
       Moving(p) /\ Moving(q) /\ cmd[p].transfer_id = cmd[q].transfer_id => p = q
  /\ \A r \in AllRows(events) : r.type \in TransferTypes <=> r.transfer_id # NoId

\* How a step moves the command of p.
Turned(p) ==
  \/ pc'[p] = "idle" /\ cmd'[p] = NoCommand
  \/ /\ pc[p] # "idle" /\ pc'[p] \notin {"idle", "check"} /\ cmd'[p] = cmd[p]
     /\ \/ Written(p)'
        \/ ~Written(p) /\ (pc[p] = "check" => ~Has(TypeOf(cmd[p].op), cmd[p].transfer_id))

\* NoCommand is no transfer.
LEMMA NoMove == NoCommand.op \notin TransferOps
BY DEF NoCommand, TransferOps

\* Steps that do not write leave every claim as it was.
LEMMA QuietClaims ==
  ASSUME Claims, UNCHANGED events, NEW p \in Procs, Turned(p),
         \A q \in Procs \ {p} : Same(q)
  PROVE  Claims'
<1>1. \A type, t : Has(type, t)' = Has(type, t)
  BY DEF Has, HasTransferEvent, AllRows
<1>2. ASSUME NEW q \in Procs \ {p}
      PROVE  Claim(q)' /\ (Moving(q)' <=> Moving(q)) /\ cmd'[q] = cmd[q]
  <2>1. Claim(q) /\ pc'[q] = pc[q] /\ cmd'[q] = cmd[q]
    BY DEF Claims, Same
  <2> QED BY <1>1, <2>1 DEF Claim, Moving, Written
<1>3. Claim(p)' /\ (Moving(p)' => Moving(p) /\ cmd'[p] = cmd[p])
  <2>1. Claim(p)
    BY DEF Claims
  <2> QED BY <1>1, <2>1, NoMove DEF Claim, Moving, Turned
<1>4. \A r \in AllRows(events') : r.type \in TransferTypes <=> r.transfer_id # NoId
  BY DEF Claims
<1>5. \A q \in Procs : Claim(q)' /\ (Moving(q)' => Moving(q) /\ cmd'[q] = cmd[q])
  BY <1>2, <1>3
<1> QED BY <1>4, <1>5 DEF Claims

\* A new command claims a new transfer, or one whose debit nobody settles.
LEMMA BeginClaims ==
  ASSUME Claims, NEW p \in Procs, NEW c \in Command, Begin(p, c), LocalTypes
  PROVE  Claims'
<1>1. /\ pc[p] = "idle" /\ MayIssue(c) /\ UNCHANGED events
      /\ pc' = [pc EXCEPT ![p] = FirstStep(c.op)]
      /\ cmd' = [cmd EXCEPT ![p] = c]
  BY DEF Begin, tables
<1>2. pc'[p] = FirstStep(c.op) /\ cmd'[p] = c
  BY <1>1 DEF LocalTypes
<1>3. \A type, t : Has(type, t)' = Has(type, t)
  BY <1>1 DEF Has, HasTransferEvent, AllRows
<1>4. ASSUME NEW q \in Procs \ {p}
      PROVE  Claim(q)' /\ (Moving(q)' <=> Moving(q)) /\ cmd'[q] = cmd[q]
  <2>1. Claim(q) /\ pc'[q] = pc[q] /\ cmd'[q] = cmd[q]
    BY <1>1 DEF Claims, LocalTypes
  <2> QED BY <1>3, <2>1 DEF Claim, Moving, Written
<1>5. /\ c.op \in {"open", "deposit", "withdraw", "debit", "credit", "reverse"}
      /\ cmd[p].transfer_id = NoId
  BY <1>1 DEF Command, Claims, Claim, NoCommand
<1>6. ASSUME c.op \in TransferOps
      PROVE  \A q \in Procs : cmd[q].transfer_id # c.transfer_id
  BY <1>1, <1>6 DEF MayIssue, FreshTransfer, FromDebit, TransferOps
<1>7. Claim(p)'
  <2>1. CASE c.op \notin TransferOps
    BY <1>2, <1>5, <2>1 DEF Claim, Moving, FirstStep, TransferOps
  <2>2. CASE c.op = "debit"
    <3>1. FreshTransfer(c.transfer_id) /\ FirstStep(c.op) = "loadSnapshot"
      BY <1>1, <2>2 DEF MayIssue, FirstStep
    <3>2. ~Has("transfer.debited", c.transfer_id)
      BY <3>1 DEF FreshTransfer, Has, HasTransferEvent
    <3>3. c.transfer_id # NoId
      BY <1>5, <1>6, <2>2 DEF TransferOps
    <3> QED BY <1>2, <1>3, <2>2, <3>1, <3>2, <3>3 DEF Claim, Moving, TypeOf
  <2>3. CASE c.op \in {"credit", "reverse"}
    <3>1. FromDebit(c) /\ FirstStep(c.op) = "check"
      BY <1>1, <2>3 DEF MayIssue, FirstStep
    <3>2. Has("transfer.debited", c.transfer_id)
      BY <3>1 DEF FromDebit, Has, HasTransferEvent
    <3>3. c.transfer_id # NoId
      BY <1>5, <1>6, <2>3 DEF TransferOps
    <3> QED BY <1>2, <1>3, <2>3, <3>1, <3>2, <3>3 DEF Claim, Moving
  <2> QED BY <1>5, <2>1, <2>2, <2>3 DEF TransferOps
<1>8. \A r \in AllRows(events') : r.type \in TransferTypes <=> r.transfer_id # NoId
  BY <1>1 DEF Claims
<1>9. \A q \in Procs \ {p} : Moving(p)' => cmd'[q].transfer_id # cmd'[p].transfer_id
  BY <1>2, <1>4, <1>6 DEF Moving
<1>10. ASSUME NEW q \in Procs, NEW w \in Procs, Moving(q)', Moving(w)',
              cmd'[q].transfer_id = cmd'[w].transfer_id
       PROVE  q = w
  <2>1. CASE q = p \/ w = p
    BY <1>9, <1>10, <2>1
  <2>2. CASE q # p /\ w # p
    BY <1>4, <1>10, <2>2 DEF Claims
  <2> QED BY <2>1, <2>2
<1> QED BY <1>4, <1>7, <1>8, <1>10 DEF Claims

\* A commit on the account as it is now.
OnCurrent(p) ==
  /\ cmd[p] \in Command /\ acc[p] \in AccountState /\ batch[p] \in Seq(Event)
  /\ cmd[p].account \in AccountIds
  /\ Decide(acc[p], cmd[p]).err = "nil" /\ Decide(acc[p], cmd[p]).events = batch[p]
  /\ Stream(cmd[p].account, events[cmd[p].account], last(cmd[p].account))
  /\ WellFormed(cmd[p].account, last(cmd[p].account), batch[p])
  /\ acc[p] = States(events[cmd[p].account])[last(cmd[p].account)]
  /\ acc[p].version = last(cmd[p].account)
  /\ cmd[p].op = "open" => last(cmd[p].account) = 0
  /\ cmd[p].op # "open" => last(cmd[p].account) >= 1

\* UNIQUE lets only decisions on the last state through.
LEMMA CommitOnCurrent ==
  ASSUME IInv, NEW p \in Procs, Commit(p)
  PROVE  OnCurrent(p)
<1>1. Facts(p) /\ pc[p] = "append" /\ batch[p] # <<>>
  BY FactsOf, HeldBatch DEF Commit
<1>2. PICK c, b, x, evs, r, n : /\ c = cmd[p] /\ b = c.account /\ x = acc[p]
                                /\ evs = batch[p] /\ r = events[b] /\ n = last(b)
  OBVIOUS
<1>3. c \in Command /\ b \in AccountIds /\ x \in AccountState /\ evs \in Seq(Event)
  BY <1>1, <1>2 DEF Facts, LocalTypes
<1>4. Stream(b, r, n) /\ n \in Nat
  BY <1>1, <1>2, <1>3, StreamsOfTable DEF Facts, Stream
<1>5. x.version \in 0 .. n /\ x = States(r)[x.version]
  BY <1>1, <1>2, StateAtIsStates DEF Facts, LocalOK, IsPastState, last
<1>6. WellFormed(b, x.version, evs) /\ ~UniqueViolation(r, evs)
  BY <1>2 DEF Commit
<1>7. x.version = n
  BY <1>1, <1>2, <1>3, <1>4, <1>5, <1>6, NoConflictMeansCurrent
<1>8. Decide(x, c).err = "nil" /\ Decide(x, c).events = evs
  BY <1>1, <1>2 DEF Facts, LocalOK, Decided
<1>9. /\ c.op = "open" => n = 0
      /\ c.op # "open" => n >= 1
  <2>1. c.op = "open" => x.version = 0
    BY <1>1, <1>2 DEF Facts, LocalOK, EmptyAccount
  <2>2. c.op # "open" => x.version > 0
    BY <1>1, <1>2 DEF Facts, LocalOK
  <2> QED BY <1>4, <1>7, <2>1, <2>2
<1> QED BY <1>2, <1>3, <1>4, <1>5, <1>6, <1>7, <1>8, <1>9 DEF OnCurrent

\* What a commit writes.
Writes(p) ==
  /\ \A a \in AccountIds : events'[a] = IF a = cmd[p].account
                                        THEN Insert(events[a], batch[p]) ELSE events[a]
  /\ AllRows(events') = AllRows(events) \cup RowSet(batch[p])
  /\ Total(Change, RowSet(Insert(events[cmd[p].account], batch[p]))) =
       Total(Change, RowSet(events[cmd[p].account])) + Ledger!Added(cmd[p])
  /\ \A e \in RowSet(batch[p]) : Carries(cmd[p], e)
  /\ RowSet(batch[p]) # {}

\* A commit adds the rows of its command, and their amount to the account.
LEMMA CommitWrites ==
  ASSUME IInv, NEW p \in Procs, Commit(p)
  PROVE  Writes(p)
<1>1. OnCurrent(p) /\ DOMAIN events = AccountIds
  BY CommitOnCurrent DEF IInv, TypeOK
<1>2. PICK c, b, x, evs, r, n : /\ c = cmd[p] /\ b = c.account /\ x = acc[p]
                                /\ evs = batch[p] /\ r = events[b] /\ n = last(b)
  OBVIOUS
<1>3. /\ c \in Command /\ b \in AccountIds /\ x \in AccountState /\ evs \in Seq(Event)
      /\ Stream(b, r, n) /\ WellFormed(b, n, evs)
      /\ Decide(x, c).err = "nil" /\ evs = Decide(x, c).events
  BY <1>1, <1>2 DEF OnCurrent
<1>4. /\ RowSet(Insert(r, evs)) = RowSet(r) \cup RowSet(evs)
      /\ Total(Change, RowSet(Insert(r, evs))) = Total(Change, RowSet(r)) + Ledger!Added(c)
      /\ \A e \in RowSet(evs) : Carries(c, e)
      /\ RowSet(evs) # {}
  BY <1>3, InsertAdds
<1>5. events' = [events EXCEPT ![b] = Insert(r, evs)]
  BY <1>2 DEF Commit
<1>6. \A a \in AccountIds : events'[a] = IF a = b THEN Insert(r, evs) ELSE events[a]
  BY <1>1, <1>3, <1>5
<1>7. AllRows(events') = AllRows(events) \cup RowSet(evs)
  <2>1. \A t : AllRows(t) = UNION {RowSet(t[a]) : a \in AccountIds}
    BY DEF AllRows, RowSet
  <2>2. \A a \in AccountIds : RowSet(events'[a]) = IF a = b THEN RowSet(r) \cup RowSet(evs)
                                                   ELSE RowSet(events[a])
    BY <1>4, <1>6
  <2>3. \A e : e \in AllRows(events') <=> \E a \in AccountIds : e \in RowSet(events'[a])
    BY <2>1
  <2>4. \A e : e \in AllRows(events) <=> \E a \in AccountIds : e \in RowSet(events[a])
    BY <2>1
  <2> QED BY <1>2, <1>3, <2>2, <2>3, <2>4
<1> QED BY <1>2, <1>4, <1>6, <1>7 DEF Writes

\* The rows a commit adds bear the transfer its command has to itself.
LEMMA CommitClaims ==
  ASSUME Claims, NEW p \in Procs, Commit(p), Writes(p),
         \/ Written(p)' /\ cmd'[p] = cmd[p]
         \/ pc'[p] = "idle" /\ cmd'[p] = NoCommand,
         \A q \in Procs \ {p} : Same(q)
  PROVE  Claims'
<1>1. /\ AllRows(events') = AllRows(events) \cup RowSet(batch[p])
      /\ \A e \in RowSet(batch[p]) : Carries(cmd[p], e)
      /\ pc[p] = "append" /\ Claim(p)
  BY DEF Writes, Commit, Claims
<1>2. \A type, t : Has(type, t) => Has(type, t)'
  BY <1>1 DEF Has, HasTransferEvent
<1>3. \A e \in RowSet(batch[p]) :
        /\ e.type \in TransferTypes <=> e.transfer_id # NoId
        /\ e.transfer_id # NoId => Moving(p) /\ e.transfer_id = cmd[p].transfer_id
  BY <1>1 DEF Carries, Claim, Moving
<1>4. ASSUME NEW q \in Procs \ {p}
      PROVE  Claim(q)' /\ (Moving(q)' <=> Moving(q)) /\ cmd'[q] = cmd[q]
  <2>1. Claim(q) /\ pc'[q] = pc[q] /\ cmd'[q] = cmd[q]
    BY DEF Claims, Same
  <2>2. ASSUME Moving(q), NEW type, Has(type, cmd[q].transfer_id)'
        PROVE  Has(type, cmd[q].transfer_id)
    <3>1. PICK r \in AllRows(events') : r.type = type /\ r.transfer_id = cmd[q].transfer_id
      BY <2>1, <2>2 DEF Has, HasTransferEvent
    <3>2. r \notin RowSet(batch[p])
      BY <1>3, <2>1, <2>2, <3>1 DEF Claims, Claim
    <3> QED BY <1>1, <3>1, <3>2 DEF Has, HasTransferEvent
  <2>3. Moving(q)' <=> Moving(q)
    BY <2>1 DEF Moving
  <2> QED BY <1>2, <2>1, <2>2, <2>3 DEF Claim, Written
<1>5. Claim(p)' /\ (Moving(p)' => Moving(p) /\ cmd'[p] = cmd[p])
  <2>1. CASE Written(p)' /\ cmd'[p] = cmd[p]
    BY <1>1, <1>2, <2>1 DEF Claim, Moving, Written
  <2>2. CASE pc'[p] = "idle" /\ cmd'[p] = NoCommand
    BY <2>2 DEF Claim, Moving
  <2> QED BY <2>1, <2>2
<1>6. \A r \in AllRows(events') : r.type \in TransferTypes <=> r.transfer_id # NoId
  BY <1>1, <1>3 DEF Claims
<1>7. \A q \in Procs : Claim(q)' /\ (Moving(q)' => Moving(q) /\ cmd'[q] = cmd[q])
  BY <1>4, <1>5
<1> QED BY <1>6, <1>7 DEF Claims

\* A step other than a commit either stays within its command or returns.
LEMMA StepTurns ==
  ASSUME LocalTypes, Claims, NEW p \in Procs, Step(p), ~Commit(p)
  PROVE  Turned(p) /\ UNCHANGED events
<1>1. ASSUME NEW x, Return(p, x) PROVE Turned(p)
  BY <1>1 DEF Return, LocalTypes, Turned
<1>2. ASSUME pc[p] \in {"open", "loadEvents"}, NEW x, Proceed(p, x) PROVE Turned(p)
  <2>1. CASE Return(p, Decide(x, cmd[p]).err)
    BY <1>1, <2>1
  <2>2. CASE Goto(p, "append") /\ UNCHANGED cmd
    BY <1>2, <2>2 DEF Goto, LocalTypes, Turned, Written
  <2> QED BY <1>2, <2>1, <2>2 DEF Proceed
<1>3. CASE Open(p)
  BY <1>2, <1>3 DEF Open, tables
<1>4. CASE LoadEvents(p)
  BY <1>1, <1>2, <1>4 DEF LoadEvents, tables
<1>5. CASE Check(p)
  <2>1. pc[p] = "check" /\ cmd[p].op \in {"credit", "reverse"} /\ UNCHANGED events
    BY <1>5 DEF Check, Claims, Claim, tables
  <2>2. Settlement(cmd[p].op) = TypeOf(cmd[p].op)
    BY <2>1 DEF Settlement, TypeOf
  <2>3. CASE Has(TypeOf(cmd[p].op), cmd[p].transfer_id)
    BY <1>1, <1>5, <2>1, <2>2, <2>3 DEF Check, Has
  <2>4. CASE ~Has(TypeOf(cmd[p].op), cmd[p].transfer_id)
    <3>1. Goto(p, "loadSnapshot") /\ UNCHANGED cmd
      BY <1>5, <2>2, <2>4 DEF Check, Has
    <3> QED BY <2>1, <2>4, <3>1 DEF Goto, LocalTypes, Turned, Written
  <2> QED BY <2>3, <2>4
<1>6. CASE Backoff(p)
  <2>1. CASE Goto(p, "loadSnapshot") /\ UNCHANGED cmd
    BY <1>6, <2>1 DEF Backoff, Goto, LocalTypes, Turned, Written, tables
  <2> QED BY <1>1, <1>6, <2>1 DEF Backoff, tables
<1>7. CASE Fail(p)
  BY <1>1, <1>7 DEF Fail, tables
<1>8. CASE AppendConflict(p)
  <2>1. CASE Goto(p, "backoff") /\ UNCHANGED cmd
    BY <1>8, <2>1 DEF AppendConflict, Goto, LocalTypes, Turned, Written, tables
  <2> QED BY <1>1, <1>8, <2>1 DEF AppendConflict, tables
<1>9. CASE LoadSnapshot(p)
  BY <1>9 DEF LoadSnapshot, Goto, LocalTypes, Turned, Written, tables
<1>10. CASE SaveLoadSnapshot(p)
  BY <1>10 DEF SaveLoadSnapshot, Goto, LocalTypes, Turned, Written, tables
<1>11. CASE SaveLoadEvents(p)
  BY <1>11 DEF SaveLoadEvents, Goto, LocalTypes, Turned, Written, tables
<1>12. CASE SaveUpsert(p) \/ SaveFail(p)
  BY <1>12 DEF SaveUpsert, SaveFail, Goto, LocalTypes, Turned, Written, tables
<1>13. CASE Publish(p)
  <2>1. CASE UNCHANGED <<pc, cmd>>
    BY <1>13, <2>1 DEF Publish, LocalTypes, Turned, Written, tables
  <2> QED BY <1>1, <1>13, <2>1 DEF Publish, tables
<1> QED BY <1>3, <1>4, <1>5, <1>6, <1>7, <1>8, <1>9, <1>10, <1>11, <1>12, <1>13, Step(p)
        DEF Step, AppendOk, AppendAckLost

\* Every step keeps the claims.
LEMMA NextClaims == IInv /\ Claims /\ [Next]_vars => Claims'
<1> SUFFICES ASSUME IInv, Claims, [Next]_vars PROVE Claims'
  OBVIOUS
<1>1. LocalTypes
  BY FactsOf, TypeOKParts DEF IInv
<1>2. ASSUME NEW p \in Procs, NEW c \in Requests, Begin(p, c) PROVE Claims'
  BY <1>1, <1>2, BeginClaims, CommandSideAssumption
<1>3. ASSUME NEW p \in Procs, Step(p) PROVE Claims'
  <2>1. \A q \in Procs \ {p} : Same(q)
    BY <1>1, <1>3, OthersSame
  <2>2. CASE Commit(p)
    <3>1. pc[p] = "append" /\ Writes(p)
      BY <2>2, CommitWrites DEF Commit
    <3>2. \/ Written(p)' /\ cmd'[p] = cmd[p]
          \/ pc'[p] = "idle" /\ cmd'[p] = NoCommand
      <4>1. CASE AppendOk(p)
        BY <1>1, <4>1 DEF AppendOk, Goto, LocalTypes, Written
      <4>2. ASSUME NEW x, Return(p, x) PROVE pc'[p] = "idle" /\ cmd'[p] = NoCommand
        BY <1>1, <4>2 DEF Return, LocalTypes
      <4>3. CASE AppendConflict(p)
        BY <2>2, <4>3 DEF Commit, AppendConflict
      <4> QED BY <1>3, <3>1, <4>1, <4>2, <4>3
              DEF Step, Open, Check, LoadSnapshot, LoadEvents, AppendAckLost, Backoff, Fail,
                  SaveLoadSnapshot, SaveLoadEvents, SaveUpsert, SaveFail, Publish
    <3> QED BY <2>1, <2>2, <3>1, <3>2, CommitClaims
  <2>3. CASE ~Commit(p)
    BY <1>1, <1>3, <2>1, <2>3, StepTurns, QuietClaims
  <2> QED BY <2>2, <2>3
<1>4. CASE Crash
  <2>1. UNCHANGED events /\ \A p \in Procs : pc'[p] = "idle" /\ cmd'[p] = NoCommand
    BY <1>4 DEF Crash, tables
  <2>2. \A p \in Procs : Claim(p)' /\ ~Moving(p)'
    BY <2>1 DEF Claim, Moving
  <2> QED BY <2>1, <2>2 DEF Claims
<1>5. CASE UNCHANGED vars
  <2>1. UNCHANGED <<events, pc, cmd>>
    BY <1>5 DEF vars, tables, locals
  <2> QED BY <2>1 DEF Claims, Claim, Moving, Written, Has, HasTransferEvent
<1> QED BY <1>2, <1>3, <1>4, <1>5 DEF Next

\* No command runs before the first step.
LEMMA InitClaims == Init => Claims
<1> SUFFICES ASSUME Init PROVE Claims
  OBVIOUS
<1>1. AllRows(events) = {}
  BY DEF Init, AllRows, NoRows
<1>2. \A p \in Procs : Claim(p) /\ ~Moving(p)
  BY DEF Init, Claim, Moving
<1> QED BY <1>1, <1>2 DEF Claims

\* Whoever works on a transfer has it to itself, and its settlement is missing
\* until it has committed it.
THEOREM TransfersAreClaimed == Spec => []Claims
<1> QED BY InitClaims, NextClaims, CommandSideInvariant, PTL DEF Spec

-----------------------------------------------------------------------------
(***************************************************************************)
(* The command side implements AtomicLedger                                *)
(***************************************************************************)
\* The ledger of a state, as the lemmas above name it.
SumsUp == Balances = [a \in AccountIds |-> Total(Change, RowSet(events[a]))]

\* The balances are the sums of the streams.
LEMMA SumsNow == SumsUp
BY DEF SumsUp, Balances, Total, RowSet

\* And after a step.
LEMMA SumsOfTable ==
  /\ Balances = [a \in AccountIds |-> Total(Change, RowSet(events[a]))]
  /\ Balances' = [a \in AccountIds |-> Total(Change, RowSet(events'[a]))]
<1>1. SumsUp'
  BY SumsNow, PTL
<1> QED BY <1>1, SumsNow DEF SumsUp

\* A table that does not change stands for the same ledger.
LEMMA QuietLedger ==
  ASSUME UNCHANGED events
  PROVE  UNCHANGED <<Existing, Balances, Done>>
<1>1. Balances' = Balances
  BY SumsOfTable
<1> QED BY <1>1 DEF Existing, Done, AllRows

\* The last state of a stream is what the ledger knows of the account.
LEMMA LedgerOfAccount ==
  ASSUME IInv, NEW a \in AccountIds
  PROVE  /\ a \in Existing <=> last(a) >= 1
         /\ Balances[a] = States(events[a])[last(a)].balance
         /\ last(a) >= 1 => /\ States(events[a])[last(a)].id = a
                            /\ States(events[a])[last(a)].open
<1>1. Stream(a, events[a], last(a))
  BY StreamsOfTable DEF IInv, LedgerInv
<1>2. PICK r, n : r = events[a] /\ n = last(a) /\ Stream(a, r, n) /\ n \in Nat
                  /\ DOMAIN r = 1 .. n
  BY <1>1 DEF Stream
<1>3. Total(Change, RowSet(r)) = States(r)[n].balance
  BY <1>2, SumOfStream
<1>4. n >= 1 => States(r)[n].id = a /\ States(r)[n].open
  BY <1>2, StatesOfStream
<1>5. a \in Existing <=> n >= 1
  <2>1. a \in Existing <=> 1 .. n # {}
    BY <1>2 DEF Existing
  <2>2. 1 .. n # {} <=> n >= 1
    BY <1>2
  <2> QED BY <2>1, <2>2
<1> QED BY <1>2, <1>3, <1>4, <1>5, SumsOfTable

\* What was done of the transfers.
LEMMA DoneRows ==
  ASSUME NEW x
  PROVE  x \in Done <=> \E r \in AllRows(events) :
                          r.transfer_id # NoId /\ x = <<Operation(r.type), r.transfer_id>>
BY DEF Done

\* The commands and the types of their events correspond one to one.
LEMMA TypesOfOperations ==
  /\ \A type \in TransferTypes : /\ Operation(type) \in TransferOps
                                 /\ TypeOf(Operation(type)) = type
  /\ Operation("transfer.debited") = "debit"
BY DEF TransferTypes, TransferOps, Operation, TypeOf

\* A commit finds its transfer as the ledger requires it.
LEMMA CommitPermitted ==
  ASSUME IInv, Claims, NEW p \in Procs, Commit(p)
  PROVE  Ledger!Permitted(cmd[p])
<1>1. PICK c : c = cmd[p]
  OBVIOUS
<1>2. /\ OnCurrent(p) /\ pc[p] = "append" /\ Claim(p)
      /\ \A r \in AllRows(events) : r.type \in TransferTypes <=> r.transfer_id # NoId
  BY CommitOnCurrent DEF Commit, Claims
<1>3. c.op = "open" => c.account \notin Existing
  <2>1. c.account \in AccountIds /\ (c.op = "open" => last(c.account) = 0)
    BY <1>1, <1>2 DEF OnCurrent
  <2>2. c.account \in Existing <=> last(c.account) >= 1
    BY <2>1, LedgerOfAccount
  <2> QED BY <2>1, <2>2
<1>4. <<c.op, c.transfer_id>> \notin Done
  <2> SUFFICES ASSUME <<c.op, c.transfer_id>> \in Done PROVE FALSE
    OBVIOUS
  <2>1. PICK r \in AllRows(events) :
          r.transfer_id # NoId /\ <<c.op, c.transfer_id>> = <<Operation(r.type), r.transfer_id>>
    BY DoneRows
  <2>2. r.type \in TransferTypes /\ c.op = Operation(r.type) /\ c.transfer_id = r.transfer_id
    BY <1>2, <2>1
  <2>3. c.op \in TransferOps /\ TypeOf(c.op) = r.type
    BY <2>2, TypesOfOperations
  <2>4. Has(TypeOf(c.op), c.transfer_id)
    BY <2>2, <2>3 DEF Has, HasTransferEvent
  <2> QED BY <1>1, <1>2, <2>3, <2>4 DEF Claim, Moving, Written
<1>5. c.op \in {"credit", "reverse"} => <<"debit", c.transfer_id>> \in Done
  <2> SUFFICES ASSUME c.op \in {"credit", "reverse"} PROVE <<"debit", c.transfer_id>> \in Done
    OBVIOUS
  <2>1. c.transfer_id # NoId /\ Has("transfer.debited", c.transfer_id)
    BY <1>1, <1>2 DEF Claim, Moving, TransferOps
  <2>2. PICK r \in AllRows(events) :
          r.type = "transfer.debited" /\ r.transfer_id = c.transfer_id
    BY <2>1 DEF Has, HasTransferEvent
  <2> QED BY <2>1, <2>2, DoneRows, TypesOfOperations
<1> QED BY <1>1, <1>3, <1>4, <1>5 DEF Ledger!Permitted

\* The INSERT of a command is its effect on the ledger.
LEMMA CommitTakesEffect ==
  ASSUME IInv, Claims, NEW p \in Procs, Commit(p)
  PROVE  Ledger!Effect(cmd[p])
<1>1. PICK c, b, n, evs : c = cmd[p] /\ b = c.account /\ n = last(b) /\ evs = batch[p]
  OBVIOUS
<1>2. OnCurrent(p) /\ Writes(p) /\ pc[p] = "append" /\ Claim(p)
  BY CommitOnCurrent, CommitWrites DEF Commit, Claims
<1>3. /\ c \in Command /\ b \in AccountIds
      /\ c.op = "open" => n = 0
      /\ c.op # "open" => n >= 1
      /\ acc[p] \in AccountState /\ Decide(acc[p], c).err = "nil"
      /\ acc[p] = States(events[b])[n]
  BY <1>1, <1>2 DEF OnCurrent
<1>4. /\ b \in Existing <=> n >= 1
      /\ Balances[b] = acc[p].balance
      /\ n >= 1 => acc[p].id = b /\ acc[p].open
  BY <1>1, <1>3, LedgerOfAccount
<1>5. Ledger!Verdict(c) = "nil"
  BY <1>1, <1>3, <1>4, VerdictIsDecision
<1>6. Ledger!Permitted(c)
  BY <1>1, CommitPermitted
<1>7. /\ \A a \in AccountIds : events'[a] = IF a = b THEN Insert(events[a], evs) ELSE events[a]
      /\ AllRows(events') = AllRows(events) \cup RowSet(evs)
      /\ Total(Change, RowSet(Insert(events[b], evs))) =
           Total(Change, RowSet(events[b])) + Ledger!Added(c)
      /\ \A e \in RowSet(evs) : Carries(c, e)
      /\ RowSet(evs) # {}
  BY <1>1, <1>2 DEF Writes
<1>8. Existing' = IF c.op = "open" THEN Existing \cup {b} ELSE Existing
  <2>1. b \in Existing'
    <3>1. RowSet(events'[b]) = RowSet(events[b]) \cup RowSet(evs)
      <4>1. Stream(b, events[b], n) /\ WellFormed(b, n, evs) /\ evs \in Seq(Event)
        BY <1>1, <1>2 DEF OnCurrent
      <4> QED BY <1>3, <1>7, <4>1, InsertedRows
    <3>2. DOMAIN events'[b] # {}
      BY <1>7, <3>1 DEF RowSet
    <3> QED BY <1>3, <3>2 DEF Existing
  <2>2. \A a \in AccountIds \ {b} : a \in Existing' <=> a \in Existing
    BY <1>7 DEF Existing
  <2>3. Existing' = Existing \cup {b}
    BY <1>3, <2>1, <2>2 DEF Existing
  <2> QED BY <1>3, <1>4, <2>3
<1>9. Balances' = [Balances EXCEPT ![b] = @ + Ledger!Added(c)]
  <2>1. Total(Change, RowSet(events'[b])) = Balances[b] + Ledger!Added(c)
    BY <1>3, <1>7, SumsOfTable
  <2>2. \A a \in AccountIds \ {b} : Total(Change, RowSet(events'[a])) = Balances[a]
    BY <1>7, SumsOfTable
  <2>3. Balances = [a \in AccountIds |-> Balances[a]]
    BY SumsOfTable
  <2>4. Balances' = [a \in AccountIds |-> IF a = b THEN Balances[b] + Ledger!Added(c)
                                          ELSE Balances[a]]
    BY <2>1, <2>2, SumsOfTable
  <2> QED BY <1>3, <2>3, <2>4
<1>10. Done' = Done \cup (({"debit", "credit", "reverse"} \cap {c.op}) \X {c.transfer_id})
  <2>1. \A x : x \in Done' <=> \E r \in AllRows(events') :
                 r.transfer_id # NoId /\ x = <<Operation(r.type), r.transfer_id>>
    BY DEF Done
  <2>2. \A x : x \in Done' <=> \/ x \in Done
                               \/ \E r \in RowSet(evs) :
                                    /\ r.transfer_id # NoId
                                    /\ x = <<Operation(r.type), r.transfer_id>>
    BY <1>7, <2>1, DoneRows
  <2>3. ASSUME c.op \in TransferOps
        PROVE  /\ c.transfer_id # NoId
               /\ \A r \in RowSet(evs) : /\ r.transfer_id = c.transfer_id
                                         /\ Operation(r.type) = c.op
    BY <1>1, <1>2, <1>7, <2>3 DEF Carries, Claim, Moving
  <2>4. ASSUME c.op \notin TransferOps PROVE \A r \in RowSet(evs) : r.transfer_id = NoId
    BY <1>7, <2>4 DEF Carries
  <2>5. CASE c.op \in TransferOps
    <3>1. ({"debit", "credit", "reverse"} \cap {c.op}) \X {c.transfer_id}
            = {<<c.op, c.transfer_id>>}
      <4>1. {"debit", "credit", "reverse"} \cap {c.op} = {c.op}
        BY <2>5 DEF TransferOps
      <4>2. {c.op} \X {c.transfer_id} = {<<c.op, c.transfer_id>>}
        OBVIOUS
      <4> QED BY <4>1, <4>2
    <3>2. \A x : x \in Done' <=> x \in Done \/ x = <<c.op, c.transfer_id>>
      BY <1>7, <2>2, <2>3, <2>5
    <3> QED BY <3>1, <3>2
  <2>6. CASE c.op \notin TransferOps
    <3>1. ({"debit", "credit", "reverse"} \cap {c.op}) \X {c.transfer_id} = {}
      BY <2>6 DEF TransferOps
    <3>2. \A x : x \in Done' <=> x \in Done
      BY <2>2, <2>4, <2>6
    <3> QED BY <3>1, <3>2
  <2> QED BY <2>5, <2>6
<1> QED BY <1>1, <1>5, <1>6, <1>8, <1>9, <1>10 DEF Ledger!Effect

\* Only the phase of the process that moves changes.
LEMMA PhaseMoves ==
  ASSUME NEW p \in Procs, \A q \in Procs \ {p} : Same(q)
  PROVE  [q \in Procs |-> Phase(q)]' = [[q \in Procs |-> Phase(q)] EXCEPT ![p] = Phase(p)']
<1>1. \A q \in Procs \ {p} : Phase(q)' = Phase(q)
  BY DEF Same, Phase
<1> QED BY <1>1

\* A step inside a command that the ledger does not see.
Unseen(p) ==
  /\ Phase(p)' = Phase(p)
  /\ UNCHANGED <<events, cmd, reply>>

LedgerVars == <<cmd, [p \in Procs |-> Phase(p)], reply, <<Existing, Balances, Done>>>>

\* Such a step changes nothing the ledger consists of.
LEMMA UnseenStutters ==
  ASSUME NEW p \in Procs, Unseen(p), \A q \in Procs \ {p} : Same(q)
  PROVE  UNCHANGED LedgerVars
<1>1. [q \in Procs |-> Phase(q)]' = [q \in Procs |-> Phase(q)]
  BY PhaseMoves DEF Unseen
<1>2. UNCHANGED <<Existing, Balances, Done>>
  BY QuietLedger DEF Unseen
<1> QED BY <1>1, <1>2 DEF Unseen, LedgerVars

\* The answers that are true of the ledger as it is.
Truthful(p, r) ==
  \/ Phase(p) = "applied" /\ r = "nil"
  \/ Phase(p) = "called" /\ r \in {"error", "ErrTooManyConflicts"}
  \/ /\ Phase(p) = "called" /\ r = "nil" /\ cmd[p].op \in {"credit", "reverse"}
     /\ <<cmd[p].op, cmd[p].transfer_id>> \in Done
  \/ Phase(p) = "called" /\ r # "nil" /\ r = Ledger!Verdict(cmd[p])

\* A command that returns a true answer without writing.
LEMMA TruthfulReturn ==
  ASSUME LocalTypes, NEW p \in Procs, NEW r, Return(p, r), Truthful(p, r), UNCHANGED events
  PROVE  Ledger!Return(p)
<1>1. \A q \in Procs \ {p} : Same(q)
  BY DEF Return, Same, LocalTypes
<1>2. Phase(p)' = "idle"
  BY DEF Return, LocalTypes, Phase
<1>3. [q \in Procs |-> Phase(q)]' = [[q \in Procs |-> Phase(q)] EXCEPT ![p] = "idle"]
  BY <1>1, <1>2, PhaseMoves
<1>4. UNCHANGED <<Existing, Balances, Done>>
  BY QuietLedger
<1>5. /\ cmd' = [cmd EXCEPT ![p] = NoCommand]
      /\ reply' = [reply EXCEPT ![p] = r]
  BY DEF Return
<1>6. Ledger!Acknowledge(p) \/ Ledger!GiveUp(p) \/ Ledger!AlreadyDone(p) \/ Ledger!Reject(p)
  <2>1. CASE Phase(p) = "applied" /\ r = "nil"
    BY <1>4, <1>5, <2>1 DEF Ledger!Acknowledge, Ledger!Answer, Ledger!ledger
  <2>2. CASE Phase(p) = "called" /\ r \in {"error", "ErrTooManyConflicts"}
    BY <1>4, <1>5, <2>2 DEF Ledger!GiveUp, Ledger!Answer, Ledger!ledger
  <2>3. CASE /\ Phase(p) = "called" /\ r = "nil" /\ cmd[p].op \in {"credit", "reverse"}
             /\ <<cmd[p].op, cmd[p].transfer_id>> \in Done
    BY <1>4, <1>5, <2>3 DEF Ledger!AlreadyDone, Ledger!Answer, Ledger!ledger
  <2>4. CASE Phase(p) = "called" /\ r # "nil" /\ r = Ledger!Verdict(cmd[p])
    BY <1>4, <1>5, <2>4 DEF Ledger!Reject, Ledger!Answer, Ledger!ledger
  <2> QED BY <2>1, <2>2, <2>3, <2>4 DEF Truthful
<1>7. [q \in Procs |-> Phase(q)][p] # "idle"
  BY DEF Truthful
<1> QED BY <1>3, <1>5, <1>6, <1>7 DEF Ledger!Return

\* How the ledger sees a step of p.
Seen(p) == Ledger!TakeEffect(p) \/ Ledger!Return(p) \/ UNCHANGED LedgerVars

\* A refusal is the verdict on the account as it is.
LEMMA ProceedSeen ==
  ASSUME IInv, NEW p \in Procs, pc[p] \in {"open", "loadEvents"},
         NEW x \in AccountState, Proceed(p, x), UNCHANGED events,
         cmd[p].op # "open" => /\ cmd[p].account \in Existing
                               /\ x.id = cmd[p].account /\ x.open
                               /\ Balances[cmd[p].account] = x.balance
  PROVE  Seen(p)
<1>1. LocalTypes /\ cmd[p] \in Command /\ Phase(p) = "called"
  BY FactsOf DEF Facts, Phase
<1>2. Ledger!Verdict(cmd[p]) = Decide(x, cmd[p]).err
  BY <1>1, VerdictIsDecision
<1>3. CASE Decide(x, cmd[p]).err # "nil"
  <2>1. Return(p, Decide(x, cmd[p]).err) /\ Truthful(p, Decide(x, cmd[p]).err)
    BY <1>1, <1>2, <1>3 DEF Proceed, Truthful
  <2> QED BY <1>1, <2>1, TruthfulReturn DEF Seen
<1>4. CASE Decide(x, cmd[p]).err = "nil"
  <2>1. /\ pc' = [pc EXCEPT ![p] = "append"] /\ UNCHANGED <<cmd, attempt, since, reply>>
        /\ acc' = [acc EXCEPT ![p] = x]
        /\ batch' = [batch EXCEPT ![p] = Decide(x, cmd[p]).events]
    BY <1>4 DEF Proceed, Goto
  <2>2. \A q \in Procs \ {p} : Same(q)
    BY <1>1, <2>1 DEF Same, LocalTypes
  <2>3. Unseen(p)
    BY <1>1, <2>1 DEF Unseen, Phase, LocalTypes
  <2> QED BY <2>2, <2>3, UnseenStutters DEF Seen
<1> QED BY <1>3, <1>4

\* The second query of Load reads the account as the ledger has it.
LEMMA LoadEventsSeen ==
  ASSUME IInv, NEW p \in Procs, LoadEvents(p)
  PROVE  Seen(p)
<1>1. /\ Facts(p) /\ pc[p] = "loadEvents" /\ UNCHANGED events
      /\ cmd[p] \in Command /\ cmd[p].account \in AccountIds /\ cmd[p].op # "open"
  BY FactsOf DEF LoadEvents, Facts, LocalOK, tables
<1>2. PICK a, base : a = cmd[p].account /\ base = acc[p]
  OBVIOUS
<1>3. /\ base.version \in 0 .. last(a) /\ base = StateAt(a, base.version)
      /\ last(a) \in Nat
  BY <1>1, <1>2 DEF Facts, LocalOK, Reading, IsPastState, last, TypeOK
<1>4. /\ Loaded(base, events[a]) = StateAt(a, last(a))
      /\ StateAt(a, last(a)) \in AccountState
      /\ ~NotFound(base, events[a]) => last(a) >= 1
  BY <1>1, <1>2, <1>3, LoadIsCurrent DEF Facts
<1>5. /\ a \in Existing <=> last(a) >= 1
      /\ Balances[a] = StateAt(a, last(a)).balance
      /\ last(a) >= 1 => StateAt(a, last(a)).id = a /\ StateAt(a, last(a)).open
  BY <1>1, <1>2, LedgerOfAccount, StateAtIsStates
<1>6. CASE NotFound(base, events[a])
  <2>1. Return(p, "ErrAccountNotFound")
    BY <1>2, <1>6 DEF LoadEvents
  <2>2. last(a) = 0
    <3>1. Stream(a, events[a], last(a))
      BY <1>1, <1>2, StreamsOfTable DEF Facts
    <3>2. base.version = 0 /\ DOMAIN RowsAfter(events[a], 0) = {}
      BY <1>6 DEF NotFound
    <3>3. DOMAIN RowsAfter(events[a], 0) = {v \in DOMAIN events[a] : v > 0}
      BY DEF RowsAfter
    <3>4. DOMAIN events[a] = 1 .. last(a)
      BY <3>1 DEF Stream
    <3>5. last(a) \notin DOMAIN events[a] \/ ~(last(a) > 0)
      BY <3>2, <3>3
    <3> QED BY <1>3, <3>4, <3>5
  <2>3. Ledger!Verdict(cmd[p]) = "ErrAccountNotFound"
    BY <1>1, <1>2, <1>5, <2>2 DEF Ledger!Verdict
  <2>4. Truthful(p, "ErrAccountNotFound")
    BY <1>1, <2>3 DEF Truthful, Phase
  <2> QED BY <1>1, <2>1, <2>4, TruthfulReturn DEF Seen, Facts
<1>7. CASE ~NotFound(base, events[a])
  <2>1. PICK x : x = Loaded(base, events[a])
    OBVIOUS
  <2>2. Proceed(p, x)
    BY <1>2, <1>7, <2>1 DEF LoadEvents
  <2>3. /\ x \in AccountState /\ a \in Existing /\ x.id = a /\ x.open
        /\ Balances[a] = x.balance
    BY <1>4, <1>5, <1>7, <2>1
  <2> QED BY <1>1, <1>2, <2>2, <2>3, ProceedSeen
<1> QED BY <1>6, <1>7

\* A commit takes effect, whether or not its answer arrives.
LEMMA AppendSeen ==
  ASSUME IInv, Claims, NEW p \in Procs, AppendOk(p) \/ AppendAckLost(p)
  PROVE  Seen(p)
<1>1. /\ Commit(p) /\ LocalTypes /\ pc[p] = "append" /\ Phase(p) = "called"
      /\ \A q \in Procs \ {p} : Same(q)
  <2>1. LocalTypes /\ Commit(p) /\ Step(p)
    BY FactsOf DEF Facts, AppendOk, AppendAckLost, Step
  <2> QED BY <2>1, OthersSame DEF Commit, Phase
<1>2. Ledger!Effect(cmd[p])
  BY <1>1, CommitTakesEffect
<1>3. [q \in Procs |-> Phase(q)]' = [[q \in Procs |-> Phase(q)] EXCEPT ![p] = Phase(p)']
  BY <1>1, PhaseMoves
<1>4. CASE AppendOk(p)
  <2>1. Phase(p)' = "applied" /\ UNCHANGED <<cmd, reply>>
    BY <1>1, <1>4 DEF AppendOk, Goto, LocalTypes, Phase
  <2>2. Ledger!TakeEffect(p)
    BY <1>1, <1>2, <1>3, <2>1 DEF Ledger!TakeEffect
  <2> QED BY <2>2 DEF Seen
<1>5. CASE AppendAckLost(p)
  <2>1. /\ Phase(p)' = "idle" /\ cmd' = [cmd EXCEPT ![p] = NoCommand]
        /\ reply' = [reply EXCEPT ![p] = "error"]
    BY <1>1, <1>5 DEF AppendAckLost, Return, LocalTypes, Phase
  <2>2. Ledger!LoseReply(p)
    BY <1>1, <1>2, <2>1 DEF Ledger!LoseReply, Ledger!Answer
  <2>3. Ledger!Return(p)
    BY <1>1, <1>3, <2>1, <2>2 DEF Ledger!Return
  <2> QED BY <2>3 DEF Seen
<1> QED BY <1>4, <1>5

\* Every step of a command is a step of the ledger or none.
LEMMA StepSeen ==
  ASSUME IInv, Claims, NEW p \in Procs, Step(p)
  PROVE  Seen(p)
<1>1. Facts(p) /\ LocalTypes /\ \A q \in Procs \ {p} : Same(q)
  BY FactsOf, OthersSame DEF Facts
<1>2. ASSUME NEW r, Return(p, r), Truthful(p, r), UNCHANGED events PROVE Seen(p)
  BY <1>1, <1>2, TruthfulReturn DEF Seen
<1>3. ASSUME Unseen(p) PROVE Seen(p)
  BY <1>1, <1>3, UnseenStutters DEF Seen
<1>4. CASE Open(p)
  <2>1. /\ pc[p] = "open" /\ cmd[p].op = "open" /\ Proceed(p, EmptyAccount)
        /\ EmptyAccount \in AccountState /\ UNCHANGED events
    BY <1>1, <1>4, EmptyAccountType DEF Open, Facts, LocalOK, tables
  <2> QED BY <2>1, ProceedSeen
<1>5. CASE LoadEvents(p)
  BY <1>5, LoadEventsSeen
<1>6. CASE Check(p)
  <2>1. /\ pc[p] = "check" /\ cmd[p].op \in {"credit", "reverse"} /\ UNCHANGED events
        /\ Phase(p) = "called" /\ cmd[p].transfer_id # NoId
    BY <1>6 DEF Check, Claims, Claim, Moving, TransferOps, tables, Phase
  <2>2. CASE HasTransferEvent(events, Settlement(cmd[p].op), cmd[p].transfer_id)
    <3>1. PICK r \in AllRows(events) : /\ r.type = Settlement(cmd[p].op)
                                       /\ r.transfer_id = cmd[p].transfer_id
      BY <2>2 DEF HasTransferEvent
    <3>2. Operation(r.type) = cmd[p].op
      BY <2>1, <3>1 DEF Settlement, Operation
    <3>3. <<cmd[p].op, cmd[p].transfer_id>> \in Done
      BY <2>1, <3>1, <3>2, DoneRows
    <3> QED BY <1>2, <1>6, <2>1, <2>2, <3>3 DEF Check, Truthful
  <2>3. CASE ~HasTransferEvent(events, Settlement(cmd[p].op), cmd[p].transfer_id)
    BY <1>1, <1>3, <1>6, <2>1, <2>3 DEF Check, Goto, Unseen, Phase, LocalTypes
  <2> QED BY <2>2, <2>3
<1>7. CASE Backoff(p)
  <2>1. pc[p] = "backoff" /\ Phase(p) = "called" /\ UNCHANGED events
    BY <1>7 DEF Backoff, Phase, tables
  <2>2. CASE Return(p, "ErrTooManyConflicts")
    BY <1>2, <2>1, <2>2 DEF Truthful
  <2>3. CASE Goto(p, "loadSnapshot") /\ UNCHANGED <<cmd, reply>>
    BY <1>1, <1>3, <2>1, <2>3 DEF Goto, Unseen, Phase, LocalTypes
  <2> QED BY <1>7, <2>2, <2>3 DEF Backoff
<1>8. CASE Fail(p)
  <2>1. Phase(p) = "called" /\ Return(p, "error") /\ UNCHANGED events
    BY <1>8 DEF Fail, Phase, tables
  <2> QED BY <1>2, <2>1 DEF Truthful
<1>9. CASE AppendConflict(p)
  <2>1. pc[p] = "append" /\ Phase(p) = "called" /\ UNCHANGED events
    BY <1>9 DEF AppendConflict, Phase, tables
  <2>2. CASE Return(p, "error")
    BY <1>2, <2>1, <2>2 DEF Truthful
  <2>3. CASE Goto(p, "backoff") /\ UNCHANGED <<cmd, reply>>
    BY <1>1, <1>3, <2>1, <2>3 DEF Goto, Unseen, Phase, LocalTypes
  <2> QED BY <1>9, <2>2, <2>3 DEF AppendConflict
<1>10. CASE AppendOk(p) \/ AppendAckLost(p)
  BY <1>10, AppendSeen
<1>11. CASE LoadSnapshot(p)
  BY <1>1, <1>3, <1>11 DEF LoadSnapshot, Goto, Unseen, Phase, LocalTypes, tables
<1>12. CASE SaveLoadSnapshot(p)
  BY <1>1, <1>3, <1>12 DEF SaveLoadSnapshot, Goto, Unseen, Phase, LocalTypes, tables
<1>13. CASE SaveLoadEvents(p)
  BY <1>1, <1>3, <1>13 DEF SaveLoadEvents, Goto, Unseen, Phase, LocalTypes, tables
<1>14. CASE SaveUpsert(p) \/ SaveFail(p)
  BY <1>1, <1>3, <1>14 DEF SaveUpsert, SaveFail, Goto, Unseen, Phase, LocalTypes, tables
<1>15. CASE Publish(p)
  <2>1. pc[p] = "publish" /\ Phase(p) = "applied" /\ UNCHANGED events
    BY <1>15 DEF Publish, Phase, tables
  <2>2. CASE Return(p, "nil")
    BY <1>2, <2>1, <2>2 DEF Truthful
  <2>3. CASE UNCHANGED <<pc, cmd, reply>>
    BY <1>3, <2>1, <2>3 DEF Unseen, Phase
  <2> QED BY <1>15, <2>2, <2>3 DEF Publish
<1> QED BY <1>4, <1>5, <1>6, <1>7, <1>8, <1>9, <1>10, <1>11, <1>12, <1>13, <1>14, <1>15, Step(p)
        DEF Step

\* The command side implements the ledger: whatever the interleaving, conflicts,
\* stale snapshots, failures and lost answers, each command acts once, at its
\* commit, on the balances of that instant (app.go:37-152).
THEOREM CommandSideIsAtomic == Spec => ImplementsAtomicLedger
<1>1. Init => Ledger!Init
  <2> SUFFICES ASSUME Init PROVE Ledger!Init
    OBVIOUS
  <2>1. \A a \in AccountIds : events[a] = NoRows /\ DOMAIN events[a] = {}
    BY DEF Init, NoRows
  <2>2. Existing = {}
    BY <2>1 DEF Existing
  <2>3. Balances = [a \in AccountIds |-> 0]
    <3>1. \A a \in AccountIds : RowSet(events[a]) = {}
      BY <2>1 DEF RowSet
    <3>2. \A a \in AccountIds : Total(Change, RowSet(events[a])) = 0
      BY <3>1, TotalEmpty
    <3> QED BY <3>2, SumsOfTable
  <2>4. Done = {}
    BY <2>1 DEF Done, AllRows
  <2>5. [p \in Procs |-> Phase(p)] = [p \in Procs |-> "idle"]
    BY DEF Init, Phase
  <2>6. cmd = [p \in Procs |-> NoCommand] /\ reply = [p \in Procs |-> "none"]
    BY DEF Init
  <2> QED BY <2>2, <2>3, <2>4, <2>5, <2>6 DEF Ledger!Init
<1>2. IInv /\ Claims /\ [Next]_vars => [Ledger!Next]_LedgerVars
  <2> SUFFICES ASSUME IInv, Claims, [Next]_vars PROVE Ledger!Next \/ UNCHANGED LedgerVars
    OBVIOUS
  <2>1. LocalTypes
    BY TypeOKParts DEF IInv
  <2>2. ASSUME NEW p \in Procs, NEW c \in Requests, Begin(p, c) PROVE Ledger!Invoke(p)
    <3>1. /\ pc[p] = "idle" /\ UNCHANGED events
          /\ pc' = [pc EXCEPT ![p] = FirstStep(c.op)] /\ cmd' = [cmd EXCEPT ![p] = c]
          /\ reply' = [reply EXCEPT ![p] = "none"]
      BY <2>2 DEF Begin, tables
    <3>2. \A q \in Procs \ {p} : Same(q)
      BY <2>1, <2>2, OthersSame
    <3>3. Phase(p) = "idle" /\ Phase(p)' = "called"
      BY <2>1, <3>1 DEF Phase, LocalTypes, FirstStep
    <3>4. [q \in Procs |-> Phase(q)]' = [[q \in Procs |-> Phase(q)] EXCEPT ![p] = "called"]
      BY <3>2, <3>3, PhaseMoves
    <3>5. UNCHANGED <<Existing, Balances, Done>>
      BY <3>1, QuietLedger
    <3> QED BY <3>1, <3>3, <3>4, <3>5 DEF Ledger!Invoke, Ledger!ledger
  <2>3. ASSUME NEW p \in Procs, Step(p)
        PROVE  Ledger!TakeEffect(p) \/ Ledger!Return(p) \/ UNCHANGED LedgerVars
    BY <2>3, StepSeen DEF Seen
  <2>4. CASE Crash
    <3>1. /\ UNCHANGED events /\ cmd' = [p \in Procs |-> NoCommand]
          /\ reply' = [p \in Procs |-> "none"] /\ pc' = [p \in Procs |-> "idle"]
      BY <2>4 DEF Crash, tables
    <3>2. [p \in Procs |-> Phase(p)]' = [p \in Procs |-> "idle"]
      BY <3>1 DEF Phase
    <3>3. UNCHANGED <<Existing, Balances, Done>>
      BY <3>1, QuietLedger
    <3>4. Ledger!Crash
      BY <3>1, <3>2, <3>3 DEF Ledger!Crash, Ledger!ledger
    <3> QED BY <3>4 DEF Ledger!Next
  <2>5. CASE UNCHANGED vars
    <3>1. UNCHANGED <<events, pc, cmd, reply>>
      BY <2>5 DEF vars, tables, locals
    <3>2. UNCHANGED <<Existing, Balances, Done>>
      BY <3>1, QuietLedger
    <3>3. [p \in Procs |-> Phase(p)]' = [p \in Procs |-> Phase(p)]
      BY <3>1 DEF Phase
    <3> QED BY <3>1, <3>2, <3>3 DEF LedgerVars
  <2> QED BY <2>2, <2>3, <2>4, <2>5 DEF Next, Ledger!Next
<1> QED
  BY <1>1, <1>2, CommandSideInvariant, TransfersAreClaimed, PTL
  DEF Spec, ImplementsAtomicLedger, Ledger!Spec, Ledger!vars, Ledger!ledger, LedgerVars
=============================================================================

------------------------- MODULE TransferSagaProofs -------------------------
(***************************************************************************)
(* The properties of TransferSaga for every set of accounts, transfers and *)
(* workers, every number of partitions and every size of the bus and the   *)
(* queue, whatever fails and whenever the service crashes.                 *)
(*                                                                         *)
(* The argument: an event in memory is in one place, so one worker at most *)
(* works on a debit.  What a worker's query found therefore still holds    *)
(* when it appends, although the two are not one transaction, and the only *)
(* way to settle a transfer twice is a credit whose answer was lost.       *)
(***************************************************************************)
EXTENDS TransferSaga, ReplayTheorems

-----------------------------------------------------------------------------
(***************************************************************************)
(* The inductive invariant                                                 *)
(***************************************************************************)
All == AllRows(events)

\* Every account's rows are a stream, and the opened accounts have one.
Table(t) ==
  /\ DOMAIN t = AccountIds
  /\ \A a \in AccountIds : /\ Stream(a, t[a], LastVersion(t[a]))
                           /\ a \in Opened <=> LastVersion(t[a]) > 0

\* The five places of the process an event can be in.
Busy(w)    == step[w] # "idle"
InHand     == {event[w] : w \in {x \in Workers : Busy(x)}}
InFlight   == unpublished \cup resuming \cup Carried(bus) \cup Range(queue) \cup InHand

\* What the variables hold, but for the workers'.
Stored ==
  /\ phase \in {"down", "boot", "serving", "stopping"}
  /\ unpublished \subseteq Debits /\ resuming \subseteq Debits /\ abandoned \subseteq Debits
  /\ bus \in [Partitions -> Seq(All)]
  /\ \A p \in Partitions : Len(bus[p]) <= BusSize
  /\ queue \in Seq(Debits) /\ Len(queue) <= QueueSize

\* What the workers hold.
Hands ==
  /\ step \in [Workers -> WorkerSteps]
  /\ event \in [Workers -> All \cup {NoEvent}]
  /\ attempt \in [Workers -> 0 .. creditRetries]
  /\ \A w \in Workers : /\ step[w] \in Processing => event[w] \in Debits
                        /\ step[w] = "publish" => event[w] \in All \ Debits
                        /\ step[w] \in {"idle", "checkCredit", "credit"} =>
                             attempt[w] < creditRetries

\* No two workers hold the same event.
Alone == \A v, w \in Workers : Busy(v) /\ Busy(w) /\ event[v] = event[w] => v = w

\* An event in memory is in one place; a service that is down has no memory.
OnePlace ==
  /\ Sorted(bus, PartitionOf) /\ Once(queue) /\ Alone
  /\ unpublished \cap resuming = {}
  /\ (unpublished \cup resuming) \cap Carried(bus) = {}
  /\ (unpublished \cup resuming \cup Carried(bus)) \cap Range(queue) = {}
  /\ (unpublished \cup resuming \cup Carried(bus) \cup Range(queue)) \cap InHand = {}
  /\ phase = "down" => InFlight = {}

TransferTypes == {"transfer.debited", "transfer.credited", "transfer.reversed"}

\* A transfer has one row of each kind; it has both answers only if the first was
\* lost on the way; what a query found holds until the append that follows it.
Answers ==
  /\ \A r \in All : r.type \in TransferTypes => r.transfer_id \in TransferIds
  /\ \A d \in Debits : d.peer \in AccountIds
  /\ \A r \in All : r.type \in TransferTypes =>
       \E d \in Debits : d.transfer_id = r.transfer_id
  /\ \A r, s \in All :
       r.type \in TransferTypes /\ r.type = s.type /\ r.transfer_id = s.transfer_id => r = s
  /\ \A t \in lost : Credited(t)
  /\ \A t \in TransferIds : Credited(t) /\ Reversed(t) => t \in lost
  /\ \A d \in InFlight \cap Debits : d.transfer_id \notin lost => d \in Unsettled
  /\ \A w \in Workers : /\ step[w] = "credit" => ~Credited(event[w].transfer_id)
                        /\ step[w] = "reverse" => ~Reversed(event[w].transfer_id)

\* While the service is up, what is not settled is held or known to be given up.
Kept == phase \in {"boot", "serving"} => Unsettled \subseteq InFlight \cup abandoned

SagaInv == Table(events) /\ Stored /\ Hands /\ OnePlace /\ Answers /\ Kept


-----------------------------------------------------------------------------
(***************************************************************************)
(* The table                                                               *)
(***************************************************************************)
\* The partitions of a service that starts.
LEMMA NothingCarried ==
  ASSUME NEW S
  PROVE  /\ EmptyBus \in [Partitions -> Seq(S)] /\ Sorted(EmptyBus, PartitionOf)
         /\ Carried(EmptyBus) = {} /\ \A p \in Partitions : Len(EmptyBus[p]) = 0
<1>1. EmptyBus \in [Partitions -> {<<>>}]
  BY DEF EmptyBus
<1> QED BY <1>1, NothingInside
\* An account that Load finds is an opened one.
LEMMA Loaded ==
  ASSUME NEW t, Table(t), NEW a \in AccountIds,
         NEW x, x = Replay(EmptyAccount, t[a])
  PROVE  /\ x \in AccountState /\ x.version = LastVersion(t[a])
         /\ x.id # NoId => x.id = a /\ a \in Opened /\ x.version > 0
<1> DEFINE n == LastVersion(t[a])
<1>1. Stream(a, t[a], n) /\ (a \in Opened <=> n > 0)
  BY DEF Table
<1>2. x = States(t[a])[n]
  BY DEF Replay, States
<1>3. n \in Nat
  BY <1>1 DEF Stream
<1> HIDE DEF n
<1>4. /\ States(t[a])[n] \in AccountState /\ States(t[a])[n].version = n
      /\ n > 0 => States(t[a])[n].id = a
  BY <1>1, <1>3, StatesOfStream
<1>5. n = 0 => x = EmptyAccount
  BY <1>1, <1>2, AccumulatedIsTheLoop, EmptyAccountType, StreamRows DEF States
<1>6. n = 0 => x.id = NoId
  BY <1>5 DEF EmptyAccount
<1> QED
  BY <1>1, <1>2, <1>3, <1>4, <1>6 DEF n

\* A row that continues the stream of its account.
Continuing(t, a, e) ==
  /\ e \in Event /\ e.aggregate_id = a
  /\ e.version = LastVersion(t[a]) + 1
  /\ e.type # "account.opened"
  /\ a \in Opened

Store(t, a, e) == [t EXCEPT ![a] = Insert(@, <<e>>)]

\* The commit of one event: one new row, and Apply on its account.
LEMMA Committed ==
  ASSUME NEW t, Table(t), NEW a \in AccountIds, NEW e, Continuing(t, a, e),
         NEW u, u = Store(t, a, e)
  PROVE  /\ Table(u)
         /\ AllRows(u) = AllRows(t) \cup {e}
         /\ e \notin AllRows(t)
         /\ Replay(EmptyAccount, u[a]) = Apply(Replay(EmptyAccount, t[a]), e)
         /\ \A b \in AccountIds : b # a => u[b] = t[b]
<1> DEFINE n == LastVersion(t[a])
           s == Insert(t[a], <<e>>)
<1>1. Stream(a, t[a], n) /\ n > 0
  BY DEF Table, Continuing
<1>2. n \in Nat /\ DOMAIN t[a] = 1 .. n
  BY <1>1 DEF Stream
<1>3. /\ DOMAIN u = AccountIds /\ u[a] = s
      /\ \A b \in AccountIds : b # a => u[b] = t[b]
  BY DEF Table, Store
<1>4. e.version = n + 1
  BY DEF Continuing
<1> HIDE DEF n
<1>5. /\ Stream(a, s, n + 1)
      /\ s[n + 1] = e /\ \A v \in 1 .. n : s[v] = t[a][v]
      /\ Replay(EmptyAccount, s) = Apply(Replay(EmptyAccount, t[a]), e)
  <2>1. e \in Event /\ e.aggregate_id = a /\ (e.type = "account.opened" <=> n = 0)
    BY <1>1, <1>2 DEF Continuing
  <2> DEFINE r == t[a]
  <2>2. s = Insert(r, <<e>>) /\ Stream(a, r, n)
    BY <1>1
  <2> HIDE DEF r, s
  <2>3. /\ Stream(a, s, n + 1)
        /\ s[n + 1] = e /\ \A v \in 1 .. n : s[v] = r[v]
        /\ Replay(EmptyAccount, s) = Apply(Replay(EmptyAccount, r), e)
    BY <1>4, <2>1, <2>2, InsertOne
  <2> QED BY <2>3 DEF r
<1>6. LastVersion(s) = n + 1
  BY <1>5, StreamRows
<1> HIDE DEF s
<1>7. Table(u)
  <2>1. ASSUME NEW b \in AccountIds
        PROVE  Stream(b, u[b], LastVersion(u[b])) /\ (b \in Opened <=> LastVersion(u[b]) > 0)
    <3>1. CASE b = a
      BY <1>2, <1>3, <1>5, <1>6, <3>1 DEF Continuing
    <3>2. CASE b # a
      BY <1>3, <3>2 DEF Table
    <3> QED BY <3>1, <3>2
  <2> QED BY <1>3, <2>1 DEF Table
<1>8. ASSUME NEW r PROVE r \in AllRows(u) <=> r \in AllRows(t) \cup {e}
  <2>0. DOMAIN s = 1 .. n + 1
    BY <1>5 DEF Stream
  <2>1. \A v \in 1 .. n : v \in DOMAIN s /\ s[v] = t[a][v]
    BY <1>2, <1>5, <2>0
  <2>2. n + 1 \in DOMAIN s /\ s[n + 1] = e
    BY <1>2, <1>5, <2>0
  <2>3. \A v \in DOMAIN s : v \in 1 .. n \/ v = n + 1
    BY <1>2, <2>0
  <2>4. ASSUME r \in AllRows(u) PROVE r \in AllRows(t) \cup {e}
    <3>1. PICK b \in AccountIds : \E v \in DOMAIN u[b] : r = u[b][v]
      BY <2>4 DEF AllRows
    <3>2. CASE b = a
      BY <1>2, <1>3, <2>1, <2>2, <2>3, <3>1, <3>2 DEF AllRows
    <3>3. CASE b # a
      BY <1>3, <3>1, <3>3 DEF AllRows
    <3> QED BY <3>2, <3>3
  <2>5. ASSUME r \in AllRows(t) PROVE r \in AllRows(u)
    <3>1. PICK b \in AccountIds : \E v \in DOMAIN t[b] : r = t[b][v]
      BY <2>5 DEF AllRows
    <3>2. CASE b = a
      BY <1>2, <1>3, <2>1, <3>1, <3>2 DEF AllRows
    <3>3. CASE b # a
      BY <1>3, <3>1, <3>3 DEF AllRows
    <3> QED BY <3>2, <3>3
  <2>6. e \in AllRows(u)
    BY <1>3, <2>2 DEF AllRows
  <2> QED BY <2>4, <2>5, <2>6
<1>9. e \notin AllRows(t)
  <2>1. SUFFICES ASSUME e \in AllRows(t) PROVE FALSE
    OBVIOUS
  <2>2. PICK b \in AccountIds : \E v \in DOMAIN t[b] : e = t[b][v]
    BY <2>1 DEF AllRows
  <2>3. PICK v \in DOMAIN t[b] : e = t[b][v]
    BY <2>2
  <2>4. Stream(b, t[b], LastVersion(t[b]))
    BY DEF Table
  <2>5. b = a
    BY <2>3, <2>4 DEF Stream, Continuing
  <2>6. v \in 1 .. n /\ t[a][v].version = v
    BY <1>1, <1>2, <2>3, <2>5 DEF Stream
  <2> QED BY <1>2, <1>4, <2>3, <2>5, <2>6
<1> QED
  BY <1>3, <1>5, <1>7, <1>8, <1>9

\* The rows of the table are events, and only those of opened accounts.
LEMMA RowsOfTable ==
  ASSUME NEW t, Table(t), NEW r \in AllRows(t)
  PROVE  r \in Event /\ r.aggregate_id \in Opened
<1>1. PICK b \in AccountIds : \E v \in DOMAIN t[b] : r = t[b][v]
  BY DEF AllRows
<1>2. PICK v \in DOMAIN t[b] : r = t[b][v]
  BY <1>1
<1> DEFINE n == LastVersion(t[b])
<1>3. Stream(b, t[b], n) /\ (b \in Opened <=> n > 0)
  BY DEF Table
<1> HIDE DEF n
<1>4. v \in 1 .. n /\ n \in Nat /\ t[b][v] \in Event /\ t[b][v].aggregate_id = b
  BY <1>2, <1>3 DEF Stream
<1> QED BY <1>2, <1>3, <1>4

-----------------------------------------------------------------------------
(***************************************************************************)
(* The decisions                                                           *)
(***************************************************************************)
\* What each accepted command appends.
LEMMA Decisions ==
  ASSUME NEW t, Table(t), NEW a \in AccountIds, NEW x, x = Replay(EmptyAccount, t[a]),
         NEW tid \in TransferIds, NEW peer \in AccountIds, NEW n \in Nat
  PROVE  /\ LET d == DebitTransfer(x, tid, peer, n)
            IN  d.err = "nil" =>
                  /\ d.event = NewEvent(a, x.version + 1, "transfer.debited", n, tid, peer)
                  /\ Continuing(t, a, d.event)
         /\ LET d == CreditTransfer(x, tid, peer, n)
            IN  d.err = "nil" =>
                  /\ d.event = NewEvent(a, x.version + 1, "transfer.credited", n, tid, peer)
                  /\ Continuing(t, a, d.event)
         /\ LET d == ReverseTransfer(x, tid, n)
            IN  d.err = "nil" =>
                  /\ d.event = NewEvent(a, x.version + 1, "transfer.reversed", n, tid, NoId)
                  /\ Continuing(t, a, d.event)
<1>1. /\ x \in AccountState /\ x.version = LastVersion(t[a])
      /\ x.id # NoId => x.id = a /\ a \in Opened
  BY Loaded
<1>2. x.version \in Nat
  BY <1>1 DEF AccountState
<1>3. ASSUME NEW type \in TransferTypes, NEW who \in AccountIds \cup {NoId}, x.id # NoId
      PROVE  Continuing(t, a, NewEvent(x.id, x.version + 1, type, n, tid, who))
  <2>1. NewEvent(x.id, x.version + 1, type, n, tid, who) \in Event
    BY <1>1, <1>2, <1>3 DEF NewEvent, Event, TransferTypes, EventTypes
  <2> QED BY <1>1, <1>3, <2>1 DEF Continuing, NewEvent, TransferTypes
<1>4. guard(x, n) = "nil" => x.id # NoId
  BY DEF guard
<1>5. ASSUME DebitTransfer(x, tid, peer, n).err = "nil"
      PROVE  /\ x.id # NoId
             /\ DebitTransfer(x, tid, peer, n).event
                  = NewEvent(x.id, x.version + 1, "transfer.debited", n, tid, peer)
  BY <1>4, <1>5 DEF DebitTransfer, Accept, Refuse
<1>6. ASSUME CreditTransfer(x, tid, peer, n).err = "nil"
      PROVE  /\ x.id # NoId
             /\ CreditTransfer(x, tid, peer, n).event
                  = NewEvent(x.id, x.version + 1, "transfer.credited", n, tid, peer)
  BY <1>4, <1>6 DEF CreditTransfer, Accept, Refuse
<1>7. ASSUME ReverseTransfer(x, tid, n).err = "nil"
      PROVE  /\ x.id # NoId
             /\ ReverseTransfer(x, tid, n).event
                  = NewEvent(x.id, x.version + 1, "transfer.reversed", n, tid, NoId)
  BY <1>7 DEF ReverseTransfer, Accept, Refuse
<1> QED
  BY <1>1, <1>3, <1>5, <1>6, <1>7 DEF TransferTypes


-----------------------------------------------------------------------------
(***************************************************************************)
(* What the workers hold                                                   *)
(***************************************************************************)
\* The table only grows.
Grows == All \subseteq All' /\ Debits \subseteq Debits' /\ All \cap Debits' \subseteq Debits

\* A worker returns from process.
LEMMA LetsGo ==
  ASSUME Hands, Alone, NEW w \in Workers, Busy(w), Finish(w), events' = events \/ Grows,
         TransferSagaAssumption
  PROVE  /\ Hands' /\ Alone'
         /\ InHand' = InHand \ {event[w]}
         /\ \A v \in Workers : step'[v] \in {"credit", "reverse"} =>
              step'[v] = step[v] /\ event'[v] = event[v]
<1>1. /\ step' \in [Workers -> WorkerSteps] /\ step'[w] = "idle" /\ event'[w] = NoEvent
      /\ \A v \in Workers : v # w => step'[v] = step[v] /\ event'[v] = event[v]
                                     /\ attempt'[v] = attempt[v]
      /\ event' \in [Workers -> All \cup {NoEvent}]
      /\ attempt' \in [Workers -> 0 .. creditRetries] /\ attempt'[w] = 0
  BY DEF Hands, Finish, At, WorkerSteps, TransferSagaAssumption
<1>2. Grows
  BY DEF Grows, All, Debits
<1>3. Hands'
  <2>1. event' \in [Workers -> All' \cup {NoEvent}]
    BY <1>1, <1>2 DEF Grows
  <2> QED BY <1>1, <1>2, <2>1 DEF Hands, TransferSagaAssumption, Processing, Grows
<1>4. Alone'
  BY <1>1 DEF Alone, Busy
<1>5. InHand' = InHand \ {event[w]}
  BY <1>1 DEF InHand, Alone, Busy
<1> QED BY <1>1, <1>3, <1>4, <1>5

\* A worker goes on with the debit it has.
LEMMA GoesOn ==
  ASSUME Hands, Alone, NEW w \in Workers, step[w] \in Processing,
         NEW s \in Processing, At(w, s), event' = event, events' = events \/ Grows,
         attempt' \in [Workers -> 0 .. creditRetries],
         \A v \in Workers : v # w => attempt'[v] = attempt[v],
         s \in {"checkCredit", "credit"} => attempt'[w] < creditRetries
  PROVE  /\ Hands' /\ Alone' /\ InHand' = InHand
         /\ \A v \in Workers : v # w => step'[v] = step[v]
         /\ step'[w] = s
<1>1. /\ step' \in [Workers -> WorkerSteps] /\ step'[w] = s
      /\ \A v \in Workers : v # w => step'[v] = step[v]
  BY DEF Hands, At, WorkerSteps
<1>2. Grows
  BY DEF Grows, All, Debits
<1>3. \A v \in Workers : Busy(v)' <=> Busy(v)
  BY <1>1 DEF Busy, Processing
<1>4. Hands'
  <2>1. event' \in [Workers -> All' \cup {NoEvent}]
    BY <1>2 DEF Hands, Grows
  <2> QED BY <1>1, <1>2, <2>1 DEF Hands, Processing, Grows
<1>5. Alone'
  BY <1>3 DEF Alone
<1>6. InHand' = InHand
  BY <1>3 DEF InHand
<1> QED BY <1>1, <1>4, <1>5, <1>6

\* A worker takes an event nobody has, in place of the one it had if it had one.
LEMMA TakesUp ==
  ASSUME step \in [Workers -> WorkerSteps], event \in [Workers -> All \cup {NoEvent}],
         Alone, NEW w \in Workers, NEW s \in WorkerSteps, s # "idle", At(w, s),
         NEW e, e \notin InHand, event' = [event EXCEPT ![w] = e]
  PROVE  /\ Alone'
         /\ InHand' = (InHand \ IF Busy(w) THEN {event[w]} ELSE {}) \cup {e}
         /\ step' \in [Workers -> WorkerSteps] /\ step'[w] = s /\ event'[w] = e
         /\ \A v \in Workers : v # w => step'[v] = step[v] /\ event'[v] = event[v]
<1>1. /\ step' \in [Workers -> WorkerSteps] /\ step'[w] = s /\ event'[w] = e
      /\ \A v \in Workers : v # w => step'[v] = step[v] /\ event'[v] = event[v]
  BY DEF At
<1>2. Alone'
  BY <1>1 DEF Alone, Busy, InHand
<1>3. ASSUME NEW x \in InHand' PROVE x = e \/ (x \in InHand /\ ~(Busy(w) /\ x = event[w]))
  BY <1>1 DEF InHand, Busy, Alone
<1>4. e \in InHand'
  BY <1>1 DEF InHand, Busy
<1>5. ASSUME NEW x \in InHand, ~(Busy(w) /\ x = event[w]) PROVE x \in InHand'
  BY <1>1, <1>5 DEF InHand, Busy
<1> QED BY <1>1, <1>2, <1>3, <1>4, <1>5

\* The workers do nothing.
LEMMA HandsStay ==
  ASSUME UNCHANGED <<step, event, attempt>>
  PROVE  /\ InHand' = InHand
         /\ Alone' <=> Alone
         /\ All' = All => (Hands => Hands')
         /\ Grows => (Hands => Hands')
<1>1. InHand' = InHand
  BY DEF InHand, Busy
<1>2. Alone' <=> Alone
  BY DEF Alone, Busy
<1>3. ASSUME All' = All, Hands PROVE Hands'
  <2>1. Debits' = Debits
    BY <1>3 DEF Debits, All
  <2> QED BY <1>3, <2>1 DEF Hands
<1>4. ASSUME Grows, Hands PROVE Hands'
  <2>1. event' \in [Workers -> All' \cup {NoEvent}]
    BY <1>4 DEF Hands, Grows
  <2> QED BY <1>4, <2>1 DEF Hands, Grows
<1> QED BY <1>1, <1>2, <1>3, <1>4


-----------------------------------------------------------------------------
(***************************************************************************)
(* Steps that append nothing                                               *)
(***************************************************************************)
\* What is settled depends on the table alone.
LEMMA SameRows ==
  ASSUME events' = events
  PROVE  /\ All' = All /\ Debits' = Debits /\ Unsettled' = Unsettled
         /\ \A t : (Credited(t)' <=> Credited(t)) /\ (Reversed(t)' <=> Reversed(t))
BY DEF All, Debits, Unsettled, Credited, Reversed

\* A step that appends nothing only has to hand on what it holds.
LEMMA Quiet ==
  ASSUME SagaInv, events' = events, lost' = lost, Stored', Hands', OnePlace',
         InFlight' \subseteq InFlight \cup Unsettled,
         \A w \in Workers :
           /\ step'[w] = "credit" => \/ step[w] = "credit" /\ event'[w] = event[w]
                                     \/ ~Credited(event'[w].transfer_id)
           /\ step'[w] = "reverse" => \/ step[w] = "reverse" /\ event'[w] = event[w]
                                      \/ ~Reversed(event'[w].transfer_id),
         phase' \in {"boot", "serving"} => Unsettled \subseteq InFlight' \cup abandoned'
  PROVE  SagaInv'
<1>1. /\ All' = All /\ Debits' = Debits /\ Unsettled' = Unsettled
      /\ \A t : (Credited(t)' <=> Credited(t)) /\ (Reversed(t)' <=> Reversed(t))
  BY SameRows
<1>2. Table(events)'
  BY DEF SagaInv, Table
<1>3. Answers'
  <2>1. \A d \in InFlight' \cap Debits' : d.transfer_id \notin lost' => d \in Unsettled'
    BY <1>1 DEF SagaInv, Answers
  <2>2. ASSUME NEW w \in Workers
        PROVE  /\ step'[w] = "credit" => ~Credited(event'[w].transfer_id)
               /\ step'[w] = "reverse" => ~Reversed(event'[w].transfer_id)
    BY DEF SagaInv, Answers
  <2>3. ASSUME NEW w \in Workers
        PROVE  /\ step'[w] = "credit" => ~Credited(event[w].transfer_id)'
               /\ step'[w] = "reverse" => ~Reversed(event[w].transfer_id)'
    BY <2>2 DEF Credited, Reversed
  <2>4. /\ \A r \in All' : r.type \in TransferTypes => r.transfer_id \in TransferIds
        /\ \A r, s \in All' : r.type \in TransferTypes /\ r.type = s.type
                              /\ r.transfer_id = s.transfer_id => r = s
    BY <1>1 DEF SagaInv, Answers
  <2>6. /\ \A d \in Debits' : d.peer \in AccountIds
        /\ \A r \in All' : r.type \in TransferTypes =>
             \E d \in Debits' : d.transfer_id = r.transfer_id
    BY <1>1 DEF SagaInv, Answers
  <2>5. /\ \A t \in lost' : Credited(t)'
        /\ \A t \in TransferIds : Credited(t)' /\ Reversed(t)' => t \in lost'
    BY <1>1 DEF SagaInv, Answers
  <2> QED BY <2>1, <2>3, <2>4, <2>5, <2>6 DEF Answers
<1>4. Kept'
  BY <1>1 DEF Kept
<1> QED
  BY <1>2, <1>3, <1>4 DEF SagaInv

\* Bus.Publish of an event that is not on the bus.
LEMMA Sent ==
  ASSUME TransferSagaAssumption, SagaInv, events' = events, NEW e \in All,
         e \notin Carried(bus), Send(e)
  PROVE  /\ bus' \in [Partitions -> Seq(All)] /\ Sorted(bus', PartitionOf)
         /\ \A p \in Partitions : Len(bus'[p]) <= BusSize
         /\ \/ Carried(bus') = Carried(bus) \cup {e}
            \/ phase = "stopping" /\ Carried(bus') = Carried(bus)
<1> DEFINE p == PartitionOf[e.aggregate_id]
<1>1. p \in Partitions
  <2>1. e.aggregate_id \in AccountIds
    BY RowsOfTable DEF SagaInv, All, Event
  <2> QED BY <2>1 DEF TransferSagaAssumption
<1>2. /\ bus \in [Partitions -> Seq(All)] /\ Sorted(bus, PartitionOf)
      /\ \A q \in Partitions : Len(bus[q]) <= BusSize
  BY DEF SagaInv, Stored, OnePlace
<1>3. CASE phase = "stopping" /\ UNCHANGED bus
  BY <1>2, <1>3
<1>4. CASE Len(bus[p]) < BusSize /\ bus' = [bus EXCEPT ![p] = Append(@, e)]
  <2>1. /\ bus' \in [Partitions -> Seq(All)] /\ Sorted(bus', PartitionOf)
        /\ Carried(bus') = Carried(bus) \cup {e}
        /\ Len(bus'[p]) = Len(bus[p]) + 1
    <3> DEFINE S == All
    <3>1. bus \in [Partitions -> Seq(S)] /\ e \in S
      BY <1>2
    <3> HIDE DEF S, p
    <3>2. /\ bus' \in [Partitions -> Seq(S)] /\ Sorted(bus', PartitionOf)
          /\ Carried(bus') = Carried(bus) \cup {e}
          /\ Len(bus'[p]) = Len(bus[p]) + 1
      <4>1. p = Home(PartitionOf, e) /\ e \notin Carried(bus)
        BY DEF p, Home
      <4>2. bus' = Post(bus, p, e)
        BY <1>4 DEF Post
      <4>3. Sorted(bus, PartitionOf)
        BY <1>2
      <4> QED BY <1>1, <3>1, <4>1, <4>2, <4>3, Posted
    <3> QED BY <3>2 DEF S
  <2>2. Len(bus[p]) \in Nat
    BY <1>1, <1>2
  <2>3. Len(bus'[p]) <= BusSize
    BY <1>4, <2>1, <2>2 DEF TransferSagaAssumption
  <2>4. \A q \in Partitions : q # p => bus'[q] = bus[q]
    BY <1>2, <1>4
  <2> QED BY <1>2, <2>1, <2>3, <2>4
<1> QED
  BY <1>3, <1>4 DEF Send

\* The publish of StartTransfer.
LEMMA PublishStep ==
  ASSUME TransferSagaAssumption, SagaInv, NEW e \in unpublished, Publish(e)
  PROVE  SagaInv'
<1>1. /\ events' = events /\ lost' = lost /\ phase' = phase /\ unpublished' = unpublished \ {e}
      /\ UNCHANGED <<step, event, attempt>> /\ resuming' = resuming
      /\ queue' = queue /\ abandoned' = abandoned /\ Send(e)
  BY DEF Publish
<1>2. /\ All' = All /\ Debits' = Debits
  BY <1>1, SameRows
<1>3. e \in Debits /\ e \in All /\ e \notin Carried(bus)
  BY DEF SagaInv, Stored, Debits, All, OnePlace
<1>4. /\ bus' \in [Partitions -> Seq(All)] /\ Sorted(bus', PartitionOf)
      /\ \A p \in Partitions : Len(bus'[p]) <= BusSize
      /\ \/ Carried(bus') = Carried(bus) \cup {e}
         \/ phase = "stopping" /\ Carried(bus') = Carried(bus)
  BY <1>1, <1>3, Sent
<1>5. InHand' = InHand /\ (Alone' <=> Alone) /\ Hands'
  BY <1>1, <1>2, HandsStay DEF SagaInv
<1>6. Stored'
  BY <1>1, <1>2, <1>4 DEF SagaInv, Stored
<1>7. InFlight' \subseteq InFlight /\ (phase # "stopping" => InFlight \subseteq InFlight')
  BY <1>1, <1>4, <1>5 DEF InFlight
<1>8. OnePlace'
  BY <1>1, <1>4, <1>5, <1>7 DEF SagaInv, OnePlace
<1>9. phase' \in {"boot", "serving"} => Unsettled \subseteq InFlight' \cup abandoned'
  BY <1>1, <1>7 DEF SagaInv, Kept
<1> QED
  BY <1>1, <1>5, <1>6, <1>7, <1>8, <1>9, Quiet

\* A delivery, with Handle.
LEMMA DeliverStep ==
  ASSUME TransferSagaAssumption, SagaInv, NEW p \in Partitions, Deliver(p)
  PROVE  SagaInv'
<1> DEFINE h == Head(bus[p])
<1>1. /\ events' = events /\ lost' = lost /\ phase' = phase /\ unpublished' = unpublished
      /\ UNCHANGED <<step, event, attempt>> /\ resuming' = resuming
      /\ abandoned' = abandoned /\ bus[p] # <<>> /\ bus' = [bus EXCEPT ![p] = Tail(@)]
      /\ Handle(h)
  BY DEF Deliver
<1>2. All' = All /\ Debits' = Debits
  BY <1>1, SameRows
<1>3. /\ bus \in [Partitions -> Seq(All)] /\ Sorted(bus, PartitionOf)
      /\ \A q \in Partitions : Len(bus[q]) <= BusSize
      /\ queue \in Seq(Debits) /\ Len(queue) <= QueueSize /\ Once(queue)
  BY DEF SagaInv, Stored, OnePlace
<1>4. /\ bus' \in [Partitions -> Seq(All)] /\ Sorted(bus', PartitionOf)
      /\ h \in All /\ h \in Carried(bus)
      /\ Carried(bus') = Carried(bus) \ {h}
      /\ Len(bus'[p]) = Len(bus[p]) - 1
  <2> DEFINE S == All
  <2>1. bus \in [Partitions -> Seq(S)]
    BY <1>3
  <2> HIDE DEF S
  <2>2. /\ bus' \in [Partitions -> Seq(S)] /\ Sorted(bus', PartitionOf)
        /\ h \in S /\ h \in Carried(bus)
        /\ Carried(bus') = Carried(bus) \ {h}
        /\ Len(bus'[p]) = Len(bus[p]) - 1
    <3>1. bus' = Collect(bus, p) /\ bus[p] # <<>>
      BY <1>1 DEF Collect
    <3>2. Sorted(bus, PartitionOf)
      BY <1>3
    <3> QED BY <2>1, <3>1, <3>2, Collected
  <2> QED BY <2>2 DEF S
<1>5. \A q \in Partitions : Len(bus'[q]) <= BusSize
  <2>1. Len(bus[p]) \in Nat
    BY <1>3
  <2>2. \A q \in Partitions : q # p => bus'[q] = bus[q]
    BY <1>1, <1>3
  <2>3. Len(bus'[p]) <= BusSize
    BY <1>3, <1>4, <2>1 DEF TransferSagaAssumption
  <2> QED BY <1>3, <2>2, <2>3
<1> HIDE DEF h
<1>6. /\ queue' \in Seq(Debits) /\ Len(queue') <= QueueSize /\ Once(queue')
      /\ \/ h \in Debits /\ Range(queue') = Range(queue) \cup {h}
         \/ h \notin Debits /\ Range(queue') = Range(queue)
         \/ phase = "stopping" /\ Range(queue') = Range(queue)
  <2>1. CASE h.type # "transfer.debited" /\ UNCHANGED queue
    BY <1>3, <2>1 DEF Debits
  <2>2. CASE phase = "stopping" /\ UNCHANGED queue
    BY <1>3, <2>2
  <2>3. CASE h.type = "transfer.debited" /\ Len(queue) < QueueSize /\ queue' = Append(queue, h)
    <3>1. h \in Debits /\ h \notin Range(queue)
      BY <1>4, <2>3 DEF Debits, All, SagaInv, OnePlace
    <3> DEFINE S == Debits
    <3>2. queue \in Seq(S) /\ h \in S
      BY <1>3, <3>1
    <3> HIDE DEF S
    <3>3. /\ Append(queue, h) \in Seq(S) /\ Len(Append(queue, h)) = Len(queue) + 1
          /\ Once(Append(queue, h)) /\ Range(Append(queue, h)) = Range(queue) \cup {h}
      BY <1>3, <3>1, <3>2, Enqueued
    <3>4. Len(queue) \in Nat
      BY <3>2
    <3> QED BY <2>3, <3>1, <3>3, <3>4 DEF S, TransferSagaAssumption
  <2> QED BY <1>1, <2>1, <2>2, <2>3 DEF Handle
<1>7. InHand' = InHand /\ (Alone' <=> Alone) /\ Hands'
  BY <1>1, <1>2, HandsStay DEF SagaInv
<1>8. Stored'
  BY <1>1, <1>2, <1>4, <1>5, <1>6 DEF SagaInv, Stored
<1>9. /\ InFlight' \subseteq InFlight
      /\ phase # "stopping" => InFlight \cap Debits \subseteq InFlight'
  BY <1>1, <1>4, <1>6, <1>7 DEF InFlight
<1>10. OnePlace'
  <2>1. /\ Sorted(bus, PartitionOf)' /\ Once(queue)' /\ Alone'
        /\ Carried(bus)' = Carried(bus) \ {h}
        /\ Range(queue)' \subseteq Range(queue) \cup {h}
    BY <1>4, <1>6, <1>7 DEF SagaInv, OnePlace
  <2>2. UNCHANGED <<unpublished, resuming>> /\ InHand' = InHand
    BY <1>1, <1>7
  <2>3. /\ (unpublished \cup resuming)' \cap Carried(bus)' = {}
        /\ (unpublished \cup resuming \cup Carried(bus))' \cap Range(queue)' = {}
        /\ (unpublished \cup resuming \cup Carried(bus) \cup Range(queue))' \cap InHand' = {}
    BY <1>4, <2>1, <2>2 DEF SagaInv, OnePlace
  <2>4. phase' = "down" => InFlight' = {}
    BY <1>1, <1>9 DEF SagaInv, OnePlace
  <2> QED BY <2>1, <2>2, <2>3, <2>4 DEF SagaInv, OnePlace
<1>11. phase' \in {"boot", "serving"} => Unsettled \subseteq InFlight' \cup abandoned'
  BY <1>1, <1>9 DEF SagaInv, Kept, Unsettled
<1> QED
  BY <1>1, <1>7, <1>8, <1>9, <1>10, <1>11, Quiet


\* A step of a worker that keeps the debit it has, or lets it go for a reason:
\* it is settled, given up, or the service is stopping.
LEMMA WorkerStep ==
  ASSUME SagaInv, Hands', Alone', events' = events, lost' = lost,
         UNCHANGED <<phase, unpublished, bus, resuming, queue>>,
         NEW w \in Workers, Busy(w),
         \/ InHand' = InHand
         \/ InHand' = InHand \ {event[w]},
         abandoned' \subseteq Debits, abandoned \subseteq abandoned',
         \/ InHand' = InHand \/ phase = "stopping"
         \/ event[w] \notin Unsettled \/ event[w] \in abandoned',
         \A v \in Workers :
           /\ step'[v] = "credit" => \/ step[v] = "credit" /\ event'[v] = event[v]
                                     \/ ~Credited(event'[v].transfer_id)
           /\ step'[v] = "reverse" => \/ step[v] = "reverse" /\ event'[v] = event[v]
                                      \/ ~Reversed(event'[v].transfer_id)
  PROVE  SagaInv'
<1>1. All' = All /\ Debits' = Debits
  BY SameRows
<1>2. Stored'
  BY <1>1 DEF SagaInv, Stored
<1>3. InFlight' \subseteq InFlight
      /\ \A x \in InFlight : x \in InFlight' \/ (InHand' # InHand /\ x = event[w])
  BY DEF InFlight
<1>4. OnePlace'
  BY <1>3 DEF SagaInv, OnePlace
<1>5. phase' \in {"boot", "serving"} => Unsettled \subseteq InFlight' \cup abandoned'
  BY <1>3 DEF SagaInv, Kept
<1> QED
  BY <1>2, <1>3, <1>4, <1>5, Quiet

\* The queries of CreditTransfer and ReverseTransfer.
LEMMA CheckStep ==
  ASSUME TransferSagaAssumption, SagaInv, NEW w \in Workers, CheckCredit(w) \/ CheckReverse(w)
  PROVE  SagaInv'
<1>1. PICK from, type, to : /\ Check(w, from, type, to)
                            /\ \/ from = "checkCredit" /\ type = "transfer.credited"
                                  /\ to = "credit"
                               \/ from = "checkReverse" /\ type = "transfer.reversed"
                                  /\ to = "reverse"
  BY DEF CheckCredit, CheckReverse
<1> DEFINE done == HasTransferEvent(events, type, event[w].transfer_id)
<1>2. /\ step[w] = from /\ events' = events /\ lost' = lost /\ abandoned' = abandoned
      /\ UNCHANGED <<phase, unpublished, bus, resuming, queue>>
      /\ IF done THEN Finish(w) ELSE At(w, to) /\ UNCHANGED <<event, attempt>>
  BY <1>1 DEF Check
<1>3. step[w] \in Processing /\ Busy(w) /\ to \in Processing
  BY <1>1, <1>2 DEF Processing, Busy
<1>4. Hands /\ Alone /\ abandoned \subseteq Debits /\ event[w] \in Debits
  BY <1>3 DEF SagaInv, OnePlace, Hands, Stored
<1>5. CASE done
  <2>1. event[w] \notin Unsettled
    BY <1>1, <1>5 DEF Unsettled, Credited, Reversed
  <2>2. Finish(w)
    BY <1>2, <1>5
  <2>3. /\ Hands' /\ Alone' /\ InHand' = InHand \ {event[w]}
        /\ \A v \in Workers : step'[v] \in {"credit", "reverse"} =>
             step'[v] = step[v] /\ event'[v] = event[v]
    BY <1>2, <1>3, <1>4, <2>2, LetsGo
  <2> QED BY <1>2, <1>3, <1>4, <2>1, <2>3, WorkerStep
<1>6. CASE ~done
  <2>1. At(w, to) /\ event' = event /\ attempt' = attempt
    BY <1>2, <1>6
  <2>2. attempt \in [Workers -> 0 .. creditRetries]
        /\ (to \in {"checkCredit", "credit"} => attempt[w] < creditRetries)
    BY <1>1, <1>2, <1>4 DEF Hands
  <2>3. /\ Hands' /\ Alone' /\ InHand' = InHand /\ step'[w] = to
        /\ \A v \in Workers : v # w => step'[v] = step[v]
    BY <1>2, <1>3, <1>4, <2>1, <2>2, GoesOn
  <2>4. /\ to = "credit" => ~Credited(event'[w].transfer_id)
        /\ to = "reverse" => ~Reversed(event'[w].transfer_id)
    BY <1>1, <1>6, <2>1 DEF Credited, Reversed
  <2>5. ASSUME NEW v \in Workers
        PROVE /\ step'[v] = "credit" => \/ step[v] = "credit" /\ event'[v] = event[v]
                                        \/ ~Credited(event'[v].transfer_id)
              /\ step'[v] = "reverse" => \/ step[v] = "reverse" /\ event'[v] = event[v]
                                         \/ ~Reversed(event'[v].transfer_id)
    BY <2>1, <2>3, <2>4
  <2> QED BY <1>2, <1>3, <1>4, <2>3, <2>5, WorkerStep
<1> QED BY <1>5, <1>6

\* A business error.
LEMMA CreditRefusedStep ==
  ASSUME TransferSagaAssumption, SagaInv, NEW w \in Workers, CreditRefused(w)
  PROVE  SagaInv'
<1>1. /\ step[w] = "credit" /\ events' = events /\ lost' = lost /\ abandoned' = abandoned
      /\ UNCHANGED <<phase, unpublished, bus, resuming, queue>>
      /\ At(w, "checkReverse") /\ event' = event /\ attempt' = attempt
  BY DEF CreditRefused
<1>2. step[w] \in Processing /\ Busy(w) /\ "checkReverse" \in Processing
  BY <1>1 DEF Processing, Busy
<1>3. Hands /\ Alone /\ abandoned \subseteq Debits /\ attempt \in [Workers -> 0 .. creditRetries]
  BY DEF SagaInv, OnePlace, Hands, Stored
<1>4. /\ Hands' /\ Alone' /\ InHand' = InHand /\ step'[w] = "checkReverse"
      /\ \A v \in Workers : v # w => step'[v] = step[v]
  BY <1>1, <1>2, <1>3, GoesOn
<1> QED BY <1>1, <1>2, <1>3, <1>4, WorkerStep

\* The loop of process after an error, whatever it was.
LEMMA RetryKeeps ==
  ASSUME TransferSagaAssumption, Hands, Alone, NEW w \in Workers,
         step[w] \in {"checkCredit", "credit"}, Retry(w), events' = events \/ Grows
  PROVE  /\ Hands' /\ Alone'
         /\ \/ InHand' = InHand
            \/ phase = "stopping" /\ InHand' = InHand \ {event[w]}
         /\ \A v \in Workers : step'[v] \in {"credit", "reverse"} =>
              step'[v] = step[v] /\ event'[v] = event[v]
<1>1. step[w] \in Processing /\ Busy(w)
  BY DEF Processing, Busy
<1>2. CASE phase = "stopping"
  BY <1>1, <1>2, LetsGo DEF Retry
<1>3. CASE phase # "stopping"
  <2> DEFINE s == IF attempt[w] + 1 < creditRetries THEN "checkCredit" ELSE "checkReverse"
  <2>1. attempt' = [attempt EXCEPT ![w] = @ + 1] /\ At(w, s) /\ event' = event
    BY <1>3 DEF Retry
  <2>2. attempt \in [Workers -> 0 .. creditRetries] /\ attempt[w] < creditRetries
    BY DEF Hands
  <2>3. attempt' \in [Workers -> 0 .. creditRetries] /\ attempt'[w] = attempt[w] + 1
        /\ \A v \in Workers : v # w => attempt'[v] = attempt[v]
    BY <2>1, <2>2 DEF TransferSagaAssumption
  <2>4. s \in Processing /\ (s \in {"checkCredit", "credit"} => attempt'[w] < creditRetries)
        /\ s \notin {"credit", "reverse"}
    BY <2>3 DEF Processing
  <2> HIDE DEF s
  <2>5. /\ Hands' /\ Alone' /\ InHand' = InHand /\ step'[w] = s
        /\ \A v \in Workers : v # w => step'[v] = step[v]
    BY <1>1, <2>1, <2>3, <2>4, GoesOn
  <2> QED BY <2>1, <2>4, <2>5
<1> QED BY <1>2, <1>3

\* An error of the database.
LEMMA CreditFailsStep ==
  ASSUME TransferSagaAssumption, SagaInv, NEW w \in Workers, CreditFails(w)
  PROVE  SagaInv'
<1>1. /\ step[w] \in {"checkCredit", "credit"} /\ events' = events /\ lost' = lost
      /\ UNCHANGED <<phase, unpublished, bus, resuming, queue>>
      /\ abandoned' = abandoned /\ Retry(w)
  BY DEF CreditFails
<1>2. Hands /\ Alone /\ abandoned \subseteq Debits /\ Busy(w)
  BY <1>1 DEF SagaInv, OnePlace, Stored, Busy
<1>3. /\ Hands' /\ Alone'
      /\ \/ InHand' = InHand
         \/ phase = "stopping" /\ InHand' = InHand \ {event[w]}
      /\ \A v \in Workers : step'[v] \in {"credit", "reverse"} =>
           step'[v] = step[v] /\ event'[v] = event[v]
  BY <1>1, <1>2, RetryKeeps
<1> QED BY <1>1, <1>2, <1>3, WorkerStep

\* "will retry on next boot"
LEMMA ReverseFailsStep ==
  ASSUME TransferSagaAssumption, SagaInv, NEW w \in Workers, ReverseFails(w)
  PROVE  SagaInv'
<1>1. /\ step[w] \in {"checkReverse", "reverse"} /\ events' = events /\ lost' = lost
      /\ UNCHANGED <<phase, unpublished, bus, resuming, queue>>
      /\ abandoned' = abandoned \cup {event[w]} /\ Finish(w)
  BY DEF ReverseFails
<1>2. Hands /\ Alone /\ abandoned \subseteq Debits /\ event[w] \in Debits /\ Busy(w)
  BY <1>1 DEF SagaInv, OnePlace, Stored, Hands, Busy, Processing
<1>3. /\ Hands' /\ Alone' /\ InHand' = InHand \ {event[w]}
      /\ \A v \in Workers : step'[v] \in {"credit", "reverse"} =>
           step'[v] = step[v] /\ event'[v] = event[v]
  BY <1>1, <1>2, LetsGo
<1> QED BY <1>1, <1>2, <1>3, WorkerStep


\* The publish of what a worker recorded.
LEMMA PublishAnswerStep ==
  ASSUME TransferSagaAssumption, SagaInv, NEW w \in Workers, PublishAnswer(w)
  PROVE  SagaInv'
<1>1. /\ step[w] = "publish" /\ Send(event[w]) /\ Finish(w) /\ events' = events
      /\ lost' = lost /\ phase' = phase /\ unpublished' = unpublished
      /\ resuming' = resuming /\ queue' = queue /\ abandoned' = abandoned
  BY DEF PublishAnswer
<1> DEFINE e == event[w]
<1>2. All' = All /\ Debits' = Debits
  BY <1>1, SameRows
<1>3. Hands /\ Alone /\ e \in All /\ e \notin Debits /\ Busy(w)
  BY <1>1 DEF SagaInv, OnePlace, Hands, Busy
<1>4. /\ Hands' /\ Alone' /\ InHand' = InHand \ {e}
      /\ \A v \in Workers : step'[v] \in {"credit", "reverse"} =>
           step'[v] = step[v] /\ event'[v] = event[v]
  BY <1>1, <1>3, LetsGo
<1>5. e \in InHand
  BY <1>3 DEF InHand
<1>6. e \notin Carried(bus) /\ e \notin Range(queue)
      /\ e \notin unpublished /\ e \notin resuming
  BY <1>5 DEF SagaInv, OnePlace
<1> HIDE DEF e
<1>7. /\ bus' \in [Partitions -> Seq(All)] /\ Sorted(bus', PartitionOf)
      /\ \A p \in Partitions : Len(bus'[p]) <= BusSize
      /\ \/ Carried(bus') = Carried(bus) \cup {e}
         \/ phase = "stopping" /\ Carried(bus') = Carried(bus)
  BY <1>1, <1>3, <1>6, Sent DEF e
<1>8. Stored'
  BY <1>1, <1>2, <1>7 DEF SagaInv, Stored
<1>9. InFlight' \subseteq InFlight /\ \A x \in InFlight : x \in InFlight' \/ x = e
  BY <1>1, <1>4, <1>5, <1>7 DEF InFlight
<1>10. OnePlace'
  BY <1>1, <1>4, <1>6, <1>7, <1>9 DEF SagaInv, OnePlace
<1>11. phase' \in {"boot", "serving"} => Unsettled \subseteq InFlight' \cup abandoned'
  BY <1>1, <1>3, <1>9 DEF SagaInv, Kept, Unsettled
<1> QED
  BY <1>1, <1>4, <1>8, <1>9, <1>10, <1>11, Quiet

\* A worker takes the next debit of the queue.
LEMMA TakeStep ==
  ASSUME TransferSagaAssumption, SagaInv, NEW w \in Workers, Take(w)
  PROVE  SagaInv'
<1> DEFINE h == Head(queue)
<1>1. /\ step[w] = "idle" /\ queue # <<>> /\ event' = [event EXCEPT ![w] = h]
      /\ queue' = Tail(queue) /\ At(w, "checkCredit") /\ events' = events /\ lost' = lost
      /\ phase' = phase /\ unpublished' = unpublished /\ bus' = bus
      /\ resuming' = resuming /\ attempt' = attempt /\ abandoned' = abandoned
  BY DEF Take
<1>2. All' = All /\ Debits' = Debits
  BY <1>1, SameRows
<1>3. Hands /\ Alone /\ queue \in Seq(Debits) /\ Once(queue) /\ Len(queue) <= QueueSize
  BY DEF SagaInv, OnePlace, Stored
<1>4. /\ h \in Debits /\ h \in Range(queue) /\ Tail(queue) \in Seq(Debits)
      /\ Len(Tail(queue)) = Len(queue) - 1 /\ Once(Tail(queue))
      /\ Range(Tail(queue)) = Range(queue) \ {h}
  <2> DEFINE S == Debits
  <2>1. queue \in Seq(S)
    BY <1>3
  <2> HIDE DEF S
  <2>2. /\ h \in S /\ h \in Range(queue) /\ Tail(queue) \in Seq(S)
        /\ Len(Tail(queue)) = Len(queue) - 1 /\ Once(Tail(queue))
        /\ Range(Tail(queue)) = Range(queue) \ {h}
    BY <1>1, <1>3, <2>1, Dequeued
  <2> QED BY <2>2 DEF S
<1> HIDE DEF h
<1>5. h \notin InHand /\ ~Busy(w)
  BY <1>1, <1>4 DEF SagaInv, OnePlace, Busy
<1>6. /\ Alone' /\ InHand' = InHand \cup {h}
      /\ step' \in [Workers -> WorkerSteps] /\ step'[w] = "checkCredit" /\ event'[w] = h
      /\ \A v \in Workers : v # w => step'[v] = step[v] /\ event'[v] = event[v]
  <2>1. "checkCredit" \in WorkerSteps /\ "checkCredit" # "idle"
    BY DEF WorkerSteps, Processing
  <2>2. step \in [Workers -> WorkerSteps] /\ event \in [Workers -> All \cup {NoEvent}]
    BY <1>3 DEF Hands
  <2> QED BY <1>1, <1>3, <1>5, <2>1, <2>2, TakesUp
<1>7. Hands'
  <2>1. event' \in [Workers -> All' \cup {NoEvent}]
    BY <1>1, <1>2, <1>3, <1>4 DEF Hands, Debits, All
  <2>2. attempt[w] < creditRetries
    BY <1>1, <1>3 DEF Hands
  <2> QED BY <1>1, <1>2, <1>3, <1>4, <1>6, <2>1, <2>2 DEF Hands
<1>8. Stored'
  <2>1. Len(queue) \in Nat
    BY <1>3
  <2>2. Len(queue') <= QueueSize
    BY <1>1, <1>3, <1>4, <2>1 DEF TransferSagaAssumption
  <2> QED BY <1>1, <1>2, <1>4, <2>2 DEF SagaInv, Stored
<1>9. InFlight' = InFlight
  BY <1>1, <1>4, <1>6 DEF InFlight
<1>10. OnePlace'
  <2>1. Range(queue)' = Range(queue) \ {h} /\ Once(queue)'
    BY <1>1, <1>4
  <2> QED BY <1>1, <1>4, <1>6, <1>9, <2>1 DEF SagaInv, OnePlace
<1>11. phase' \in {"boot", "serving"} => Unsettled \subseteq InFlight' \cup abandoned'
  BY <1>1, <1>9 DEF SagaInv, Kept
<1> QED
  BY <1>1, <1>6, <1>7, <1>8, <1>9, <1>10, <1>11, Quiet

\* CatchUp queues a debit it found.
LEMMA CatchUpStep ==
  ASSUME TransferSagaAssumption, SagaInv, NEW e \in resuming, CatchUp(e)
  PROVE  SagaInv'
<1>1. /\ Len(queue) < QueueSize /\ resuming' = resuming \ {e} /\ queue' = Append(queue, e)
      /\ UNCHANGED <<step, event, attempt>> /\ events' = events /\ lost' = lost
      /\ phase' = phase /\ unpublished' = unpublished /\ bus' = bus
      /\ abandoned' = abandoned
  BY DEF CatchUp
<1>2. All' = All /\ Debits' = Debits
  BY <1>1, SameRows
<1>3. /\ queue \in Seq(Debits) /\ Once(queue) /\ e \in Debits /\ e \notin Range(queue)
      /\ e \notin InHand
  BY DEF SagaInv, OnePlace, Stored
<1>4. /\ queue' \in Seq(Debits) /\ Len(queue') = Len(queue) + 1
      /\ Once(queue') /\ Range(queue') = Range(queue) \cup {e}
  <2> DEFINE S == Debits
  <2>1. queue \in Seq(S) /\ e \in S
    BY <1>3
  <2> HIDE DEF S
  <2>2. /\ Append(queue, e) \in Seq(S) /\ Len(Append(queue, e)) = Len(queue) + 1
        /\ Once(Append(queue, e)) /\ Range(Append(queue, e)) = Range(queue) \cup {e}
    BY <1>3, <2>1, Enqueued
  <2> QED BY <1>1, <2>2 DEF S
<1>5. InHand' = InHand /\ (Alone' <=> Alone) /\ Hands'
  BY <1>1, <1>2, HandsStay DEF SagaInv
<1>6. Stored'
  <2>1. Len(queue) \in Nat
    BY <1>3
  <2>2. Len(queue') <= QueueSize
    BY <1>1, <1>4, <2>1 DEF TransferSagaAssumption
  <2> QED BY <1>1, <1>2, <1>4, <2>2 DEF SagaInv, Stored
<1>7. InFlight' = InFlight
  BY <1>1, <1>4, <1>5 DEF InFlight
<1>8. OnePlace'
  BY <1>1, <1>3, <1>4, <1>5, <1>7 DEF SagaInv, OnePlace
<1>9. phase' \in {"boot", "serving"} => Unsettled \subseteq InFlight' \cup abandoned'
  BY <1>1, <1>7 DEF SagaInv, Kept
<1> QED
  BY <1>1, <1>5, <1>6, <1>7, <1>8, <1>9, Quiet

\* The end of the process, by Crash or Exit.
LEMMA DieStep ==
  ASSUME TransferSagaAssumption, SagaInv, Die
  PROVE  SagaInv'
<1>1. /\ phase' = "down" /\ unpublished' = {} /\ bus' = EmptyBus /\ resuming' = {}
      /\ queue' = <<>> /\ step' = [w \in Workers |-> "idle"]
      /\ event' = [w \in Workers |-> NoEvent] /\ attempt' = [w \in Workers |-> 0]
      /\ abandoned' = {} /\ events' = events /\ lost' = lost
  BY DEF Die
<1>2. All' = All /\ Debits' = Debits
  BY <1>1, SameRows
<1>3. \A w \in Workers : ~Busy(w)'
  BY <1>1 DEF Busy
<1>4. InHand' = {} /\ Alone'
  BY <1>3 DEF InHand, Alone
<1>5. /\ bus' \in [Partitions -> Seq(All)] /\ Sorted(bus', PartitionOf) /\ Carried(bus') = {}
      /\ \A p \in Partitions : Len(bus'[p]) = 0
      /\ queue' \in Seq(Debits) /\ Len(queue') = 0 /\ Once(queue') /\ Range(queue') = {}
  BY <1>1, NothingCarried, NothingQueued
<1>6. Stored'
  BY <1>1, <1>2, <1>5 DEF Stored, TransferSagaAssumption
<1>7. Hands'
  BY <1>1, <1>2 DEF Hands, TransferSagaAssumption, WorkerSteps, Processing
<1>8. InFlight' = {}
  BY <1>1, <1>4, <1>5 DEF InFlight
<1>9. OnePlace'
  BY <1>1, <1>4, <1>5, <1>8 DEF OnePlace
<1>10. phase' \notin {"boot", "serving"} /\ \A w \in Workers : step'[w] = "idle"
  BY <1>1
<1> QED
  BY <1>1, <1>6, <1>7, <1>8, <1>9, <1>10, Quiet

\* The query of CatchUp finds exactly what has no answer.
LEMMA BootStep ==
  ASSUME TransferSagaAssumption, SagaInv, Boot
  PROVE  SagaInv'
<1>1. /\ phase = "down" /\ phase' = "boot" /\ resuming' = PendingTransferDebits(events)
      /\ UNCHANGED <<step, event, attempt>> /\ events' = events /\ lost' = lost
      /\ queue' = queue /\ unpublished' = unpublished /\ bus' = bus
      /\ abandoned' = abandoned
  BY DEF Boot
<1>2. All' = All /\ Debits' = Debits
  BY <1>1, SameRows
<1>3. resuming' = Unsettled
  BY <1>1 DEF PendingTransferDebits, Unsettled, Debits, Credited, Reversed
<1>4. InHand' = InHand /\ (Alone' <=> Alone) /\ Hands'
  BY <1>1, <1>2, HandsStay DEF SagaInv
<1>5. InFlight = {}
  BY <1>1 DEF SagaInv, OnePlace
<1>6. unpublished = {} /\ Carried(bus) = {} /\ Range(queue) = {} /\ InHand = {}
  BY <1>5 DEF InFlight
<1>7. InFlight' = Unsettled
  BY <1>1, <1>3, <1>4, <1>6 DEF InFlight
<1>8. Stored'
  BY <1>1, <1>2, <1>3 DEF SagaInv, Stored, Unsettled
<1>9. OnePlace'
  BY <1>1, <1>3, <1>4, <1>6 DEF SagaInv, OnePlace
<1> QED
  BY <1>1, <1>4, <1>7, <1>8, <1>9, Quiet

\* ListenAndServe and Shutdown only change the phase.
LEMMA PhaseStep ==
  ASSUME TransferSagaAssumption, SagaInv, ListenAndServe \/ Shutdown
  PROVE  SagaInv'
<1>1. /\ phase \in {"boot", "serving"} /\ phase' \in {"serving", "stopping"}
      /\ UNCHANGED <<step, event, attempt>> /\ events' = events /\ lost' = lost
      /\ queue' = queue /\ unpublished' = unpublished /\ bus' = bus
      /\ abandoned' = abandoned /\ resuming' = resuming
  BY DEF ListenAndServe, Shutdown, volatile
<1>2. All' = All /\ Debits' = Debits
  BY <1>1, SameRows
<1>3. InHand' = InHand /\ (Alone' <=> Alone) /\ Hands'
  BY <1>1, <1>2, HandsStay DEF SagaInv
<1>4. InFlight' = InFlight
  BY <1>1, <1>3 DEF InFlight
<1>5. Stored'
  BY <1>1, <1>2 DEF SagaInv, Stored
<1>6. OnePlace'
  BY <1>1, <1>3, <1>4 DEF SagaInv, OnePlace
<1>7. phase' \in {"boot", "serving"} => Unsettled \subseteq InFlight' \cup abandoned'
  BY <1>1, <1>4 DEF SagaInv, Kept
<1> QED
  BY <1>1, <1>3, <1>4, <1>5, <1>6, <1>7, Quiet


-----------------------------------------------------------------------------
(***************************************************************************)
(* Steps that append                                                       *)
(***************************************************************************)
\* One more row.
OneRow(e) == All' = All \cup {e} /\ e \notin All /\ e \in Event

\* Append1 of an event that continues its stream.
LEMMA Appended ==
  ASSUME SagaInv, NEW a \in AccountIds, NEW e, Continuing(events, a, e), Append1(e)
  PROVE  /\ Table(events)' /\ OneRow(e)
         /\ Load(a)' = Apply(Load(a), e)
         /\ \A b \in AccountIds : b # a => Load(b)' = Load(b)
<1>1. Table(events)
  BY DEF SagaInv
<1>2. events' = Store(events, a, e)
  BY DEF Append1, Continuing, Store
<1>3. /\ Table(events') /\ AllRows(events') = AllRows(events) \cup {e}
      /\ e \notin AllRows(events)
      /\ Replay(EmptyAccount, events'[a]) = Apply(Replay(EmptyAccount, events[a]), e)
      /\ \A b \in AccountIds : b # a => events'[b] = events[b]
  BY <1>1, <1>2, Committed
<1> QED
  BY <1>3 DEF OneRow, All, Load, Continuing

\* What one more row settles.
LEMMA NewRow ==
  ASSUME NEW e, OneRow(e)
  PROVE  /\ Grows
         /\ Debits' = Debits \cup IF e.type = "transfer.debited" THEN {e} ELSE {}
         /\ \A t : Credited(t)' <=> Credited(t)
                     \/ (e.type = "transfer.credited" /\ t = e.transfer_id)
         /\ \A t : Reversed(t)' <=> Reversed(t)
                     \/ (e.type = "transfer.reversed" /\ t = e.transfer_id)
<1>1. AllRows(events') = AllRows(events) \cup {e} /\ e \notin AllRows(events)
  BY DEF OneRow, All
<1>2. Debits' = Debits \cup IF e.type = "transfer.debited" THEN {e} ELSE {}
  BY <1>1 DEF Debits
<1>3. Grows
  BY <1>1, <1>2 DEF Grows, All
<1>4. ASSUME NEW t PROVE Credited(t)' <=> Credited(t)
                     \/ (e.type = "transfer.credited" /\ t = e.transfer_id)
  BY <1>1 DEF Credited, HasTransferEvent
<1>5. ASSUME NEW t PROVE Reversed(t)' <=> Reversed(t)
                     \/ (e.type = "transfer.reversed" /\ t = e.transfer_id)
  BY <1>1 DEF Reversed, HasTransferEvent
<1> QED BY <1>2, <1>3, <1>4, <1>5

\* What is in memory is in the table.
LEMMA FlightIsRecorded ==
  ASSUME SagaInv
  PROVE  InFlight \subseteq All
<1>1. Debits \subseteq All
  BY DEF Debits, All
<1>2. unpublished \subseteq All /\ resuming \subseteq All
  BY <1>1 DEF SagaInv, Stored
<1>3. Range(queue) \subseteq All
  BY <1>1 DEF SagaInv, Stored, Range
<1>4. Carried(bus) \subseteq All
  BY DEF SagaInv, Stored, Carried, Range
<1>5. InHand \subseteq All
  <2>1. ASSUME NEW w \in Workers, Busy(w) PROVE event[w] \in All
    <3>1. step[w] \in WorkerSteps \ {"idle"}
      BY <2>1 DEF SagaInv, Hands, Busy
    <3> QED BY <1>1, <3>1 DEF SagaInv, Hands, WorkerSteps
  <2> QED BY <2>1 DEF InHand
<1> QED BY <1>2, <1>3, <1>4, <1>5 DEF InFlight

\* What is stored stays so when the table grows.
LEMMA StoredGrows ==
  ASSUME SagaInv, Grows, UNCHANGED <<phase, bus, resuming, queue>>,
         unpublished' \subseteq Debits', abandoned' \subseteq Debits'
  PROVE  Stored'
<1>1. bus' \in [Partitions -> Seq(All')]
  <2> DEFINE S == All
             T == All'
  <2>1. S \subseteq T /\ bus \in [Partitions -> Seq(S)]
    BY DEF SagaInv, Stored, Grows
  <2> HIDE DEF S, T
  <2>2. bus \in [Partitions -> Seq(T)]
    BY <2>1, SeqMonotonic
  <2> QED BY <2>2 DEF T
<1>2. queue' \in Seq(Debits')
  <2> DEFINE S == Debits
             T == Debits'
  <2>1. S \subseteq T /\ queue \in Seq(S)
    BY DEF SagaInv, Stored, Grows
  <2> HIDE DEF S, T
  <2>2. queue \in Seq(T)
    BY <2>1, SeqMonotonic
  <2> QED BY <2>2 DEF T
<1> QED BY <1>1, <1>2 DEF SagaInv, Stored, Grows

\* The commit of StartTransfer.
LEMMA StartTransferStep ==
  ASSUME TransferSagaAssumption, AccountAssumption, SagaInv, NEW t \in TransferIds,
         NEW from \in Opened, NEW to \in AccountIds, NEW n \in Amounts,
         StartTransfer(t, from, to, n)
  PROVE  SagaInv'
<1> DEFINE d == DebitTransfer(Load(from), t, to, n)
           e == d.event
<1>1. /\ \A r \in All : r.transfer_id # t
      /\ d.err = "nil" /\ Append1(e) /\ phase' = phase /\ phase # "down"
      /\ \/ unpublished' = unpublished \cup {e} /\ UNCHANGED abandoned
         \/ abandoned' = abandoned \cup {e} /\ UNCHANGED unpublished
      /\ bus' = bus /\ resuming' = resuming /\ queue' = queue
      /\ UNCHANGED <<step, event, attempt>> /\ lost' = lost
  BY DEF StartTransfer, All
<1>2. from \in AccountIds /\ n \in Nat
  BY DEF TransferSagaAssumption, AccountAssumption
<1>3. /\ e = NewEvent(from, Load(from).version + 1, "transfer.debited", n, t, to)
      /\ Continuing(events, from, e)
  BY <1>1, <1>2, Decisions DEF SagaInv, Load
<1> HIDE DEF d, e
<1>4. e.type = "transfer.debited" /\ e.transfer_id = t /\ e.peer = to
  BY <1>3 DEF NewEvent
<1>5. Table(events)' /\ OneRow(e)
  BY <1>1, <1>2, <1>3, Appended
<1>6. /\ Grows /\ Debits' = Debits \cup {e}
      /\ \A u : (Credited(u)' <=> Credited(u)) /\ (Reversed(u)' <=> Reversed(u))
  BY <1>4, <1>5, NewRow
<1>7. ~Credited(t) /\ ~Reversed(t) /\ t \notin lost
  <2>1. ~Credited(t) /\ ~Reversed(t)
    BY <1>1 DEF Credited, Reversed, HasTransferEvent, All
  <2> QED BY <2>1 DEF SagaInv, Answers
<1>8. Unsettled' = Unsettled \cup {e}
  BY <1>4, <1>6, <1>7 DEF Unsettled
<1>9. Stored'
  <2>1. unpublished' \subseteq Debits' /\ abandoned' \subseteq Debits'
    BY <1>1, <1>6 DEF SagaInv, Stored
  <2> QED BY <1>1, <1>6, <2>1, StoredGrows
<1>10. InHand' = InHand /\ (Alone' <=> Alone) /\ Hands'
  BY <1>1, <1>6, HandsStay DEF SagaInv
<1>11. e \notin InFlight /\ InFlight \subseteq All
  BY <1>5, FlightIsRecorded DEF OneRow
<1>12. /\ e \notin unpublished /\ e \notin resuming /\ e \notin Carried(bus)
       /\ e \notin Range(queue) /\ e \notin InHand
  BY <1>11 DEF InFlight
<1>13. /\ InFlight' \subseteq InFlight \cup {e} /\ InFlight \subseteq InFlight'
       /\ e \in InFlight' \cup abandoned' /\ abandoned \subseteq abandoned'
  BY <1>1, <1>10 DEF InFlight
<1>14. OnePlace'
  BY <1>1, <1>10, <1>12 DEF SagaInv, OnePlace
<1>15. Kept'
  BY <1>1, <1>8, <1>13 DEF SagaInv, Kept
<1>16. Answers'
  <2>1. All' = All \cup {e}
    BY <1>5 DEF OneRow
  <2>2. /\ \A r \in All' : r.type \in TransferTypes => r.transfer_id \in TransferIds
        /\ \A x \in Debits' : x.peer \in AccountIds
        /\ \A r, s \in All' : r.type \in TransferTypes /\ r.type = s.type
                              /\ r.transfer_id = s.transfer_id => r = s
    BY <1>1, <1>4, <1>6, <2>1 DEF SagaInv, Answers
  <2>3. /\ \A u \in lost' : Credited(u)'
        /\ \A u \in TransferIds : Credited(u)' /\ Reversed(u)' => u \in lost'
    BY <1>1, <1>6 DEF SagaInv, Answers
  <2>4. \A x \in InFlight' \cap Debits' : x.transfer_id \notin lost' => x \in Unsettled'
    BY <1>1, <1>6, <1>8, <1>13 DEF SagaInv, Answers
  <2>5. ASSUME NEW w \in Workers
        PROVE  /\ step'[w] = "credit" => ~Credited(event[w].transfer_id)'
               /\ step'[w] = "reverse" => ~Reversed(event[w].transfer_id)'
    <3>1. /\ step[w] = "credit" => ~Credited(event[w].transfer_id)
          /\ step[w] = "reverse" => ~Reversed(event[w].transfer_id)
      BY DEF SagaInv, Answers
    <3>2. PICK u : u = event[w].transfer_id /\ event'[w] = event[w] /\ step'[w] = step[w]
      BY <1>1
    <3>3. ~Credited(u) => ~Credited(u)'
      BY <1>6
    <3>4. ~Reversed(u) => ~Reversed(u)'
      BY <1>6
    <3>5. (Credited(u)' <=> Credited(event[w].transfer_id)')
          /\ (Reversed(u)' <=> Reversed(event[w].transfer_id)')
      BY <3>2 DEF Credited, Reversed
    <3> QED BY <3>1, <3>2, <3>3, <3>4, <3>5
  <2>6. \A r \in All' : r.type \in TransferTypes =>
          \E x \in Debits' : x.transfer_id = r.transfer_id
    BY <1>6, <2>1 DEF SagaInv, Answers
  <2> QED BY <2>2, <2>3, <2>4, <2>5, <2>6 DEF Answers
<1> QED BY <1>5, <1>9, <1>10, <1>14, <1>15, <1>16 DEF SagaInv


\* A worker settles the transfer of the debit it has: it was the only one to have
\* it, so what its query found was still true.
LEMMA SettleStep ==
  ASSUME SagaInv, Table(events)', NEW w \in Workers, NEW e, OneRow(e),
         \/ step[w] = "credit" /\ e.type = "transfer.credited"
         \/ step[w] = "reverse" /\ e.type = "transfer.reversed",
         e.transfer_id = event[w].transfer_id,
         UNCHANGED <<phase, unpublished, bus, resuming, queue, abandoned>>,
         Hands', Alone',
         \/ lost' = lost
         \/ lost' = lost \cup {e.transfer_id} /\ e.type = "transfer.credited",
         InHand \ {event[w]} \subseteq InHand',
         \/ InHand' \subseteq (InHand \ {event[w]}) \cup {e}
         \/ InHand' \subseteq InHand /\ e.transfer_id \in lost',
         \A v \in Workers : step'[v] \in {"credit", "reverse"} =>
           v # w /\ step'[v] = step[v] /\ event'[v] = event[v]
  PROVE  SagaInv'
<1> DEFINE d == event[w]
           t == e.transfer_id
<1>1. /\ Grows /\ Debits' = Debits /\ All' = All \cup {e} /\ e \notin All
      /\ \A u : Credited(u)' <=> Credited(u) \/ (e.type = "transfer.credited" /\ u = t)
      /\ \A u : Reversed(u)' <=> Reversed(u) \/ (e.type = "transfer.reversed" /\ u = t)
  <2>1. All' = All \cup {e} /\ e \notin All
    BY DEF OneRow
  <2>2. Debits' = Debits \cup IF e.type = "transfer.debited" THEN {e} ELSE {}
    BY NewRow
  <2> QED BY <2>1, <2>2, NewRow
<1>2. Busy(w) /\ d \in Debits /\ d \in InHand /\ d.transfer_id = t
  BY DEF SagaInv, Hands, Busy, Processing, InHand
<1>3. /\ d \notin unpublished /\ d \notin resuming /\ d \notin Carried(bus)
      /\ d \notin Range(queue)
  BY <1>2 DEF SagaInv, OnePlace
<1>4. ASSUME NEW x \in Debits, x.transfer_id = t PROVE x = d
  BY <1>2, <1>4 DEF SagaInv, Answers, Debits, All, TransferTypes
<1>5. t \in TransferIds
  BY <1>2 DEF SagaInv, Answers, Debits, All, TransferTypes
<1>6. t \notin lost => ~Credited(t) /\ ~Reversed(t)
  BY <1>2 DEF SagaInv, Answers, InFlight, Unsettled
<1>7. /\ e.type = "transfer.credited" => ~Credited(t)
      /\ e.type = "transfer.reversed" => ~Reversed(t)
  BY <1>2 DEF SagaInv, Answers
<1>8. \A r \in All : ~(r.type = e.type /\ r.transfer_id = t)
  BY <1>7 DEF Credited, Reversed, HasTransferEvent, All
<1>9. InFlight \subseteq All /\ e \notin InFlight /\ e \notin Debits
  BY <1>1, FlightIsRecorded DEF Debits, All
<1> HIDE DEF d, t
<1>10. /\ e \notin unpublished /\ e \notin resuming /\ e \notin Carried(bus)
       /\ e \notin Range(queue)
  BY <1>9 DEF InFlight
<1>11. InHand' \subseteq InHand \cup {e}
  OBVIOUS
<1>12. Stored'
  <2>1. unpublished' \subseteq Debits' /\ abandoned' \subseteq Debits'
    BY <1>1 DEF SagaInv, Stored
  <2> QED BY <1>1, <2>1, StoredGrows
<1>13. OnePlace'
  <2>1. phase # "down"
    BY <1>2 DEF SagaInv, OnePlace, InFlight
  <2> QED BY <1>10, <1>11, <2>1 DEF SagaInv, OnePlace
<1>14. /\ InFlight' \subseteq InFlight \cup {e}
       /\ InFlight \ {d} \subseteq InFlight'
       /\ d \in InFlight' => t \in lost'
  <2>1. InHand \ {d} \subseteq InHand' /\ (d \in InHand' => t \in lost')
    BY <1>2, <1>9 DEF d, t
  <2> QED BY <1>3, <1>11, <2>1 DEF InFlight
<1>15. ASSUME NEW x \in Debits, x # d
       PROVE  x \in Unsettled' <=> x \in Unsettled
  <2>1. x.transfer_id # t
    BY <1>4, <1>15
  <2> QED BY <1>1, <2>1 DEF Unsettled
<1>16. d \notin Unsettled'
  BY <1>1, <1>2 DEF Unsettled
<1>17. Kept'
  <2>1. Unsettled' \subseteq Debits
    BY <1>1 DEF Unsettled
  <2> QED BY <1>14, <1>15, <1>16, <2>1 DEF SagaInv, Kept
<1>18. Answers'
  <2>1. /\ \A r \in All' : r.type \in TransferTypes => r.transfer_id \in TransferIds
        /\ \A x \in Debits' : x.peer \in AccountIds
    BY <1>1, <1>5 DEF SagaInv, Answers, t
  <2>2. ASSUME NEW r \in All', NEW s \in All', r.type \in TransferTypes, r.type = s.type,
               r.transfer_id = s.transfer_id
        PROVE  r = s
    <3>1. CASE r \in All /\ s \in All
      BY <2>2, <3>1 DEF SagaInv, Answers
    <3>2. CASE r = e \/ s = e
      BY <1>1, <1>8, <2>2, <3>2 DEF t
    <3> QED BY <1>1, <3>1, <3>2
  <2>3. \A u \in lost' : Credited(u)'
    BY <1>1 DEF SagaInv, Answers, t
  <2>4. \A u \in TransferIds : Credited(u)' /\ Reversed(u)' => u \in lost'
    BY <1>1, <1>6 DEF SagaInv, Answers
  <2>5. ASSUME NEW x \in InFlight' \cap Debits', x.transfer_id \notin lost'
        PROVE  x \in Unsettled'
    <3>1. x # d
      BY <1>2, <1>14, <2>5
    <3>2. x \in InFlight /\ x \in Debits /\ x.transfer_id \notin lost
      BY <1>1, <1>9, <1>14, <2>5
    <3>3. x \in Unsettled
      BY <3>2 DEF SagaInv, Answers
    <3> QED BY <1>15, <3>1, <3>2, <3>3
  <2>6. ASSUME NEW v \in Workers
        PROVE  /\ step'[v] = "credit" => ~Credited(event[v].transfer_id)'
               /\ step'[v] = "reverse" => ~Reversed(event[v].transfer_id)'
    <3>1. SUFFICES ASSUME step'[v] \in {"credit", "reverse"}
                   PROVE  /\ step'[v] = "credit" => ~Credited(event[v].transfer_id)'
                          /\ step'[v] = "reverse" => ~Reversed(event[v].transfer_id)'
      OBVIOUS
    <3>2. PICK u : u = event[v].transfer_id
      OBVIOUS
    <3>3. v # w /\ step'[v] = step[v] /\ event'[v] = event[v]
      BY <3>1
    <3>4. Busy(v) /\ event[v] \in Debits
      BY <3>1, <3>3 DEF SagaInv, Hands, Busy, Processing
    <3>5. event[v] # d
      BY <1>2, <3>3, <3>4 DEF SagaInv, OnePlace, Alone, d
    <3>6. u # t
      BY <1>4, <3>2, <3>4, <3>5
    <3>7. (step[v] = "credit" => ~Credited(u)) /\ (step[v] = "reverse" => ~Reversed(u))
      BY <3>2 DEF SagaInv, Answers
    <3>8. (step[v] = "credit" => ~Credited(u)') /\ (step[v] = "reverse" => ~Reversed(u)')
      BY <1>1, <3>6, <3>7
    <3>9. (Credited(u)' <=> Credited(event[v].transfer_id)')
          /\ (Reversed(u)' <=> Reversed(event[v].transfer_id)')
      BY <3>2, <3>3 DEF Credited, Reversed
    <3> QED BY <3>3, <3>8, <3>9
  <2>7. \A r \in All' : r.type \in TransferTypes =>
          \E x \in Debits' : x.transfer_id = r.transfer_id
    BY <1>1, <1>2 DEF SagaInv, Answers, t
  <2> QED BY <2>1, <2>2, <2>3, <2>4, <2>5, <2>6, <2>7 DEF Answers
<1> QED BY <1>12, <1>13, <1>17, <1>18 DEF SagaInv

\* What CreditTransfer appends for the debit a worker has.
LEMMA CreditAppends ==
  ASSUME TransferSagaAssumption, SagaInv, NEW w \in Workers, step[w] = "credit",
         NEW e, e = CreditDecision(w).event, CreditDecision(w).err = "nil", Append1(e)
  PROVE  /\ Table(events)' /\ OneRow(e) /\ e.type = "transfer.credited"
         /\ e.transfer_id = event[w].transfer_id /\ e.amount = event[w].amount
         /\ \E a \in Opened : /\ a = event[w].peer
                             /\ Load(a)' = Apply(Load(a), e)
                             /\ \A b \in AccountIds : b # a => Load(b)' = Load(b)
<1>1. event[w] \in Debits
  BY DEF SagaInv, Hands, Processing
<1>2. PICK d : d = event[w]
  OBVIOUS
<1>3. /\ d \in Event /\ d.peer \in AccountIds /\ d.transfer_id \in TransferIds
      /\ d.aggregate_id \in AccountIds /\ d.amount \in Nat
  <2>1. d \in All /\ d.type = "transfer.debited"
    BY <1>1, <1>2 DEF Debits, All
  <2>2. d \in Event
    BY <2>1, RowsOfTable DEF SagaInv, All
  <2> QED BY <1>1, <1>2, <2>1, <2>2 DEF SagaInv, Answers, TransferTypes, Event
<1>0. PICK a : a = d.peer
  OBVIOUS
<1> DEFINE x == Load(a)
<1>4. /\ e = CreditTransfer(x, d.transfer_id, d.aggregate_id, d.amount).event
      /\ CreditTransfer(x, d.transfer_id, d.aggregate_id, d.amount).err = "nil"
  BY <1>0, <1>2 DEF CreditDecision
<1>5. x = Replay(EmptyAccount, events[a])
  BY DEF Load
<1> HIDE DEF x
<1>6. a \in AccountIds
  BY <1>0, <1>3
<1>7. /\ e = NewEvent(a, x.version + 1, "transfer.credited", d.amount, d.transfer_id,
                      d.aggregate_id)
      /\ Continuing(events, a, e)
  BY <1>3, <1>4, <1>5, <1>6, Decisions DEF SagaInv
<1>8. /\ Table(events)' /\ OneRow(e) /\ Load(a)' = Apply(Load(a), e)
      /\ \A b \in AccountIds : b # a => Load(b)' = Load(b)
  BY <1>6, <1>7, Appended
<1>9. e.type = "transfer.credited" /\ e.transfer_id = d.transfer_id /\ e.amount = d.amount
  BY <1>7 DEF NewEvent
<1>10. a \in Opened
  BY <1>7 DEF Continuing
<1> QED
  BY <1>0, <1>2, <1>8, <1>9, <1>10

\* What ReverseTransfer appends for the debit a worker has.
LEMMA ReverseAppends ==
  ASSUME TransferSagaAssumption, SagaInv, NEW w \in Workers, step[w] = "reverse",
         NEW e, e = ReverseDecision(w).event, ReverseDecision(w).err = "nil", Append1(e)
  PROVE  /\ Table(events)' /\ OneRow(e) /\ e.type = "transfer.reversed"
         /\ e.transfer_id = event[w].transfer_id /\ e.amount = event[w].amount
         /\ \E a \in Opened : /\ a = event[w].aggregate_id
                             /\ Load(a)' = Apply(Load(a), e)
                             /\ \A b \in AccountIds : b # a => Load(b)' = Load(b)
<1>1. event[w] \in Debits
  BY DEF SagaInv, Hands, Processing
<1>2. PICK d : d = event[w]
  OBVIOUS
<1>3. /\ d \in Event /\ d.peer \in AccountIds /\ d.transfer_id \in TransferIds
      /\ d.aggregate_id \in AccountIds /\ d.amount \in Nat
  <2>1. d \in All /\ d.type = "transfer.debited"
    BY <1>1, <1>2 DEF Debits, All
  <2>2. d \in Event
    BY <2>1, RowsOfTable DEF SagaInv, All
  <2> QED BY <1>1, <1>2, <2>1, <2>2 DEF SagaInv, Answers, TransferTypes, Event
<1>0. PICK a : a = d.aggregate_id
  OBVIOUS
<1> DEFINE x == Load(a)
<1>4. /\ e = ReverseTransfer(x, d.transfer_id, d.amount).event
      /\ ReverseTransfer(x, d.transfer_id, d.amount).err = "nil"
  BY <1>0, <1>2 DEF ReverseDecision
<1>5. x = Replay(EmptyAccount, events[a])
  BY DEF Load
<1> HIDE DEF x
<1>6. a \in AccountIds
  BY <1>0, <1>3
<1>7. /\ e = NewEvent(a, x.version + 1, "transfer.reversed", d.amount, d.transfer_id,
                      NoId)
      /\ Continuing(events, a, e)
  BY <1>3, <1>4, <1>5, <1>6, Decisions DEF SagaInv
<1>8. /\ Table(events)' /\ OneRow(e) /\ Load(a)' = Apply(Load(a), e)
      /\ \A b \in AccountIds : b # a => Load(b)' = Load(b)
  BY <1>6, <1>7, Appended
<1>9. e.type = "transfer.reversed" /\ e.transfer_id = d.transfer_id /\ e.amount = d.amount
  BY <1>7 DEF NewEvent
<1>10. a \in Opened
  BY <1>7 DEF Continuing
<1> QED
  BY <1>0, <1>2, <1>8, <1>9, <1>10


\* A worker has recorded what it did and goes to publish it.
LEMMA Recorded ==
  ASSUME Hands, Alone, SagaInv, NEW w \in Workers, Busy(w), NEW e, e \notin All,
         All' = All \cup {e}, Debits' = Debits, Grows,
         At(w, "publish"), event' = [event EXCEPT ![w] = e], attempt' = attempt
  PROVE  /\ Hands' /\ Alone' /\ InHand' = (InHand \ {event[w]}) \cup {e}
         /\ \A v \in Workers : step'[v] \in {"credit", "reverse"} =>
              v # w /\ step'[v] = step[v] /\ event'[v] = event[v]
<1>1. e \notin InHand /\ Debits \subseteq All
  BY FlightIsRecorded DEF InFlight, Debits, All
<1>2. "publish" \in WorkerSteps /\ "publish" # "idle"
  BY DEF WorkerSteps
<1>3. step \in [Workers -> WorkerSteps] /\ event \in [Workers -> All \cup {NoEvent}]
  BY DEF Hands
<1>4. /\ Alone' /\ InHand' = (InHand \ {event[w]}) \cup {e}
      /\ step' \in [Workers -> WorkerSteps] /\ step'[w] = "publish" /\ event'[w] = e
      /\ \A v \in Workers : v # w => step'[v] = step[v] /\ event'[v] = event[v]
  BY <1>1, <1>2, <1>3, TakesUp
<1>5. event' \in [Workers -> All' \cup {NoEvent}]
  BY <1>3
<1>6. Hands'
  BY <1>1, <1>4, <1>5 DEF Hands, Processing
<1> QED BY <1>4, <1>6


\* The credit, answered or not.
LEMMA CreditStep ==
  ASSUME TransferSagaAssumption, SagaInv, NEW w \in Workers, Credit(w) \/ CreditAckLost(w)
  PROVE  SagaInv'
<1>1. PICK e : e = CreditDecision(w).event
  OBVIOUS
<1>2. /\ step[w] = "credit" /\ CreditDecision(w).err = "nil" /\ Append1(e)
      /\ UNCHANGED <<phase, unpublished, bus, resuming, queue, abandoned>>
  BY <1>1 DEF Credit, CreditAckLost, Record
<1>3. /\ Table(events)' /\ OneRow(e) /\ e.type = "transfer.credited"
      /\ e.transfer_id = event[w].transfer_id
  BY <1>1, <1>2, CreditAppends
<1>4. /\ Grows /\ Debits' = Debits /\ All' = All \cup {e} /\ e \notin All
  BY <1>3, NewRow DEF OneRow
<1>5. Hands /\ Alone /\ Busy(w) /\ event[w] \in Debits
  BY <1>2 DEF SagaInv, Hands, OnePlace, Busy, Processing
<1>6. CASE Credit(w)
  <2>1. At(w, "publish") /\ event' = [event EXCEPT ![w] = e] /\ attempt' = attempt
        /\ lost' = lost
    BY <1>1, <1>6 DEF Credit, Record
  <2>2. /\ Hands' /\ Alone' /\ InHand' = (InHand \ {event[w]}) \cup {e}
        /\ \A v \in Workers : step'[v] \in {"credit", "reverse"} =>
             v # w /\ step'[v] = step[v] /\ event'[v] = event[v]
    BY <1>3, <1>4, <1>5, <2>1, Recorded
  <2> QED BY <1>2, <1>3, <2>1, <2>2, SettleStep
<1>7. CASE CreditAckLost(w)
  <2>1. Retry(w) /\ lost' = lost \cup {e.transfer_id}
    BY <1>3, <1>7 DEF CreditAckLost
  <2>2. /\ Hands' /\ Alone'
        /\ \/ InHand' = InHand
           \/ phase = "stopping" /\ InHand' = InHand \ {event[w]}
        /\ \A v \in Workers : step'[v] \in {"credit", "reverse"} =>
             step'[v] = step[v] /\ event'[v] = event[v]
    BY <1>2, <1>4, <1>5, <2>1, RetryKeeps
  <2>3. step'[w] \notin {"credit", "reverse"}
    BY <1>5, <2>1 DEF Retry, Finish, At, Hands
  <2> QED BY <1>2, <1>3, <2>1, <2>2, <2>3, SettleStep
<1> QED BY <1>6, <1>7

\* The reversal, answered or not.
LEMMA ReverseStep ==
  ASSUME TransferSagaAssumption, SagaInv, NEW w \in Workers, Reverse(w) \/ ReverseAckLost(w)
  PROVE  SagaInv'
<1>1. PICK e : e = ReverseDecision(w).event
  OBVIOUS
<1>2. /\ step[w] = "reverse" /\ ReverseDecision(w).err = "nil" /\ Append1(e)
      /\ UNCHANGED <<phase, unpublished, bus, resuming, queue, abandoned>> /\ lost' = lost
  BY <1>1 DEF Reverse, ReverseAckLost, Record
<1>3. /\ Table(events)' /\ OneRow(e) /\ e.type = "transfer.reversed"
      /\ e.transfer_id = event[w].transfer_id
  BY <1>1, <1>2, ReverseAppends
<1>4. /\ Grows /\ Debits' = Debits /\ All' = All \cup {e} /\ e \notin All
  BY <1>3, NewRow DEF OneRow
<1>5. Hands /\ Alone /\ Busy(w) /\ event[w] \in Debits
  BY <1>2 DEF SagaInv, Hands, OnePlace, Busy, Processing
<1>6. CASE Reverse(w)
  <2>1. At(w, "publish") /\ event' = [event EXCEPT ![w] = e] /\ attempt' = attempt
    BY <1>1, <1>6 DEF Reverse, Record
  <2>2. /\ Hands' /\ Alone' /\ InHand' = (InHand \ {event[w]}) \cup {e}
        /\ \A v \in Workers : step'[v] \in {"credit", "reverse"} =>
             v # w /\ step'[v] = step[v] /\ event'[v] = event[v]
    BY <1>3, <1>4, <1>5, <2>1, Recorded
  <2> QED BY <1>2, <1>3, <2>2, SettleStep
<1>7. CASE ReverseAckLost(w)
  <2>1. Finish(w)
    BY <1>7 DEF ReverseAckLost
  <2>2. /\ Hands' /\ Alone' /\ InHand' = InHand \ {event[w]}
        /\ \A v \in Workers : step'[v] \in {"credit", "reverse"} =>
             step'[v] = step[v] /\ event'[v] = event[v]
    BY <1>4, <1>5, <2>1, LetsGo
  <2>3. step'[w] \notin {"credit", "reverse"}
    BY <1>5, <2>1 DEF Finish, At, Hands
  <2> QED BY <1>2, <1>3, <2>2, <2>3, SettleStep
<1> QED BY <1>6, <1>7

-----------------------------------------------------------------------------
(***************************************************************************)
(* The invariant                                                           *)
(***************************************************************************)
\* An account as the clients of the model opened it.
LEMMA OpeningStream ==
  ASSUME TransferSagaAssumption, AccountAssumption, NEW a \in AccountIds
  PROVE  /\ Stream(a, OpeningRows(a), 2)
         /\ Replay(EmptyAccount, OpeningRows(a)).balance = Funds
         /\ \A v \in 1 .. 2 : OpeningRows(a)[v].type \notin TransferTypes
<1>1. PICK e : e = NewEvent(a, 1, "account.opened", 0, NoId, NoId)
  OBVIOUS
<1>2. PICK f : f = NewEvent(a, 2, "money.deposited", Funds, NoId, NoId)
  OBVIOUS
<1>3. Funds \in Nat
  BY DEF TransferSagaAssumption, AccountAssumption
<1>4. /\ e \in Event /\ e.aggregate_id = a /\ e.version = 1 /\ e.type = "account.opened"
      /\ f \in Event /\ f.aggregate_id = a /\ f.version = 2 /\ f.type = "money.deposited"
      /\ f.amount = Funds
  BY <1>1, <1>2, <1>3 DEF NewEvent, Event, EventTypes
<1>5. Stream(a, NoRows, 0)
  BY DEF Stream, NoRows
<1>6. PICK one : one = Insert(NoRows, <<e>>)
  OBVIOUS
<1>7. /\ Stream(a, one, 1) /\ one[1] = e
      /\ Replay(EmptyAccount, one) = Apply(Replay(EmptyAccount, NoRows), e)
  BY <1>4, <1>5, <1>6, InsertOne
<1>8. PICK two : two = Insert(one, <<f>>)
  OBVIOUS
<1>9. /\ Stream(a, two, 2) /\ two[2] = f /\ two[1] = one[1]
      /\ Replay(EmptyAccount, two) = Apply(Replay(EmptyAccount, one), f)
  <2>1. 1 + 1 = 2 /\ 1 \in 1 .. 1
    OBVIOUS
  <2> QED BY <1>4, <1>7, <1>8, <2>1, InsertOne
<1>10. OpeningRows(a) = two
  <2> DEFINE evs == <<e, f>>
  <2>1. evs \in Seq(Event) /\ Len(evs) = 2 /\ evs[1] = e /\ evs[2] = f
    BY <1>4
  <2>2. WellFormed(a, 0, evs)
    <3>1. \A i \in DOMAIN evs : i = 1 \/ i = 2
      BY <2>1
    <3> QED BY <1>4, <2>1, <3>1 DEF WellFormed
  <2>3. OpeningRows(a) = Insert(NoRows, evs)
    BY <1>1, <1>2 DEF OpeningRows
  <2> HIDE DEF evs
  <2>4. Insert(NoRows, evs) = [v \in 1 .. 0 + Len(evs) |->
                                 IF v <= 0 THEN NoRows[v] ELSE evs[v - 0]]
    <3>1. evs \in Seq(Event)
      BY <2>1
    <3> QED BY <1>5, <2>2, <3>1, InsertExtends
  <2>5. Insert(NoRows, evs) = [v \in 1 .. 2 |-> evs[v]]
    BY <2>1, <2>4
  <2>6. DOMAIN two = 1 .. 2 /\ two[1] = e /\ two[2] = f
    BY <1>7, <1>9 DEF Stream
  <2>7. two = [v \in 1 .. 2 |-> two[v]]
    <3>1. two = Insert(one, <<f>>)
      BY <1>8
    <3>2. two = [v \in DOMAIN two |-> two[v]]
      BY <3>1 DEF Insert
    <3> QED BY <2>6, <3>2
  <2>8. \A v \in 1 .. 2 : two[v] = evs[v]
    BY <2>1, <2>6
  <2> QED BY <2>3, <2>5, <2>7, <2>8
<1>11. Replay(EmptyAccount, NoRows) = EmptyAccount
  BY <1>5, StreamRows, AccumulatedIsTheLoop, EmptyAccountType DEF Replay
<1>12. Replay(EmptyAccount, two).balance = Funds
  <2>1. PICK x : x = Apply(EmptyAccount, e)
    OBVIOUS
  <2>2. x \in AccountState /\ x.balance = EmptyAccount.balance + Delta(e)
    BY <1>4, <2>1, ApplyType, EmptyAccountType
  <2>3. Apply(x, f).balance = x.balance + Delta(f)
    BY <1>4, <2>2, ApplyType
  <2>4. Delta(e) = 0 /\ Delta(f) = Funds /\ EmptyAccount.balance = 0
    BY <1>4 DEF Delta, EmptyAccount
  <2> QED BY <1>3, <1>7, <1>9, <1>11, <2>1, <2>2, <2>3, <2>4
<1>13. \A v \in 1 .. 2 : two[v].type \notin TransferTypes
  BY <1>4, <1>7, <1>9 DEF TransferTypes
<1> QED BY <1>9, <1>10, <1>12, <1>13

\* The initial table has the openings only.
LEMMA OpeningTable ==
  ASSUME TransferSagaAssumption, AccountAssumption, Init
  PROVE  Table(events) /\ \A r \in All : r.type \notin TransferTypes
<1>1. events = [a \in AccountIds |-> IF a \in Opened THEN OpeningRows(a) ELSE NoRows]
  BY DEF Init
<1>2. ASSUME NEW a \in AccountIds
      PROVE  /\ Stream(a, events[a], LastVersion(events[a]))
             /\ a \in Opened <=> LastVersion(events[a]) > 0
             /\ \A v \in DOMAIN events[a] : events[a][v].type \notin TransferTypes
  <2>1. CASE a \in Opened
    <3>1. events[a] = OpeningRows(a)
      BY <1>1, <2>1
    <3>2. Stream(a, events[a], 2) /\ \A v \in 1 .. 2 : events[a][v].type \notin TransferTypes
      BY <3>1, OpeningStream
    <3>3. LastVersion(events[a]) = 2 /\ DOMAIN events[a] = 1 .. 2
      <4>1. LastVersion(events[a]) = 2
        BY <3>2, StreamRows
      <4> QED BY <3>2, <4>1 DEF Stream
    <3> QED BY <2>1, <3>2, <3>3
  <2>2. CASE a \notin Opened
    <3>1. events[a] = NoRows
      BY <1>1, <2>2
    <3>2. Stream(a, NoRows, 0) /\ DOMAIN NoRows = {}
      BY DEF Stream, NoRows
    <3>3. LastVersion(NoRows) = 0
      BY <3>2, StreamRows
    <3> QED BY <2>2, <3>1, <3>2, <3>3
  <2> QED BY <2>1, <2>2
<1>3. Table(events)
  BY <1>1, <1>2 DEF Table
<1>4. \A r \in All : r.type \notin TransferTypes
  BY <1>2 DEF All, AllRows
<1> QED BY <1>3, <1>4

\* A service that starts, with its accounts opened, satisfies the invariant.
LEMMA SagaInit ==
  ASSUME TransferSagaAssumption, AccountAssumption, Init
  PROVE  SagaInv
<1>1. Table(events) /\ \A r \in All : r.type \notin TransferTypes
  BY OpeningTable
<1>2. /\ Debits = {} /\ Unsettled = {}
      /\ \A t : ~Credited(t) /\ ~Reversed(t)
  BY <1>1 DEF Debits, All, Unsettled, Credited, Reversed, HasTransferEvent, TransferTypes
<1>3. /\ phase = "serving" /\ unpublished = {} /\ bus = EmptyBus /\ resuming = {}
      /\ queue = <<>> /\ step = [w \in Workers |-> "idle"]
      /\ event = [w \in Workers |-> NoEvent] /\ attempt = [w \in Workers |-> 0]
      /\ abandoned = {} /\ lost = {}
  BY DEF Init
<1>4. /\ bus \in [Partitions -> Seq(All)] /\ Sorted(bus, PartitionOf) /\ Carried(bus) = {}
      /\ \A p \in Partitions : Len(bus[p]) = 0
      /\ queue \in Seq(Debits) /\ Len(queue) = 0 /\ Once(queue) /\ Range(queue) = {}
  BY <1>3, NothingCarried, NothingQueued
<1>5. \A w \in Workers : ~Busy(w)
  BY <1>3 DEF Busy
<1>6. InHand = {} /\ Alone
  BY <1>5 DEF InHand, Alone
<1>7. InFlight = {}
  BY <1>3, <1>4, <1>6 DEF InFlight
<1>8. Stored
  BY <1>3, <1>4 DEF Stored, TransferSagaAssumption
<1>9. Hands
  BY <1>3 DEF Hands, TransferSagaAssumption, WorkerSteps, Processing
<1>10. OnePlace
  BY <1>3, <1>4, <1>6, <1>7 DEF OnePlace
<1>11. Answers
  BY <1>1, <1>2, <1>3, <1>7 DEF Answers
<1>12. Kept
  BY <1>2 DEF Kept
<1> QED BY <1>1, <1>8, <1>9, <1>10, <1>11, <1>12 DEF SagaInv

\* Every step of clients, bus, saga, boot and shutdown keeps it.
LEMMA SagaNext ==
  ASSUME TransferSagaAssumption, AccountAssumption, SagaInv, [Next]_vars
  PROVE  SagaInv'
<1>1. CASE Client
  BY <1>1, StartTransferStep DEF Client
<1>2. CASE Request
  BY <1>2, PublishStep DEF Request
<1>3. CASE Resume
  BY <1>3, BootStep, CatchUpStep, PhaseStep DEF Resume
<1>4. CASE Crash \/ Exit
  BY <1>4, DieStep DEF Crash, Exit
<1>5. CASE Shutdown
  BY <1>5, PhaseStep
<1>6. CASE \E p \in Partitions : Deliver(p)
  BY <1>6, DeliverStep
<1>7. ASSUME NEW w \in Workers, Worker(w) PROVE SagaInv'
  BY <1>7, TakeStep, CheckStep, CreditStep, CreditRefusedStep, CreditFailsStep,
     ReverseStep, ReverseFailsStep, PublishAnswerStep DEF Worker
<1>8. CASE UNCHANGED vars
  <2>1. /\ events' = events /\ lost' = lost /\ phase' = phase /\ unpublished' = unpublished
        /\ bus' = bus /\ resuming' = resuming /\ queue' = queue /\ abandoned' = abandoned
        /\ UNCHANGED <<step, event, attempt>>
    BY <1>8 DEF vars, volatile
  <2>2. All' = All /\ Debits' = Debits
    BY <2>1, SameRows
  <2>3. InHand' = InHand /\ (Alone' <=> Alone) /\ Hands'
    BY <2>1, <2>2, HandsStay DEF SagaInv
  <2>4. InFlight' = InFlight
    BY <2>1, <2>3 DEF InFlight
  <2>5. Stored' /\ OnePlace'
    BY <2>1, <2>2, <2>3, <2>4 DEF SagaInv, Stored, OnePlace
  <2>6. phase' \in {"boot", "serving"} => Unsettled \subseteq InFlight' \cup abandoned'
    BY <2>1, <2>4 DEF SagaInv, Kept
  <2> QED BY <2>1, <2>3, <2>4, <2>5, <2>6, Quiet
<1> QED
  BY <1>1, <1>2, <1>3, <1>4, <1>5, <1>6, <1>7, <1>8 DEF Next

\* The inductive invariant holds, whatever fails and whenever the service crashes.
THEOREM SagaInvariant == Spec => []SagaInv
<1>1. Init => SagaInv
  BY SagaInit, TransferSagaAssumption, AccountAssumption
<1>2. SagaInv /\ [Next]_vars => SagaInv'
  BY SagaNext, TransferSagaAssumption, AccountAssumption
<1> QED BY <1>1, <1>2, PTL DEF Spec


-----------------------------------------------------------------------------
(***************************************************************************)
(* What follows from it                                                    *)
(***************************************************************************)
\* What the variables of the saga hold: no partition, queue or count of attempts
\* exceeds its limit.
THEOREM SagaTypeOK == Spec => []TypeOK
<1>1. ASSUME SagaInv PROVE TypeOK
  <2>1. ASSUME NEW a \in AccountIds, NEW v \in DOMAIN events[a]
        PROVE  events[a][v] \in Event /\ events[a][v].aggregate_id = a
    <3> DEFINE n == LastVersion(events[a])
    <3>1. Stream(a, events[a], n)
      BY <1>1 DEF SagaInv, Table
    <3> HIDE DEF n
    <3> QED BY <3>1 DEF Stream
  <2>2. /\ phase \in {"down", "boot", "serving", "stopping"}
        /\ unpublished \subseteq Debits /\ resuming \subseteq Debits
        /\ abandoned \subseteq Debits
        /\ \A p \in Partitions : bus[p] \in Seq(AllRows(events)) /\ Len(bus[p]) <= BusSize
        /\ queue \in Seq(Debits) /\ Len(queue) <= QueueSize
    BY <1>1 DEF SagaInv, Stored, All
  <2>3. /\ step \in [Workers -> WorkerSteps]
        /\ \A w \in Workers : /\ step[w] \in Processing => event[w] \in Debits
                              /\ step[w] = "publish" => event[w] \in AllRows(events)
                              /\ attempt[w] \in 0 .. creditRetries
    BY <1>1 DEF SagaInv, Hands, All
  <2> QED BY <2>1, <2>2, <2>3 DEF TypeOK
<1> QED BY <1>1, SagaInvariant, PTL

\* The places of Holders are those of InFlight.
LEMMA HoldersOf ==
  ASSUME NEW d, NEW x
  PROVE  x \in Holders(d) <=>
           \/ x = <<"unpublished">> /\ d \in unpublished
           \/ x = <<"resuming">> /\ d \in resuming
           \/ \E p \in Partitions : \E i \in DOMAIN bus[p] :
                bus[p][i] = d /\ x = <<"bus", p, i>>
           \/ \E i \in DOMAIN queue : queue[i] = d /\ x = <<"queue", i>>
           \/ \E w \in Workers : /\ step[w] \in Processing /\ event[w] = d
                                 /\ x = <<"worker", w>>
<1> DEFINE U == {<<"unpublished">> : y \in unpublished \cap {d}}
           R == {<<"resuming">> : y \in resuming \cap {d}}
           B(p) == {<<"bus", p, i>> : i \in {j \in DOMAIN bus[p] : bus[p][j] = d}}
           C == UNION {B(p) : p \in Partitions}
           Q == {<<"queue", i>> : i \in {j \in DOMAIN queue : queue[j] = d}}
           W == {<<"worker", w>> : w \in {y \in Workers : step[y] \in Processing
                                                          /\ event[y] = d}}
<1>1. Holders(d) = U \cup R \cup C \cup Q \cup W
  BY Zenon DEF Holders
<1>2. x \in U <=> x = <<"unpublished">> /\ d \in unpublished
  OBVIOUS
<1>3. x \in R <=> x = <<"resuming">> /\ d \in resuming
  OBVIOUS
<1>4. x \in C <=> \E p \in Partitions : \E i \in DOMAIN bus[p] :
                    bus[p][i] = d /\ x = <<"bus", p, i>>
  <2>1. \A p \in Partitions : x \in B(p) <=> \E i \in DOMAIN bus[p] :
                    bus[p][i] = d /\ x = <<"bus", p, i>>
    OBVIOUS
  <2> HIDE DEF B
  <2> QED BY <2>1
<1>5. x \in Q <=> \E i \in DOMAIN queue : queue[i] = d /\ x = <<"queue", i>>
  OBVIOUS
<1>6. x \in W <=> \E w \in Workers : /\ step[w] \in Processing /\ event[w] = d
                                     /\ x = <<"worker", w>>
  OBVIOUS
<1> HIDE DEF U, R, C, Q, W
<1> QED BY <1>1, <1>2, <1>3, <1>4, <1>5, <1>6

\* A debit that something holds is in memory, and the other way round.
LEMMA HeldInFlight ==
  ASSUME SagaInv, NEW d \in Debits
  PROVE  Holders(d) # {} <=> d \in InFlight
<1>0. DOMAIN bus = Partitions
  BY DEF SagaInv, Stored
<1>1. ASSUME NEW x \in Holders(d) PROVE d \in InFlight
  BY <1>0, <1>1, HoldersOf DEF InFlight, Carried, Range, InHand, Busy, Processing
<1>2. ASSUME d \in InFlight PROVE Holders(d) # {}
  <2>1. CASE d \in unpublished
    BY <2>1, HoldersOf
  <2>2. CASE d \in resuming
    BY <2>2, HoldersOf
  <2>3. CASE d \in Carried(bus)
    <3>1. PICK p \in Partitions : \E i \in DOMAIN bus[p] : bus[p][i] = d
      BY <1>0, <2>3 DEF Carried, Range
    <3>2. PICK i \in DOMAIN bus[p] : bus[p][i] = d
      BY <3>1
    <3>3. <<"bus", p, i>> \in Holders(d)
      BY <3>2, HoldersOf
    <3> QED BY <3>3
  <2>4. CASE d \in Range(queue)
    <3>1. PICK i \in DOMAIN queue : queue[i] = d
      BY <2>4 DEF Range
    <3> QED BY <3>1, HoldersOf
  <2>5. CASE d \in InHand
    <3>1. PICK w \in Workers : Busy(w) /\ event[w] = d
      BY <2>5 DEF InHand
    <3>2. step[w] \in Processing
      BY <3>1 DEF SagaInv, Hands, Busy, WorkerSteps
    <3> QED BY <3>1, <3>2, HoldersOf
  <2> QED BY <1>2, <2>1, <2>2, <2>3, <2>4, <2>5 DEF InFlight
<1> QED BY <1>1, <1>2

\* The process never holds a debit twice, and unless the answer to its credit was
\* lost it holds none that is settled: Handle, CatchUp and the workers' queue hand
\* each debit on to one worker.
THEOREM DebitsHaveOneOwner == Spec => []OneOwner
<1>1. ASSUME SagaInv PROVE OneOwner
  <2> SUFFICES ASSUME NEW d \in Debits
               PROVE  /\ Cardinality(Holders(d)) <= 1
                      /\ Holders(d) # {} /\ d.transfer_id \notin lost => d \in Unsettled
    BY DEF OneOwner
  <2>0. DOMAIN bus = Partitions
    BY <1>1 DEF SagaInv, Stored
  <2>1. ASSUME NEW x \in Holders(d), NEW y \in Holders(d) PROVE x = y
    <3>1. /\ d \in unpublished => x = <<"unpublished">>
          /\ d \in unpublished => y = <<"unpublished">>
      BY <2>0, <1>1, HoldersOf DEF SagaInv, OnePlace, Carried, Range, InHand, Busy, Processing
    <3>2. /\ d \in resuming => x = <<"resuming">>
          /\ d \in resuming => y = <<"resuming">>
      BY <2>0, <1>1, HoldersOf DEF SagaInv, OnePlace, Carried, Range, InHand, Busy, Processing
    <3>3. ASSUME NEW p \in Partitions, NEW i \in DOMAIN bus[p], bus[p][i] = d
          PROVE  x = <<"bus", p, i>> /\ y = <<"bus", p, i>>
      <4>1. d \in Carried(bus)
        BY <2>0, <3>3 DEF Carried, Range
      <4>2. d \notin unpublished /\ d \notin resuming /\ d \notin Range(queue)
            /\ d \notin InHand
        BY <1>1, <4>1 DEF SagaInv, OnePlace
      <4>3. ASSUME NEW q \in Partitions, NEW j \in DOMAIN bus[q], bus[q][j] = d
            PROVE  q = p /\ j = i
        <5>1. PartitionOf[bus[p][i].aggregate_id] = p /\ PartitionOf[bus[q][j].aggregate_id] = q
          BY <2>0, <1>1 DEF SagaInv, OnePlace, Sorted
        <5>2. q = p
          BY <3>3, <4>3, <5>1
        <5> QED BY <2>0, <1>1, <3>3, <4>3, <5>2 DEF SagaInv, OnePlace, Sorted, Once
      <4>4. (\A j \in DOMAIN queue : queue[j] # d)
            /\ \A w \in Workers : ~(step[w] \in Processing /\ event[w] = d)
        BY <4>2 DEF Range, InHand, Busy, Processing
      <4> QED BY <4>2, <4>3, <4>4, HoldersOf
    <3>4. ASSUME NEW i \in DOMAIN queue, queue[i] = d
          PROVE  x = <<"queue", i>> /\ y = <<"queue", i>>
      <4>1. d \in Range(queue)
        BY <3>4 DEF Range
      <4>2. d \notin unpublished /\ d \notin resuming /\ d \notin Carried(bus)
            /\ d \notin InHand
        BY <1>1, <4>1 DEF SagaInv, OnePlace
      <4>3. (\A p \in Partitions : \A j \in DOMAIN bus[p] : bus[p][j] # d)
            /\ \A w \in Workers : ~(step[w] \in Processing /\ event[w] = d)
        BY <2>0, <4>2 DEF Carried, Range, InHand, Busy, Processing
      <4>4. \A j \in DOMAIN queue : queue[j] = d => j = i
        BY <1>1, <3>4 DEF SagaInv, OnePlace, Once
      <4> QED BY <4>2, <4>3, <4>4, HoldersOf
    <3>5. ASSUME NEW w \in Workers, step[w] \in Processing, event[w] = d
          PROVE  x = <<"worker", w>> /\ y = <<"worker", w>>
      <4>1. d \in InHand
        BY <3>5 DEF InHand, Busy, Processing
      <4>2. d \notin unpublished /\ d \notin resuming /\ d \notin Carried(bus)
            /\ d \notin Range(queue)
        BY <1>1, <4>1 DEF SagaInv, OnePlace
      <4>3. (\A p \in Partitions : \A j \in DOMAIN bus[p] : bus[p][j] # d)
            /\ \A j \in DOMAIN queue : queue[j] # d
        BY <2>0, <4>2 DEF Carried, Range
      <4>4. \A v \in Workers : step[v] \in Processing /\ event[v] = d => v = w
        BY <1>1, <3>5 DEF SagaInv, OnePlace, Alone, Busy, Processing
      <4> QED BY <4>2, <4>3, <4>4, HoldersOf
    <3> QED
      BY <3>1, <3>2, <3>3, <3>4, <3>5, HoldersOf
  <2>2. Cardinality(Holders(d)) <= 1
    BY <2>1, AtMostOne
  <2>3. Holders(d) # {} /\ d.transfer_id \notin lost => d \in Unsettled
    BY <1>1, HeldInFlight DEF SagaInv, Answers
  <2> QED BY <2>2, <2>3
<1> QED BY <1>1, SagaInvariant, PTL

\* While the service is up something holds every debit without an answer, or its
\* client or this life's log was told that it is given up until the next boot.
THEOREM NoTransferIsForgotten == Spec => []NoOrphans
<1>1. ASSUME SagaInv PROVE NoOrphans
  BY <1>1, HeldInFlight DEF SagaInv, Kept, NoOrphans, Unsettled
<1> QED BY <1>1, SagaInvariant, PTL

\* "Idempotente por transfer_id": a transfer is credited at most once and reversed
\* at most once although the query and the append of CreditTransfer and
\* ReverseTransfer are not one transaction.
THEOREM SettlementsAreIdempotent == Spec => []NoDuplicateSettlement
<1>1. ASSUME SagaInv PROVE NoDuplicateSettlement
  <2> SUFFICES ASSUME NEW t \in TransferIds,
                      NEW type \in {"transfer.credited", "transfer.reversed"}
               PROVE  Cardinality(RowsOf(t, type)) <= 1
    BY DEF NoDuplicateSettlement
  <2>1. \A r, s \in RowsOf(t, type) : r = s
    BY <1>1 DEF SagaInv, Answers, RowsOf, All, TransferTypes
  <2> HIDE DEF RowsOf
  <2> QED BY <2>1, AtMostOne
<1> QED BY <1>1, SagaInvariant, PTL


-----------------------------------------------------------------------------
(***************************************************************************)
(* The saga implements TransferSpec                                        *)
(***************************************************************************)
Debited(t) == RowsOf(t, "transfer.debited") # {}

\* The status of a transfer, case by case.
StatusIs(t) ==
  /\ ~Debited(t) => Status(t) = "none"
  /\ Debited(t) /\ Credited(t) => Status(t) = "completed"
  /\ Debited(t) /\ ~Credited(t) /\ Reversed(t) => Status(t) = "reversed"
  /\ Debited(t) /\ ~Credited(t) /\ ~Reversed(t) => Status(t) = "pending"

\* The table tells the status: "both" does not happen.
LEMMA StatusOf == SagaInv => \A t \in TransferIds : StatusIs(t)
<1> SUFFICES ASSUME SagaInv, NEW t \in TransferIds PROVE StatusIs(t)
  OBVIOUS
<1>1. t \in lost => Credited(t)
  BY DEF SagaInv, Answers
<1>2. Credited(t) /\ Reversed(t) => t \in lost
  BY DEF SagaInv, Answers
<1>3. ASSUME ~Debited(t) PROVE Status(t) = "none"
  <2>1. ~Credited(t) /\ ~Reversed(t)
    BY <1>3 DEF SagaInv, Answers, TransferTypes, Credited, Reversed, HasTransferEvent,
                All, Debits, Debited, RowsOf
  <2> QED BY <1>1, <1>3, <2>1 DEF Status, Debited
<1>4. ASSUME Debited(t), Credited(t) PROVE Status(t) = "completed"
  BY <1>1, <1>2, <1>4 DEF Status, Debited
<1>5. ASSUME Debited(t), ~Credited(t), Reversed(t) PROVE Status(t) = "reversed"
  BY <1>1, <1>2, <1>5 DEF Status, Debited
<1>6. ASSUME Debited(t), ~Credited(t), ~Reversed(t) PROVE Status(t) = "pending"
  BY <1>1, <1>2, <1>6 DEF Status, Debited
<1> QED BY <1>3, <1>4, <1>5, <1>6 DEF StatusIs

\* A debit in a worker's hands is of a transfer that was debited.
LEMMA DebitedInHand ==
  ASSUME NEW d \in Debits
  PROVE  Debited(d.transfer_id)
BY DEF Debited, RowsOf, Debits

\* Whether a transfer was debited, after one more row.
LEMMA NewDebit ==
  ASSUME NEW e, OneRow(e), NEW t
  PROVE  Debited(t)' <=> Debited(t) \/ (e.type = "transfer.debited" /\ e.transfer_id = t)
BY DEF OneRow, All, Debited, RowsOf

\* A step that leaves every status but t's.
LEMMA OneStatus ==
  ASSUME NEW t \in TransferIds, \A u \in TransferIds : u # t => Status(u)' = Status(u),
         \/ Status(t) = "none" /\ Status(t)' = "pending"
         \/ Status(t) = "pending" /\ Status(t)' \in {"completed", "reversed"}
         \/ Status(t)' = Status(t)
  PROVE  [Transfers!Next]_([u \in TransferIds |-> Status(u)])
<1> DEFINE now == [u \in TransferIds |-> Status(u)]
<1>1. now' = [now EXCEPT ![t] = Status(t)']
  OBVIOUS
<1>2. now[t] = Status(t)
  OBVIOUS
<1>3. CASE Status(t)' = Status(t)
  <2>1. now' = now
    BY <1>3
  <2> QED BY <2>1
<1>4. CASE Status(t) = "none" /\ Status(t)' = "pending"
  <2>1. Transfers!Start(t)
    BY <1>1, <1>2, <1>4 DEF Transfers!Start
  <2> QED BY <2>1 DEF Transfers!Next
<1>5. CASE Status(t) = "pending" /\ Status(t)' \in {"completed", "reversed"}
  <2>1. Transfers!Settle(t)
    BY <1>1, <1>2, <1>5 DEF Transfers!Settle
  <2> QED BY <2>1 DEF Transfers!Next
<1> QED BY <1>3, <1>4, <1>5


\* A step that appends nothing changes no status.
LEMMA NoStatus ==
  ASSUME events' = events, \A t \in TransferIds : StatusIs(t) /\ StatusIs(t)'
  PROVE  [t \in TransferIds |-> Status(t)]' = [t \in TransferIds |-> Status(t)]
<1>1. ASSUME NEW t \in TransferIds PROVE Status(t)' = Status(t)
  <2>1. (Debited(t)' <=> Debited(t)) /\ (Credited(t)' <=> Credited(t))
        /\ (Reversed(t)' <=> Reversed(t))
    BY SameRows DEF Debited, RowsOf
  <2> QED BY <2>1 DEF StatusIs
<1> QED BY <1>1

\* A step that appends a row of t leaves the status of the others.
LEMMA OtherStatus ==
  ASSUME NEW e, OneRow(e), \A t \in TransferIds : StatusIs(t) /\ StatusIs(t)'
  PROVE  \A u \in TransferIds : u # e.transfer_id => Status(u)' = Status(u)
<1> SUFFICES ASSUME NEW u \in TransferIds, u # e.transfer_id PROVE Status(u)' = Status(u)
  OBVIOUS
<1>1. (Debited(u)' <=> Debited(u)) /\ (Credited(u)' <=> Credited(u))
      /\ (Reversed(u)' <=> Reversed(u))
  BY NewRow, NewDebit
<1> QED BY <1>1 DEF StatusIs

\* The settlement of a transfer by a worker.
LEMMA SettleStatus ==
  ASSUME SagaInv, NEW w \in Workers, NEW e, OneRow(e),
         \/ step[w] = "credit" /\ e.type = "transfer.credited"
         \/ step[w] = "reverse" /\ e.type = "transfer.reversed",
         e.transfer_id = event[w].transfer_id,
         \A t \in TransferIds : StatusIs(t) /\ StatusIs(t)'
  PROVE  [Transfers!Next]_([t \in TransferIds |-> Status(t)])
<1>1. PICK t : t = e.transfer_id
  OBVIOUS
<1>2. event[w] \in Debits /\ event[w] \in InFlight /\ event[w].transfer_id = t
  BY <1>1 DEF SagaInv, Hands, Processing, InFlight, InHand, Busy
<1>3. t \in TransferIds /\ Debited(t)
  BY <1>2, DebitedInHand DEF SagaInv, Answers, Debits, All, TransferTypes
<1>4. \A u \in TransferIds : u # t => Status(u)' = Status(u)
  BY <1>1, OtherStatus
<1>5. Debited(t)'
  BY <1>3, NewDebit
<1>6. /\ Credited(t)' <=> Credited(t) \/ e.type = "transfer.credited"
      /\ Reversed(t)' <=> Reversed(t) \/ e.type = "transfer.reversed"
  BY <1>1, NewRow
<1>8. Credited(t) \/ Reversed(t) => t \in lost /\ Credited(t)
  BY <1>2 DEF SagaInv, Answers, Unsettled
<1>9. e.type = "transfer.credited" => ~Credited(t)
  BY <1>2 DEF SagaInv, Answers
<1>10. CASE Credited(t)
  <2>1. Status(t) = "completed" /\ Status(t)' = "completed"
    BY <1>3, <1>5, <1>6, <1>10 DEF StatusIs
  <2> QED BY <1>3, <1>4, <2>1, OneStatus
<1>11. CASE ~Credited(t)
  <2>1. Status(t) = "pending"
    BY <1>3, <1>8, <1>11 DEF StatusIs
  <2>2. Status(t)' \in {"completed", "reversed"}
    BY <1>3, <1>5, <1>6, <1>8, <1>11 DEF StatusIs
  <2> QED BY <1>3, <1>4, <2>1, <2>2, OneStatus
<1> QED BY <1>10, <1>11

\* The start of a transfer.
LEMMA StartStatus ==
  ASSUME TransferSagaAssumption, AccountAssumption, SagaInv, NEW t \in TransferIds,
         NEW from \in Opened, NEW to \in AccountIds, NEW n \in Amounts,
         StartTransfer(t, from, to, n), \A u \in TransferIds : StatusIs(u) /\ StatusIs(u)'
  PROVE  [Transfers!Next]_([u \in TransferIds |-> Status(u)])
<1>1. PICK e : e = DebitTransfer(Load(from), t, to, n).event
  OBVIOUS
<1>2. /\ \A r \in All : r.transfer_id # t
      /\ DebitTransfer(Load(from), t, to, n).err = "nil" /\ Append1(e)
  BY <1>1 DEF StartTransfer, All
<1>3. from \in AccountIds /\ n \in Nat
  BY DEF TransferSagaAssumption, AccountAssumption
<1>4. /\ e = NewEvent(from, Load(from).version + 1, "transfer.debited", n, t, to)
      /\ Continuing(events, from, e)
  BY <1>1, <1>2, <1>3, Decisions DEF SagaInv, Load
<1>5. e.type = "transfer.debited" /\ e.transfer_id = t
  BY <1>4 DEF NewEvent
<1>6. OneRow(e)
  BY <1>2, <1>3, <1>4, Appended
<1>7. ~Debited(t) /\ ~Credited(t) /\ ~Reversed(t)
  BY <1>2 DEF Debited, RowsOf, Credited, Reversed, HasTransferEvent, All
<1>8. Debited(t)' /\ ~Credited(t)' /\ ~Reversed(t)'
  BY <1>5, <1>6, <1>7, NewRow, NewDebit
<1>9. Status(t) = "none" /\ Status(t)' = "pending"
  BY <1>7, <1>8 DEF StatusIs
<1>10. \A u \in TransferIds : u # t => Status(u)' = Status(u)
  BY <1>5, <1>6, OtherStatus
<1> QED BY <1>9, <1>10, OneStatus

\* Whatever crashes, fails or is tried again, a transfer goes from pending to one
\* final status and stays there.
THEOREM SagaImplementsTransferSpec == Spec => ImplementsTransferSpec
<1> DEFINE now == [t \in TransferIds |-> Status(t)]
<1>1. Init => Transfers!Init
  <2> SUFFICES ASSUME Init PROVE Transfers!Init
    OBVIOUS
  <2>1. SagaInv /\ \A r \in All : r.type \notin TransferTypes
    BY SagaInit, OpeningTable, TransferSagaAssumption, AccountAssumption
  <2>2. \A t \in TransferIds : ~Debited(t)
    BY <2>1 DEF Debited, RowsOf, All, TransferTypes
  <2>3. \A t \in TransferIds : Status(t) = "none"
    BY <2>1, <2>2, StatusOf DEF StatusIs
  <2> QED BY <2>3 DEF Transfers!Init
<1>2. SagaInv' => \A t \in TransferIds : StatusIs(t)'
  <2>1. SagaInv' => (\A t \in TransferIds : StatusIs(t))'
    BY StatusOf, PTL
  <2> QED BY <2>1
<1>3. SagaInv /\ SagaInv' /\ [Next]_vars => [Transfers!Next]_now
  <2> SUFFICES ASSUME SagaInv, SagaInv', [Next]_vars PROVE [Transfers!Next]_now
    OBVIOUS
  <2>1. \A t \in TransferIds : StatusIs(t) /\ StatusIs(t)'
    BY <1>2, StatusOf
  <2>2. ASSUME events' = events PROVE [Transfers!Next]_now
    BY <2>1, <2>2, NoStatus
  <2>3. ASSUME NEW w \in Workers, Credit(w) \/ CreditAckLost(w) PROVE [Transfers!Next]_now
    <3>1. PICK e : e = CreditDecision(w).event
      OBVIOUS
    <3>2. step[w] = "credit" /\ CreditDecision(w).err = "nil" /\ Append1(e)
      BY <2>3, <3>1 DEF Credit, CreditAckLost, Record
    <3>3. /\ OneRow(e) /\ e.type = "transfer.credited"
          /\ e.transfer_id = event[w].transfer_id
      BY <3>1, <3>2, CreditAppends, TransferSagaAssumption
    <3> QED BY <2>1, <3>2, <3>3, SettleStatus
  <2>4. ASSUME NEW w \in Workers, Reverse(w) \/ ReverseAckLost(w) PROVE [Transfers!Next]_now
    <3>1. PICK e : e = ReverseDecision(w).event
      OBVIOUS
    <3>2. step[w] = "reverse" /\ ReverseDecision(w).err = "nil" /\ Append1(e)
      BY <2>4, <3>1 DEF Reverse, ReverseAckLost, Record
    <3>3. /\ OneRow(e) /\ e.type = "transfer.reversed"
          /\ e.transfer_id = event[w].transfer_id
      BY <3>1, <3>2, ReverseAppends, TransferSagaAssumption
    <3> QED BY <2>1, <3>2, <3>3, SettleStatus
  <2>5. CASE Client
    BY <2>1, <2>5, StartStatus, TransferSagaAssumption, AccountAssumption DEF Client
  <2>6. CASE Request \/ Resume \/ Crash \/ Shutdown \/ Exit
             \/ (\E p \in Partitions : Deliver(p)) \/ UNCHANGED vars
    <3>1. events' = events
      BY <2>6 DEF Request, Publish, Resume, Boot, CatchUp, ListenAndServe, Crash, Shutdown,
                  Exit, Die, Deliver, vars
    <3> QED BY <2>2, <3>1
  <2>7. ASSUME NEW w \in Workers, Worker(w) PROVE [Transfers!Next]_now
    <3>1. CASE Take(w) \/ CheckCredit(w) \/ CreditRefused(w) \/ CreditFails(w)
               \/ CheckReverse(w) \/ ReverseFails(w) \/ PublishAnswer(w)
      <4>1. events' = events
        BY <3>1 DEF Take, CheckCredit, CheckReverse, Check, CreditRefused, CreditFails,
                    ReverseFails, PublishAnswer
      <4> QED BY <2>2, <4>1
    <3> QED BY <2>3, <2>4, <2>7, <3>1 DEF Worker
  <2> QED BY <2>5, <2>6, <2>7 DEF Next
<1> QED BY <1>1, <1>3, SagaInvariant, PTL DEF Spec, ImplementsTransferSpec, Transfers!Spec


-----------------------------------------------------------------------------
(***************************************************************************)
(* Money                                                                   *)
(***************************************************************************)
Paid(S) == Total(Amount, S)

\* What MoneyConserved says, with what the sums need to exist.
MoneyInv ==
  /\ IsFiniteSet(Debits)
  /\ Total(Balance, Opened) + Paid(Unsettled) = Cardinality(Opened) * Funds + Paid(Doubled)

\* The sums over debits.
LEMMA PaidSums ==
  ASSUME NEW S, IsFiniteSet(S), S \subseteq Event
  PROVE  /\ Paid(S) \in Int
         /\ \A d \in S : Paid(S) = d.amount + Paid(S \ {d})
         /\ \A d \in Event \ S : Paid(S \cup {d}) = d.amount + Paid(S)
<1>1. \A d \in Event : Amount[d] = d.amount /\ d.amount \in Int
  BY DEF Amount, Event
<1>2. Integral(Amount, S)
  BY <1>1 DEF Integral
<1>3. ASSUME NEW d \in Event \ S PROVE Paid(S \cup {d}) = d.amount + Paid(S)
  <2>1. Integral(Amount, S \cup {d})
    BY <1>1 DEF Integral
  <2> QED BY <1>1, <2>1, TotalAdd DEF Paid
<1>4. ASSUME NEW d \in S PROVE Paid(S) = d.amount + Paid(S \ {d})
  BY <1>1, <1>2, TotalRemove DEF Paid
<1> QED BY <1>2, <1>3, <1>4, TotalType DEF Paid

\* The debits of a table are events, and the balances integers.
LEMMA MoneyTypes ==
  ASSUME SagaInv, IsFiniteSet(Debits), TransferSagaAssumption
  PROVE  /\ Debits \subseteq Event
         /\ IsFiniteSet(Unsettled) /\ IsFiniteSet(Doubled)
         /\ Integral(Balance, Opened)
         /\ Cardinality(Opened) * Funds \in Int
<1>1. Debits \subseteq Event
  BY RowsOfTable DEF SagaInv, Debits
<1>2. IsFiniteSet(Unsettled) /\ IsFiniteSet(Doubled)
  BY FS_Subset DEF Unsettled, Doubled
<1>3. ASSUME NEW a \in Opened PROVE Balance[a] \in Int
  <2>1. Load(a) \in AccountState
    BY Loaded, TransferSagaAssumption DEF SagaInv, Load
  <2> QED BY <2>1 DEF Balance, AccountState
<1>4. Cardinality(Opened) \in Nat /\ Funds \in Int
  BY FS_CardinalityType DEF TransferSagaAssumption
<1> QED BY <1>1, <1>2, <1>3, <1>4 DEF Integral

\* An append changes one balance, by the event's amount.
LEMMA BalanceMoves ==
  ASSUME TransferSagaAssumption, SagaInv, IsFiniteSet(Debits), NEW a \in Opened,
         NEW e \in Event, Load(a)' = Apply(Load(a), e),
         \A b \in AccountIds : b # a => Load(b)' = Load(b)
  PROVE  Total(Balance, Opened)' = Total(Balance, Opened) + Delta(e)
<1>1. PICK f, g : f = Balance /\ g = Balance'
  OBVIOUS
<1>2. Load(a) \in AccountState
  BY Loaded, TransferSagaAssumption DEF SagaInv, Load
<1>3. Integral(f, Opened)
  BY <1>1, MoneyTypes
<1>4. f[a] = Load(a).balance /\ g[a] = Load(a)'.balance
  BY <1>1 DEF Balance
<1>5. g[a] = f[a] + Delta(e) /\ f[a] \in Int /\ Delta(e) \in Int
  <2>1. Delta(e) \in Int
    BY DEF Delta, Event
  <2> QED BY <1>2, <1>4, <2>1, ApplyType DEF AccountState
<1>6. \A b \in Opened \ {a} : g[b] = f[b]
  BY <1>1, TransferSagaAssumption DEF Balance
<1>7. Integral(g, Opened)
  BY <1>3, <1>5, <1>6 DEF Integral
<1>8. Total(g, Opened) = Total(f, Opened) - f[a] + g[a] /\ Total(f, Opened) \in Int
  BY <1>3, <1>6, <1>7, TotalChange, TotalType, TransferSagaAssumption
<1>9. Total(Balance, Opened)' = Total(g, Opened) /\ Total(Balance, Opened) = Total(f, Opened)
  BY <1>1
<1> QED BY <1>5, <1>8, <1>9

\* A debit becomes what is in flight.
LEMMA StartMoney ==
  ASSUME TransferSagaAssumption, AccountAssumption, SagaInv, MoneyInv, NEW t \in TransferIds,
         NEW from \in Opened, NEW to \in AccountIds, NEW n \in Amounts,
         StartTransfer(t, from, to, n)
  PROVE  MoneyInv'
<1>1. PICK e : e = DebitTransfer(Load(from), t, to, n).event
  OBVIOUS
<1>2. /\ \A r \in All : r.transfer_id # t
      /\ DebitTransfer(Load(from), t, to, n).err = "nil" /\ Append1(e)
  BY <1>1 DEF StartTransfer, All
<1>3. from \in AccountIds /\ n \in Nat
  BY DEF TransferSagaAssumption, AccountAssumption
<1>4. /\ e = NewEvent(from, Load(from).version + 1, "transfer.debited", n, t, to)
      /\ Continuing(events, from, e)
  BY <1>1, <1>2, <1>3, Decisions DEF SagaInv, Load
<1>5. e.type = "transfer.debited" /\ e.transfer_id = t /\ e.amount = n
  BY <1>4 DEF NewEvent
<1>6. /\ OneRow(e) /\ Load(from)' = Apply(Load(from), e)
      /\ \A b \in AccountIds : b # from => Load(b)' = Load(b)
  BY <1>2, <1>3, <1>4, Appended
<1>7. Debits' = Debits \cup {e} /\ e \notin Debits /\ e \in Event
  BY <1>5, <1>6, NewRow DEF OneRow, Debits, All
<1>8. ~Credited(t) /\ ~Reversed(t)
  BY <1>2 DEF Credited, Reversed, HasTransferEvent, All
<1>9. \A u : (Credited(u)' <=> Credited(u)) /\ (Reversed(u)' <=> Reversed(u))
  BY <1>5, <1>6, NewRow
<1>10. PICK U, D : U = Unsettled /\ D = Doubled
  OBVIOUS
<1>11. Unsettled' = U \cup {e} /\ Doubled' = D /\ e \notin U
  BY <1>5, <1>7, <1>8, <1>9, <1>10 DEF Unsettled, Doubled
<1>12. IsFiniteSet(Debits) /\ IsFiniteSet(Debits)'
  BY <1>7, FS_AddElement DEF MoneyInv
<1>13. U \subseteq Event /\ D \subseteq Event /\ IsFiniteSet(U) /\ IsFiniteSet(D)
       /\ Cardinality(Opened) * Funds \in Int
  BY <1>10, <1>12, MoneyTypes DEF Unsettled, Doubled
<1>14. Paid(U \cup {e}) = n + Paid(U) /\ Paid(U) \in Int /\ Paid(D) \in Int
  BY <1>5, <1>7, <1>11, <1>13, PaidSums
<1>15. Paid(Unsettled)' = n + Paid(U) /\ Paid(Doubled)' = Paid(D)
       /\ Paid(Unsettled) = Paid(U) /\ Paid(Doubled) = Paid(D)
  BY <1>10, <1>11, <1>14 DEF Paid, Amount
<1>16. Delta(e) = -n
  BY <1>5 DEF Delta
<1>17. Total(Balance, Opened)' = Total(Balance, Opened) + (-n)
  BY <1>6, <1>7, <1>12, <1>16, BalanceMoves
<1>18. Total(Balance, Opened) \in Int
  BY <1>12, MoneyTypes, TotalType, TransferSagaAssumption
<1>19. PICK k : k = Cardinality(Opened) * Funds /\ k \in Int
  BY <1>13
<1>20. Total(Balance, Opened) + Paid(U) = k + Paid(D)
  BY <1>15, <1>19 DEF MoneyInv
<1>21. Total(Balance, Opened)' + Paid(Unsettled)' = k + Paid(Doubled)'
  BY <1>3, <1>14, <1>15, <1>17, <1>18, <1>19, <1>20
<1> QED BY <1>12, <1>19, <1>21 DEF MoneyInv


\* What a settlement does to the debits in flight: its own leaves them, unless the
\* transfer had been credited without an answer and exists twice from now on.
LEMMA SettledDebit ==
  ASSUME SagaInv, NEW w \in Workers, NEW e, OneRow(e),
         \/ step[w] = "credit" /\ e.type = "transfer.credited"
         \/ step[w] = "reverse" /\ e.type = "transfer.reversed",
         e.transfer_id = event[w].transfer_id
  PROVE  /\ event[w] \in Debits /\ Debits' = Debits
         /\ \/ /\ event[w] \in Unsettled /\ Doubled' = Doubled
               /\ Unsettled' = Unsettled \ {event[w]}
            \/ /\ event[w] \notin Doubled /\ Unsettled' = Unsettled
               /\ Doubled' = Doubled \cup {event[w]}
<1>1. PICK t, d : t = e.transfer_id /\ d = event[w]
  OBVIOUS
<1>2. d \in Debits /\ d \in InFlight /\ d.transfer_id = t
  BY <1>1 DEF SagaInv, Hands, Processing, InFlight, InHand, Busy
<1>3. Debits' = Debits
  BY NewRow
<1>4. /\ \A u : Credited(u)' <=> Credited(u) \/ (e.type = "transfer.credited" /\ u = t)
      /\ \A u : Reversed(u)' <=> Reversed(u) \/ (e.type = "transfer.reversed" /\ u = t)
  BY <1>1, NewRow
<1>5. Credited(t) \/ Reversed(t) => t \in lost /\ Credited(t)
  BY <1>2 DEF SagaInv, Answers, Unsettled
<1>6. /\ e.type = "transfer.credited" => ~Credited(t)
      /\ e.type = "transfer.reversed" => ~Reversed(t)
  BY <1>1, <1>2 DEF SagaInv, Answers
<1>7. \A c \in Debits : c.transfer_id = t => c = d
  BY <1>2 DEF SagaInv, Answers, Debits, All, TransferTypes
<1>8. CASE Credited(t)
  <2>1. e.type = "transfer.reversed" /\ ~Reversed(t)
    BY <1>6, <1>8
  <2>2. d \notin Doubled /\ d \notin Unsettled
    BY <1>2, <1>8, <2>1 DEF Doubled, Unsettled
  <2>3. \A c \in Debits : (Credited(c.transfer_id)' <=> Credited(c.transfer_id))
                       /\ (Reversed(c.transfer_id)' <=> Reversed(c.transfer_id) \/ c = d)
    BY <1>2, <1>4, <1>7, <2>1
  <2>4. Unsettled' = Unsettled
    BY <1>2, <1>3, <1>8, <2>3 DEF Unsettled
  <2>5. Doubled' = Doubled \cup {d}
    BY <1>2, <1>3, <1>8, <2>3 DEF Doubled
  <2> QED BY <1>1, <1>2, <1>3, <2>2, <2>4, <2>5
<1>9. CASE ~Credited(t)
  <2>1. ~Reversed(t) /\ d \in Unsettled
    BY <1>2, <1>5, <1>9 DEF Unsettled
  <2>2. \/ Credited(t)' /\ ~Reversed(t)'
        \/ Reversed(t)' /\ ~Credited(t)'
    BY <1>4, <1>9, <2>1
  <2>3. \A c \in Debits : c # d => (Credited(c.transfer_id)' <=> Credited(c.transfer_id))
                                /\ (Reversed(c.transfer_id)' <=> Reversed(c.transfer_id))
    BY <1>4, <1>7
  <2>4. Unsettled' = Unsettled \ {d}
    BY <1>2, <1>3, <2>2, <2>3 DEF Unsettled
  <2>5. Doubled' = Doubled
    BY <1>2, <1>3, <1>9, <2>2, <2>3 DEF Doubled
  <2> QED BY <1>1, <1>2, <1>3, <2>1, <2>4, <2>5
<1> QED BY <1>8, <1>9

\* What was in flight becomes a balance.
LEMMA SettleMoney ==
  ASSUME TransferSagaAssumption, SagaInv, MoneyInv, NEW w \in Workers, NEW e, OneRow(e),
         \/ step[w] = "credit" /\ e.type = "transfer.credited"
         \/ step[w] = "reverse" /\ e.type = "transfer.reversed",
         e.transfer_id = event[w].transfer_id, e.amount = event[w].amount,
         NEW a \in Opened, Load(a)' = Apply(Load(a), e),
         \A b \in AccountIds : b # a => Load(b)' = Load(b)
  PROVE  MoneyInv'
<1>1. PICK d, n, U, D : d = event[w] /\ n = e.amount /\ U = Unsettled /\ D = Doubled
  OBVIOUS
<1>2. /\ d \in Debits /\ Debits' = Debits
      /\ \/ d \in U /\ Doubled' = D /\ Unsettled' = U \ {d}
         \/ d \notin D /\ Unsettled' = U /\ Doubled' = D \cup {d}
  BY <1>1, SettledDebit
<1>3. IsFiniteSet(Debits) /\ IsFiniteSet(Debits)'
  BY <1>2 DEF MoneyInv
<1>4. U \subseteq Event /\ D \subseteq Event /\ IsFiniteSet(U) /\ IsFiniteSet(D) /\ d \in Event
      /\ Cardinality(Opened) * Funds \in Int
  BY <1>1, <1>2, <1>3, MoneyTypes DEF Unsettled, Doubled
<1>5. d.amount = n /\ n \in Int /\ e \in Event
  BY <1>1, <1>4 DEF Event, OneRow
<1>6. /\ Paid(U) \in Int /\ Paid(D) \in Int
      /\ d \in U => Paid(U) = n + Paid(U \ {d})
      /\ d \notin D => Paid(D \cup {d}) = n + Paid(D)
  BY <1>4, <1>5, PaidSums
<1>7. Paid(U \ {d}) \in Int
  <2>1. IsFiniteSet(U \ {d}) /\ U \ {d} \subseteq Event
    BY <1>4, FS_Subset
  <2> QED BY <2>1, PaidSums
<1>8. /\ Paid(Unsettled) = Paid(U) /\ Paid(Doubled) = Paid(D)
      /\ \/ Paid(Unsettled)' = Paid(U) - n /\ Paid(Doubled)' = Paid(D)
         \/ Paid(Unsettled)' = Paid(U) /\ Paid(Doubled)' = n + Paid(D)
  <2>1. CASE d \in U /\ Doubled' = D /\ Unsettled' = U \ {d}
    <3>1. Paid(Unsettled)' = Paid(U \ {d}) /\ Paid(Doubled)' = Paid(D)
      BY <2>1 DEF Paid, Amount
    <3>2. Paid(U \ {d}) = Paid(U) - n
      BY <1>5, <1>6, <1>7, <2>1
    <3> QED BY <1>1, <3>1, <3>2
  <2>2. CASE d \notin D /\ Unsettled' = U /\ Doubled' = D \cup {d}
    <3>1. Paid(Unsettled)' = Paid(U) /\ Paid(Doubled)' = Paid(D \cup {d})
      BY <2>2 DEF Paid, Amount
    <3> QED BY <1>1, <1>6, <2>2, <3>1
  <2> QED BY <1>2, <2>1, <2>2
<1>9. Delta(e) = n
  BY <1>1 DEF Delta
<1>10. Total(Balance, Opened)' = Total(Balance, Opened) + n
  BY <1>3, <1>5, <1>9, BalanceMoves
<1>11. Total(Balance, Opened) \in Int
  BY <1>3, MoneyTypes, TotalType, TransferSagaAssumption
<1>12. PICK k : k = Cardinality(Opened) * Funds /\ k \in Int
  BY <1>4
<1>13. Total(Balance, Opened) + Paid(U) = k + Paid(D)
  BY <1>8, <1>12 DEF MoneyInv
<1>14. Total(Balance, Opened)' + Paid(Unsettled)' = k + Paid(Doubled)'
  BY <1>5, <1>6, <1>8, <1>10, <1>11, <1>12, <1>13
<1> QED BY <1>3, <1>12, <1>14 DEF MoneyInv

\* The accounts are opened with what they have.
LEMMA MoneyInit ==
  ASSUME TransferSagaAssumption, AccountAssumption, Init
  PROVE  MoneyInv
<1>1. \A r \in All : r.type \notin TransferTypes
  BY OpeningTable
<1>2. Debits = {}
  BY <1>1 DEF Debits, All, TransferTypes
<1>3. Unsettled = {} /\ Doubled = {}
  BY <1>2 DEF Unsettled, Doubled
<1>4. Paid(Unsettled) = 0 /\ Paid(Doubled) = 0 /\ IsFiniteSet(Debits)
  BY <1>2, <1>3, TotalEmpty, FS_EmptySet DEF Paid
<1>5. ASSUME NEW a \in Opened PROVE Balance[a] = Funds
  <2>1. a \in AccountIds
    BY DEF TransferSagaAssumption
  <2>2. Load(a) = Replay(EmptyAccount, OpeningRows(a))
    BY <2>1 DEF Init, Load
  <2> QED BY <2>1, <2>2, OpeningStream DEF Balance
<1>6. PICK f : f = Balance
  OBVIOUS
<1>7. Funds \in Int /\ IsFiniteSet(Opened)
  BY DEF TransferSagaAssumption
<1>8. Total(f, Opened) = Cardinality(Opened) * Funds
  BY <1>5, <1>6, <1>7, TotalConstant
<1>9. Cardinality(Opened) * Funds \in Int
  <2>1. Cardinality(Opened) \in Nat
    BY <1>7, FS_CardinalityType
  <2> QED BY <1>7, <2>1
<1>10. PICK k \in Int : k = Cardinality(Opened) * Funds
  BY <1>9
<1>11. Total(Balance, Opened) + Paid(Unsettled) = k + Paid(Doubled)
  BY <1>4, <1>6, <1>8, <1>10
<1> QED BY <1>4, <1>10, <1>11 DEF MoneyInv

\* Money neither appears nor disappears: balances and transfers in flight add up to
\* what the accounts were opened with, but for the transfers whose credit took
\* effect without an answer, whose amount may exist twice.
THEOREM MoneyIsConserved == Spec => []MoneyConserved
<1>1. Init => MoneyInv
  BY MoneyInit, TransferSagaAssumption, AccountAssumption
<1>2. SagaInv /\ MoneyInv /\ [Next]_vars => MoneyInv'
  <2> SUFFICES ASSUME SagaInv, MoneyInv, [Next]_vars PROVE MoneyInv'
    OBVIOUS
  <2>1. ASSUME events' = events PROVE MoneyInv'
    <3>1. Debits' = Debits /\ Unsettled' = Unsettled /\ Doubled' = Doubled
      BY <2>1, SameRows DEF Doubled
    <3>2. Balance' = Balance
      BY <2>1 DEF Balance, Load
    <3> QED BY <3>1, <3>2 DEF MoneyInv, Paid, Amount
  <2>2. ASSUME NEW w \in Workers, Credit(w) \/ CreditAckLost(w) PROVE MoneyInv'
    <3>1. PICK e : e = CreditDecision(w).event
      OBVIOUS
    <3>2. step[w] = "credit" /\ CreditDecision(w).err = "nil" /\ Append1(e)
      BY <2>2, <3>1 DEF Credit, CreditAckLost, Record
    <3>3. /\ OneRow(e) /\ e.type = "transfer.credited"
          /\ e.transfer_id = event[w].transfer_id /\ e.amount = event[w].amount
          /\ \E a \in Opened : /\ Load(a)' = Apply(Load(a), e)
                               /\ \A b \in AccountIds : b # a => Load(b)' = Load(b)
      BY <3>1, <3>2, CreditAppends, TransferSagaAssumption
    <3> QED BY <3>2, <3>3, SettleMoney, TransferSagaAssumption
  <2>3. ASSUME NEW w \in Workers, Reverse(w) \/ ReverseAckLost(w) PROVE MoneyInv'
    <3>1. PICK e : e = ReverseDecision(w).event
      OBVIOUS
    <3>2. step[w] = "reverse" /\ ReverseDecision(w).err = "nil" /\ Append1(e)
      BY <2>3, <3>1 DEF Reverse, ReverseAckLost, Record
    <3>3. /\ OneRow(e) /\ e.type = "transfer.reversed"
          /\ e.transfer_id = event[w].transfer_id /\ e.amount = event[w].amount
          /\ \E a \in Opened : /\ Load(a)' = Apply(Load(a), e)
                               /\ \A b \in AccountIds : b # a => Load(b)' = Load(b)
      BY <3>1, <3>2, ReverseAppends, TransferSagaAssumption
    <3> QED BY <3>2, <3>3, SettleMoney, TransferSagaAssumption
  <2>4. CASE Client
    BY <2>4, StartMoney, TransferSagaAssumption, AccountAssumption DEF Client
  <2>5. CASE Request \/ Resume \/ Crash \/ Shutdown \/ Exit
             \/ (\E p \in Partitions : Deliver(p)) \/ UNCHANGED vars
    <3>1. events' = events
      BY <2>5 DEF Request, Publish, Resume, Boot, CatchUp, ListenAndServe, Crash, Shutdown,
                  Exit, Die, Deliver, vars
    <3> QED BY <2>1, <3>1
  <2>6. ASSUME NEW w \in Workers, Worker(w) PROVE MoneyInv'
    <3>1. CASE Take(w) \/ CheckCredit(w) \/ CreditRefused(w) \/ CreditFails(w)
               \/ CheckReverse(w) \/ ReverseFails(w) \/ PublishAnswer(w)
      <4>1. events' = events
        BY <3>1 DEF Take, CheckCredit, CheckReverse, Check, CreditRefused, CreditFails,
                    ReverseFails, PublishAnswer
      <4> QED BY <2>1, <4>1
    <3> QED BY <2>2, <2>3, <2>6, <3>1 DEF Worker
  <2> QED BY <2>4, <2>5, <2>6 DEF Next
<1>3. SagaInv /\ MoneyInv => MoneyConserved
  <2> SUFFICES ASSUME SagaInv, MoneyInv PROVE MoneyConserved
    OBVIOUS
  <2>1. ASSUME NEW d \in Doubled PROVE d.transfer_id \in lost
    BY DEF Doubled, SagaInv, Answers, Debits, All, TransferTypes
  <2>2. /\ Total(Balance, Opened) = MapThenSumSet(LAMBDA a : Balance[a], Opened)
        /\ Paid(Unsettled) = MapThenSumSet(LAMBDA d : Amount[d], Unsettled)
        /\ Paid(Doubled) = MapThenSumSet(LAMBDA d : Amount[d], Doubled)
    BY Zenon DEF Total, Paid
  <2> QED BY <2>1, <2>2, Zenon DEF MoneyInv, MoneyConserved
<1> QED BY <1>1, <1>2, <1>3, SagaInvariant, PTL DEF Spec
=============================================================================

--------------------------- MODULE ProjectorProofs ---------------------------
(***************************************************************************)
(* The properties of Projector for every set of accounts and transfers,    *)
(* every number of partitions and any number of commands and faults.       *)
(*                                                                         *)
(* The argument: a transaction of the projector keeps its tables faithful  *)
(* to the events it has processed, whatever their order, so nothing else   *)
(* needs to be known of the read models.  An event on its way to the       *)
(* projector is in one place and the saga holds a debit once, so it never  *)
(* credits a transfer it has reversed.  It may reverse one whose credit    *)
(* nobody answered: such a transfer is settled twice in the log, and only  *)
(* the row of such a one can go from one final status to the other.        *)
(***************************************************************************)
EXTENDS Projector, ReplayTheorems

-----------------------------------------------------------------------------
(***************************************************************************)
(* The inductive invariant                                                 *)
(***************************************************************************)
\* The stream of an account among the events R, as EventsByAggregate finds it.
RowsIn(R, a) ==
  [v \in {e.version : e \in Of(R, a)} |-> CHOOSE e \in Of(R, a) : e.version = v]

\* The events R are streams.
History(R) ==
  /\ R \subseteq Event
  /\ \A e, f \in R : e.aggregate_id = f.aggregate_id /\ e.version = f.version => e = f
  /\ \A a \in AccountIds : Stream(a, RowsIn(R, a), LastVersion(RowsIn(R, a)))

Settlements   == {"transfer.credited", "transfer.reversed"}
TransferTypes == Settlements \cup {"transfer.debited"}

CreditedIn(R, t) == \E r \in R : r.type = "transfer.credited" /\ r.transfer_id = t
ReversedIn(R, t) == \E r \in R : r.type = "transfer.reversed" /\ r.transfer_id = t

\* A transfer is debited once.
OneDebit(R) ==
  /\ \A r \in R : r.type \in TransferTypes => r.transfer_id \in TransferIds
  /\ \A r \in R : r.type = "transfer.debited" => r.peer \in AccountIds /\ r.amount > 0
  /\ \A r, s \in R : /\ r.type = "transfer.debited" /\ s.type = "transfer.debited"
                     /\ r.transfer_id = s.transfer_id
                     => r = s

Debits == {e \in Recorded : e.type = "transfer.debited"}
Queued == UNION {Range(b) : b \in unpublished}

\* An event on its way is in one place, and so is a debit the saga holds; unless the
\* saga gave it up, its transfer is not reversed.
Flight ==
  /\ \A b \in unpublished : b \in Seq(Recorded) /\ b # <<>> /\ Once(b)
  /\ \A b, c \in unpublished : Range(b) \cap Range(c) # {} => b = c
  /\ bus \in [Partitions -> Seq(Recorded)] /\ Sorted(bus, PartitionOf)
  /\ Queued \cap Carried(bus) = {}
  /\ handed \subseteq Debits /\ reversing \subseteq Debits /\ handed \cap reversing = {}
  /\ (handed \cup reversing) \cap (Queued \cup Carried(bus)) = {}
  /\ \A d \in Debits \cap (handed \cup Queued \cup Carried(bus)) :
       ~ReversedIn(Recorded, d.transfer_id)
  /\ phase \in {"down", "boot"} =>
       unpublished = {} /\ Carried(bus) = {} /\ handed = {} /\ reversing = {}

EntryOf(e)    == [event |-> e, account_id |-> e.aggregate_id, amount |-> Signed(e)]
Entries(d, a) == {s \in d.statement : s.account_id = a}

\* B is a table, a function of the keys of its rows.
Keyed(B) == B = [k \in DOMAIN B |-> B[k]]

\* The tables tell what was processed, and nothing else.
Faithful(d) ==
  /\ d = [balances |-> d.balances, statement |-> d.statement,
          transfers |-> d.transfers, processed |-> d.processed]
  /\ d.processed \subseteq Event /\ IsFiniteSet(d.processed)
  /\ DOMAIN d.balances = {e.aggregate_id : e \in d.processed}
  /\ Keyed(d.balances)
  /\ \A a \in DOMAIN d.balances : d.balances[a] = Total(Change, Of(d.processed, a))
  /\ IsFiniteSet(d.statement)
  /\ d.statement = {EntryOf(e) : e \in {x \in d.processed : x.type # "account.opened"}}
  /\ \A a \in AccountIds : Total(Entered, Entries(d, a)) = Total(Change, Of(d.processed, a))
  /\ d.transfers \in [TransferIds -> {"none", "pending", "completed", "reversed"}]
  /\ \A t \in TransferIds :
       /\ d.transfers[t] = "completed" =>
            \E e \in d.processed : e.type = "transfer.credited" /\ e.transfer_id = t
       /\ d.transfers[t] = "reversed" =>
            \E e \in d.processed : e.type = "transfer.reversed" /\ e.transfer_id = t

\* What was not processed is still to come, or given up in this life.
Ahead ==
  /\ todo \in Seq(Recorded)
  /\ phase = "boot" => Recorded \ db.processed \subseteq Range(todo)
  /\ phase = "serving" => Recorded \ db.processed \subseteq Queued \cup Carried(bus) \cup missed

Bounds ==
  /\ phase \in {"down", "boot", "serving", "stopping"}
  /\ db.processed \subseteq Recorded /\ missed \subseteq Recorded
  /\ faults \in 0 .. MaxFaults
  /\ known \subseteq {e.aggregate_id : e \in Recorded}

ProjectorInv ==
  /\ log \in Seq(Event) /\ History(Recorded) /\ OneDebit(Recorded)
  /\ Flight /\ Faithful(db) /\ Ahead /\ Bounds

\* A step forgets no event, and credits no transfer that was reversed.
LogGoesOn ==
  /\ Recorded \subseteq Recorded'
  /\ \A t : ReversedIn(Recorded, t) /\ CreditedIn(Recorded', t) => CreditedIn(Recorded, t)

-----------------------------------------------------------------------------
(***************************************************************************)
(* One transaction of the projector                                        *)
(***************************************************************************)
\* The tables after the transaction of an event that is applied.
After(d, e) ==
  LET opened == e.type = "account.opened"
  IN  [balances  |-> IF opened THEN OpenRow(d.balances, e) ELSE bump(d.balances, e),
       statement |-> IF opened THEN d.statement ELSE d.statement \cup {EntryOf(e)},
       transfers |-> IF opened THEN d.transfers ELSE TransferRow(d.transfers, e),
       processed |-> d.processed \cup {e}]

\* A transaction changes nothing or applies its event.
LEMMA Transaction ==
  ASSUME NEW d, Faithful(d), NEW e
  PROVE  \/ ApplyTx(d, e) = d /\ (e \in d.processed \/ ~Applicable(d, e))
         \/ ApplyTx(d, e) = After(d, e) /\ e \notin d.processed /\ Applicable(d, e)
<1>1. PICK B, S, T, P : d = [balances |-> B, statement |-> S, transfers |-> T, processed |-> P]
  BY DEF Faithful
<1>2. CASE e \in d.processed \/ ~Applicable(d, e)
  BY <1>2 DEF ApplyTx
<1>3. CASE ~(e \in d.processed \/ ~Applicable(d, e))
  <2>1. ApplyTx(d, e) = [applyEvent(d, e) EXCEPT !.processed = @ \cup {e}]
    BY <1>3 DEF ApplyTx
  <2>2. CASE e.type = "account.opened"
    <3>1. applyEvent(d, e) = [balances |-> OpenRow(B, e), statement |-> S, transfers |-> T,
                              processed |-> P]
      BY <1>1, <2>2 DEF applyEvent
    <3>2. ApplyTx(d, e) = [balances |-> OpenRow(B, e), statement |-> S, transfers |-> T,
                           processed |-> P \cup {e}]
      BY <2>1, <3>1
    <3>3. After(d, e) = [balances |-> OpenRow(B, e), statement |-> S, transfers |-> T,
                         processed |-> P \cup {e}]
      BY <1>1, <2>2 DEF After
    <3> QED BY <1>3, <3>2, <3>3
  <2>3. CASE e.type # "account.opened"
    <3>1. applyEvent(d, e) = [balances |-> bump(B, e), statement |-> statement(S, e),
                              transfers |-> TransferRow(T, e), processed |-> P]
      BY <1>1, <2>3 DEF applyEvent
    <3>2. ApplyTx(d, e) = [balances |-> bump(B, e), statement |-> statement(S, e),
                           transfers |-> TransferRow(T, e), processed |-> P \cup {e}]
      BY <2>1, <3>1
    <3>3. After(d, e) = [balances |-> bump(B, e), statement |-> statement(S, e),
                         transfers |-> TransferRow(T, e), processed |-> P \cup {e}]
      BY <1>1, <2>3 DEF After, statement, EntryOf
    <3> QED BY <1>3, <3>2, <3>3
  <2> QED BY <2>2, <2>3
<1> QED BY <1>2, <1>3

\* What the write side and the read side count for an event.
LEMMA Counted ==
  ASSUME NEW e \in Event
  PROVE  /\ Change[e] = Delta(e) /\ Delta(e) \in Int /\ Signed(e) \in Int
         /\ e.type # "account.opened" => Signed(e) = Delta(e)
         /\ e.type = "account.opened" => Delta(e) = 0
         /\ EntryOf(e) \in Entry /\ Entered[EntryOf(e)] = Signed(e)
<1>1. e.type \in EventTypes /\ e.amount \in Nat /\ e.aggregate_id \in AccountIds
  BY DEF Event
<1>2. Delta(e) \in Int /\ Signed(e) \in Int
  BY <1>1 DEF Delta, Signed
<1>3. e.type # "account.opened" => Signed(e) = Delta(e)
  BY <1>1 DEF Delta, Signed, EventTypes
<1>4. e.type = "account.opened" => Delta(e) = 0
  BY DEF Delta
<1>5. EntryOf(e) \in Entry
  BY <1>1, <1>2 DEF EntryOf, Entry
<1>6. Entered[EntryOf(e)] = EntryOf(e).amount
  BY <1>5 DEF Entered
<1>7. EntryOf(e).amount = Signed(e)
  BY DEF EntryOf
<1> QED BY <1>2, <1>3, <1>4, <1>5, <1>6, <1>7 DEF Change

\* The sums of an account after one event more.
LEMMA OneMoreProcessed ==
  ASSUME NEW P, P \subseteq Event, IsFiniteSet(P), NEW e \in Event, e \notin P, NEW a
  PROVE  /\ Total(Change, Of(P, a)) \in Int
         /\ a = e.aggregate_id =>
              Total(Change, Of(P \cup {e}, a)) = Total(Change, Of(P, a)) + Delta(e)
         /\ a # e.aggregate_id => Of(P \cup {e}, a) = Of(P, a)
<1>1. IsFiniteSet(Of(P, a)) /\ e \notin Of(P, a)
  BY FS_Subset DEF Of
<1>2. Integral(Change, Of(P, a)) /\ Integral(Change, Of(P, a) \cup {e})
  BY Counted DEF Integral, Of
<1>3. Total(Change, Of(P, a)) \in Int /\ Delta(e) \in Int /\ Change[e] = Delta(e)
  BY <1>1, <1>2, TotalType, Counted
<1>4. CASE a = e.aggregate_id
  <2>1. Of(P \cup {e}, a) = Of(P, a) \cup {e}
    BY <1>4 DEF Of
  <2>2. Total(Change, Of(P, a) \cup {e}) = Change[e] + Total(Change, Of(P, a))
    BY <1>1, <1>2, TotalAdd
  <2>3. Total(Change, Of(P, a) \cup {e}) = Total(Change, Of(P, a)) + Delta(e)
    BY <1>3, <2>2
  <2> QED BY <1>3, <1>4, <2>1, <2>3
<1>5. CASE a # e.aggregate_id
  <2>1. Of(P \cup {e}, a) = Of(P, a)
    BY <1>5 DEF Of
  <2> QED BY <1>3, <1>5, <2>1
<1> QED BY <1>4, <1>5

\* B holds the balances of d after the event e.
Balanced(B, d, e) ==
  /\ DOMAIN B = DOMAIN d.balances \cup {e.aggregate_id}
  /\ \A a \in DOMAIN B : B[a] = Total(Change, Of(d.processed \cup {e}, a))
  /\ Keyed(B)

\* The balances after an event that is applied.
LEMMA BalancesAfter ==
  ASSUME NEW d, Faithful(d), NEW e \in Event, e \notin d.processed, Applicable(d, e),
         NEW B, B = After(d, e).balances
  PROVE  Balanced(B, d, e)
<1>1. PICK P, A, x : P = d.processed /\ A = d.balances /\ x = e.aggregate_id
  OBVIOUS
<1>2. /\ P \subseteq Event /\ IsFiniteSet(P) /\ e \notin P
      /\ DOMAIN A = {f.aggregate_id : f \in P}
      /\ Keyed(A)
      /\ \A a \in DOMAIN A : A[a] = Total(Change, Of(P, a))
  BY <1>1 DEF Faithful
<1>3. ASSUME NEW a
      PROVE  /\ Total(Change, Of(P, a)) \in Int
             /\ a # x => Of(P \cup {e}, a) = Of(P, a)
             /\ a = x => Total(Change, Of(P \cup {e}, a)) = Total(Change, Of(P, a)) + Delta(e)
  <2>1. P \subseteq Event /\ IsFiniteSet(P) /\ e \in Event /\ e \notin P
    BY <1>2
  <2>2. /\ Total(Change, Of(P, a)) \in Int
        /\ a = e.aggregate_id =>
             Total(Change, Of(P \cup {e}, a)) = Total(Change, Of(P, a)) + Delta(e)
        /\ a # e.aggregate_id => Of(P \cup {e}, a) = Of(P, a)
    BY <2>1, OneMoreProcessed
  <2> QED BY <1>1, <2>2
<1>4. CASE e.type = "account.opened"
  <2>1. B = OpenRow(A, e)
    BY <1>1, <1>4 DEF After
  <2>2. Delta(e) = 0
    BY <1>4, Counted
  <2>3. DOMAIN B = DOMAIN A \cup {x} /\ Keyed(B)
    BY <1>1, <2>1 DEF OpenRow, Keyed
  <2>4. ASSUME NEW a \in DOMAIN B PROVE B[a] = Total(Change, Of(P, a))
    <3>1. CASE a \in DOMAIN A
      BY <1>1, <1>2, <2>1, <2>3, <3>1 DEF OpenRow
    <3>2. CASE a \notin DOMAIN A
      <4>1. B[a] = 0 /\ Of(P, a) = {}
        BY <1>1, <1>2, <2>1, <2>3, <3>2 DEF OpenRow, Of
      <4> QED BY <4>1, TotalEmpty
    <3> QED BY <3>1, <3>2
  <2>5. ASSUME NEW a PROVE Total(Change, Of(P \cup {e}, a)) = Total(Change, Of(P, a))
    <3>1. CASE a = x
      <4>1. /\ Total(Change, Of(P \cup {e}, a)) = Total(Change, Of(P, a)) + 0
            /\ Total(Change, Of(P, a)) \in Int
        BY <1>3, <2>2, <3>1
      <4> QED BY <4>1
    <3>2. CASE a # x
      BY <1>3, <3>2
    <3> QED BY <3>1, <3>2
  <2> QED BY <1>1, <2>3, <2>4, <2>5 DEF Balanced
<1>5. CASE e.type # "account.opened"
  <2>1. B = [A EXCEPT ![x] = @ + Signed(e)] /\ x \in DOMAIN A
    BY <1>1, <1>5 DEF After, Applicable, bump
  <2>2. Signed(e) = Delta(e)
    BY <1>5, Counted
  <2>3. DOMAIN B = DOMAIN A \cup {x} /\ Keyed(B)
    BY <1>2, <2>1 DEF Keyed
  <2>4. ASSUME NEW a \in DOMAIN A
        PROVE  B[a] = IF a = x THEN A[a] + Signed(e) ELSE A[a]
    BY <1>2, <2>1 DEF Keyed
  <2>5. ASSUME NEW a \in DOMAIN B PROVE B[a] = Total(Change, Of(P \cup {e}, a))
    <3>1. a \in DOMAIN A /\ A[a] = Total(Change, Of(P, a))
      BY <1>2, <2>1, <2>3
    <3>2. CASE a = x
      <4>1. Total(Change, Of(P \cup {e}, a)) = Total(Change, Of(P, a)) + Delta(e)
        BY <1>3, <3>2
      <4> QED BY <2>2, <2>4, <3>1, <3>2, <4>1
    <3>3. CASE a # x
      <4>1. Of(P \cup {e}, a) = Of(P, a)
        BY <1>3, <3>3
      <4> QED BY <2>4, <3>1, <3>3, <4>1
    <3> QED BY <3>2, <3>3
  <2> QED BY <1>1, <2>3, <2>5 DEF Balanced
<1> QED BY <1>4, <1>5


\* The statement after an event that is applied: its entries count what the
\* processed events do, since the opening counts nothing.
LEMMA StatementAfter ==
  ASSUME NEW d, Faithful(d), NEW e \in Event, e \notin d.processed,
         NEW c, c = After(d, e), NEW a \in AccountIds
  PROVE  Total(Entered, Entries(c, a)) = Total(Change, Of(d.processed \cup {e}, a))
<1>1. PICK P, x, E : P = d.processed /\ x = EntryOf(e) /\ E = Entries(d, a)
  OBVIOUS
<1>2. /\ P \subseteq Event /\ IsFiniteSet(P) /\ e \notin P
      /\ IsFiniteSet(d.statement)
      /\ d.statement = {EntryOf(f) : f \in {y \in P : y.type # "account.opened"}}
      /\ Total(Entered, E) = Total(Change, Of(P, a))
  BY <1>1 DEF Faithful
<1>3. /\ Total(Change, Of(P, a)) \in Int
      /\ a = e.aggregate_id =>
           Total(Change, Of(P \cup {e}, a)) = Total(Change, Of(P, a)) + Delta(e)
      /\ a # e.aggregate_id => Of(P \cup {e}, a) = Of(P, a)
  BY <1>2, OneMoreProcessed
<1>4. Delta(e) \in Int /\ x \in Entry /\ Entered[x] = Signed(e)
  BY <1>1, Counted
<1>5. x.account_id = e.aggregate_id /\ x.event = e
  BY <1>1 DEF EntryOf
<1>6. CASE e.type = "account.opened"
  <2>1. Entries(c, a) = E /\ Delta(e) = 0
    BY <1>1, <1>6, Counted DEF After, Entries
  <2>2. Total(Change, Of(P, a)) + 0 = Total(Change, Of(P, a))
    BY <1>3
  <2>3. Total(Change, Of(P \cup {e}, a)) = Total(Change, Of(P, a))
    BY <1>3, <2>1, <2>2
  <2> QED BY <1>1, <1>2, <2>1, <2>3
<1>7. CASE e.type # "account.opened"
  <2>1. c.statement = d.statement \cup {x} /\ Signed(e) = Delta(e)
    BY <1>1, <1>7, Counted DEF After
  <2>2. CASE a # e.aggregate_id
    <3>1. Entries(c, a) = E
      BY <1>1, <1>5, <2>1, <2>2 DEF Entries
    <3> QED BY <1>1, <1>2, <1>3, <2>2, <3>1
  <2>3. CASE a = e.aggregate_id
    <3>1. Entries(c, a) = E \cup {x}
      BY <1>1, <1>5, <2>1, <2>3 DEF Entries
    <3>2. \A s \in d.statement : s \in Entry /\ s.event \in P
      <4>1. ASSUME NEW f \in P PROVE EntryOf(f) \in Entry /\ EntryOf(f).event = f
        BY <1>2, Counted DEF EntryOf
      <4> QED BY <1>2, <4>1
    <3>3. x \notin E /\ E \subseteq Entry
      BY <1>1, <1>2, <1>5, <3>2 DEF Entries
    <3>4. IsFiniteSet(E)
      BY <1>1, <1>2, FS_Subset DEF Entries
    <3>5. Integral(Entered, E \cup {x})
      BY <1>4, <3>3 DEF Integral, Entered, Entry
    <3>6. Total(Entered, E \cup {x}) = Entered[x] + Total(Entered, E)
      BY <3>3, <3>4, <3>5, TotalAdd
    <3>7. Total(Entered, E \cup {x}) = Total(Change, Of(P, a)) + Delta(e)
      BY <1>2, <1>3, <1>4, <2>1, <3>6
    <3> QED BY <1>1, <1>3, <2>3, <3>1, <3>7
  <2> QED BY <2>2, <2>3
<1> QED BY <1>6, <1>7

Statuses == {"none", "pending", "completed", "reversed"}

\* The row of a transfer after an event that is applied: only an event of the
\* transfer moves it, and each kind in its own way.
LEMMA TransfersAfter ==
  ASSUME NEW d, Faithful(d), NEW e, NEW T, T = After(d, e).transfers
  PROVE  /\ T \in [TransferIds -> Statuses]
         /\ \A t \in TransferIds :
              \/ T[t] = d.transfers[t]
              \/ /\ e.transfer_id = t
                 /\ \/ /\ e.type = "transfer.debited"
                       /\ d.transfers[t] = "none" /\ T[t] = "pending"
                    \/ /\ e.type = "transfer.credited"
                       /\ d.transfers[t] # "none" /\ T[t] = "completed"
                    \/ /\ e.type = "transfer.reversed"
                       /\ d.transfers[t] # "none" /\ T[t] = "reversed"
<1>1. PICK R, u : R = d.transfers /\ u = e.transfer_id /\ R \in [TransferIds -> Statuses]
  BY DEF Faithful, Statuses
<1>2. \/ T = R
      \/ T = TransferRow(R, e)
  BY <1>1 DEF After
<1>3. \/ T = R
      \/ /\ e.type = "transfer.debited" /\ R[u] = "none"
         /\ T = [R EXCEPT ![u] = "pending"]
      \/ /\ e.type = "transfer.credited" /\ R[u] # "none"
         /\ T = [R EXCEPT ![u] = "completed"]
      \/ /\ e.type = "transfer.reversed" /\ R[u] # "none"
         /\ T = [R EXCEPT ![u] = "reversed"]
  BY <1>1, <1>2 DEF TransferRow
<1>4. \A s \in Statuses : [R EXCEPT ![u] = s] \in [TransferIds -> Statuses]
  BY <1>1
<1>5. \A s \in Statuses, t \in TransferIds :
        [R EXCEPT ![u] = s][t] = IF t = u THEN s ELSE R[t]
  BY <1>1
<1>6. {"pending", "completed", "reversed"} \subseteq Statuses
  BY DEF Statuses
<1> QED BY <1>1, <1>3, <1>4, <1>5, <1>6

\* A transaction keeps the tables faithful, whatever the event and whenever it
\* comes.
THEOREM TransactionIsFaithful ==
  ASSUME NEW d, Faithful(d), NEW e \in Event
  PROVE  /\ Faithful(ApplyTx(d, e))
         /\ d.processed \subseteq ApplyTx(d, e).processed
         /\ ApplyTx(d, e).processed \subseteq d.processed \cup {e}
<1>1. PICK c, P, Q : c = After(d, e) /\ P = d.processed /\ Q = P \cup {e}
  OBVIOUS
<1>2. CASE ApplyTx(d, e) = d
  BY <1>2
<1>3. CASE ApplyTx(d, e) = c /\ e \notin P /\ Applicable(d, e)
  <2>1. c.processed = Q
    BY <1>1 DEF After
  <2>2. Q \subseteq Event /\ IsFiniteSet(Q)
    BY <1>1, FS_AddElement DEF Faithful
  <2>3. c = [balances |-> c.balances, statement |-> c.statement,
             transfers |-> c.transfers, processed |-> c.processed]
    BY <1>1 DEF After
  <2>4. /\ DOMAIN c.balances = DOMAIN d.balances \cup {e.aggregate_id}
        /\ \A a \in DOMAIN c.balances : c.balances[a] = Total(Change, Of(Q, a))
        /\ Keyed(c.balances)
    <3>1. Balanced(After(d, e).balances, d, e)
      BY <1>1, <1>3, BalancesAfter
    <3> QED BY <1>1, <3>1 DEF Balanced
  <2>5. DOMAIN c.balances = {f.aggregate_id : f \in Q}
    BY <1>1, <2>4 DEF Faithful
  <2>6. \A a \in AccountIds : Total(Entered, Entries(c, a)) = Total(Change, Of(Q, a))
    BY <1>1, <1>3, StatementAfter
  <2>7. /\ IsFiniteSet(c.statement)
        /\ c.statement = {EntryOf(f) : f \in {y \in Q : y.type # "account.opened"}}
    <3>1. /\ IsFiniteSet(d.statement)
          /\ d.statement = {EntryOf(f) : f \in {y \in P : y.type # "account.opened"}}
      BY <1>1 DEF Faithful
    <3>2. CASE e.type = "account.opened"
      <4>1. c.statement = d.statement
        BY <1>1, <3>2 DEF After
      <4>2. {y \in Q : y.type # "account.opened"} = {y \in P : y.type # "account.opened"}
        BY <1>1, <3>2
      <4> QED BY <3>1, <4>1, <4>2
    <3>3. CASE e.type # "account.opened"
      <4>1. c.statement = d.statement \cup {EntryOf(e)}
        BY <1>1, <3>3 DEF After
      <4>2. {y \in Q : y.type # "account.opened"} =
              {y \in P : y.type # "account.opened"} \cup {e}
        BY <1>1, <3>3
      <4> QED BY <3>1, <4>1, <4>2, FS_AddElement
    <3> QED BY <3>2, <3>3
  <2>8. c.transfers \in [TransferIds -> Statuses]
    BY <1>1, TransfersAfter
  <2>9. ASSUME NEW t \in TransferIds
        PROVE  /\ c.transfers[t] = "completed" =>
                    \E f \in Q : f.type = "transfer.credited" /\ f.transfer_id = t
               /\ c.transfers[t] = "reversed" =>
                    \E f \in Q : f.type = "transfer.reversed" /\ f.transfer_id = t
    <3>1. /\ d.transfers[t] = "completed" =>
               \E f \in P : f.type = "transfer.credited" /\ f.transfer_id = t
          /\ d.transfers[t] = "reversed" =>
               \E f \in P : f.type = "transfer.reversed" /\ f.transfer_id = t
      BY <1>1 DEF Faithful
    <3>2. \/ c.transfers[t] = d.transfers[t]
          \/ /\ e.transfer_id = t
             /\ \/ c.transfers[t] = "pending"
                \/ e.type = "transfer.credited" /\ c.transfers[t] = "completed"
                \/ e.type = "transfer.reversed" /\ c.transfers[t] = "reversed"
      BY <1>1, TransfersAfter
    <3>3. e \in Q /\ P \subseteq Q
      BY <1>1
    <3> QED BY <3>1, <3>2, <3>3
  <2>10. Faithful(c)
    BY <2>1, <2>2, <2>3, <2>4, <2>5, <2>6, <2>7, <2>8, <2>9 DEF Faithful, Statuses
  <2> QED BY <1>1, <1>3, <2>1, <2>10
<1> QED BY <1>1, <1>2, <1>3, Transaction

\* The tables of a new database.
LEMMA NothingProcessed == Faithful(EmptyTables) /\ EmptyTables.processed = {}
<1> DEFINE d == EmptyTables
<1>1. /\ d = [balances |-> d.balances, statement |-> d.statement,
              transfers |-> d.transfers, processed |-> d.processed]
      /\ d.processed = {} /\ d.statement = {} /\ DOMAIN d.balances = {}
      /\ Keyed(d.balances)
      /\ d.transfers \in [TransferIds -> {"none"}]
  BY DEF EmptyTables, Keyed
<1> HIDE DEF d
<1>2. \A a : Of({}, a) = {} /\ Entries(d, a) = {}
  BY <1>1 DEF Of, Entries
<1>3. Total(Entered, {}) = 0 /\ Total(Change, {}) = 0 /\ IsFiniteSet({})
  BY TotalEmpty, FS_EmptySet
<1>4. Faithful(d)
  BY <1>1, <1>2, <1>3 DEF Faithful
<1> QED BY <1>1, <1>4 DEF d


-----------------------------------------------------------------------------
(***************************************************************************)
(* The log as streams                                                      *)
(***************************************************************************)
\* Every event is the row of its version in the stream of its account.
LEMMA RowOfEvent ==
  ASSUME NEW R, \A e, f \in R : /\ e.aggregate_id = f.aggregate_id
                                /\ e.version = f.version
                                => e = f,
         NEW a
  PROVE  /\ DOMAIN RowsIn(R, a) = {e.version : e \in Of(R, a)}
         /\ \A e \in Of(R, a) : RowsIn(R, a)[e.version] = e
<1>1. DOMAIN RowsIn(R, a) = {e.version : e \in Of(R, a)}
  BY DEF RowsIn
<1>2. ASSUME NEW e \in Of(R, a) PROVE RowsIn(R, a)[e.version] = e
  <2>1. \A f \in Of(R, a) : f.version = e.version => f = e
    BY DEF Of
  <2>2. (CHOOSE f \in Of(R, a) : f.version = e.version) = e
    BY <2>1
  <2> QED BY <1>1, <2>2 DEF RowsIn
<1> QED BY <1>1, <1>2

\* The event that continues the stream of its account.
Continues(R, a, e) ==
  /\ e \in Event /\ e.aggregate_id = a
  /\ e.version = LastVersion(RowsIn(R, a)) + 1
  /\ e.type = "account.opened" <=> LastVersion(RowsIn(R, a)) = 0

\* A log with one event more.
LEMMA HistoryGrows ==
  ASSUME NEW R, History(R), NEW a \in AccountIds, NEW e, Continues(R, a, e)
  PROVE  /\ History(R \cup {e}) /\ e \notin R
         /\ LastVersion(RowsIn(R \cup {e}, a)) = LastVersion(RowsIn(R, a)) + 1
         /\ Replay(EmptyAccount, RowsIn(R \cup {e}, a)) =
              Apply(Replay(EmptyAccount, RowsIn(R, a)), e)
<1>1. PICK r, n, Q : r = RowsIn(R, a) /\ n = LastVersion(r) /\ Q = R \cup {e}
  OBVIOUS
<1>2. /\ Stream(a, r, n) /\ n \in Nat /\ DOMAIN r = 1 .. n
      /\ e \in Event /\ e.aggregate_id = a /\ e.version = n + 1
      /\ e.type = "account.opened" <=> n = 0
  BY <1>1 DEF History, Continues, Stream
<1>3. /\ DOMAIN r = {f.version : f \in Of(R, a)}
      /\ \A f \in Of(R, a) : r[f.version] = f
  BY <1>1, RowOfEvent DEF History
<1>4. \A f \in Of(R, a) : f.version \in 1 .. n /\ f.version # n + 1
  BY <1>2, <1>3
<1>5. e \notin R
  BY <1>2, <1>4 DEF Of
<1>6. Q \subseteq Event /\ \A f, g \in Q : /\ f.aggregate_id = g.aggregate_id
                                            /\ f.version = g.version
                                            => f = g
  BY <1>1, <1>2, <1>4 DEF History, Of
<1>7. /\ DOMAIN RowsIn(Q, a) = {f.version : f \in Of(Q, a)}
      /\ \A f \in Of(Q, a) : RowsIn(Q, a)[f.version] = f
  BY <1>6, RowOfEvent
<1>8. Of(Q, a) = Of(R, a) \cup {e}
  BY <1>1, <1>2 DEF Of
<1>9. PICK s : s = RowsIn(Q, a)
  OBVIOUS
<1>10. DOMAIN s = 1 .. n + 1
  <2>1. DOMAIN s = DOMAIN r \cup {n + 1}
    <3>1. DOMAIN s = {f.version : f \in Of(R, a) \cup {e}}
      BY <1>7, <1>8, <1>9
    <3> QED BY <1>2, <1>3, <3>1
  <2> QED BY <1>2, <2>1
<1>11. s[n + 1] = e
  BY <1>2, <1>7, <1>8, <1>9
<1>12. ASSUME NEW v \in 1 .. n PROVE s[v] = r[v]
  <2>1. PICK f \in Of(R, a) : f.version = v
    <3>1. v \in {f.version : f \in Of(R, a)}
      BY <1>2, <1>3
    <3> QED BY <3>1
  <2> QED BY <1>3, <1>7, <1>8, <1>9, <2>1
<1>13. s = [v \in 1 .. n + 1 |-> IF v <= n THEN r[v] ELSE e]
  <2> DEFINE g == [v \in 1 .. n + 1 |-> IF v <= n THEN r[v] ELSE e]
  <2>1. s = [v \in 1 .. n + 1 |-> s[v]]
    BY <1>9, <1>10 DEF RowsIn
  <2>2. ASSUME NEW v \in 1 .. n + 1 PROVE s[v] = IF v <= n THEN r[v] ELSE e
    <3>1. v \in 1 .. n \/ v = n + 1
      BY <1>2
    <3> QED BY <1>2, <1>11, <1>12, <3>1
  <2> QED BY <2>1, <2>2
<1>14. Stream(a, s, n + 1) /\ States(s)[n + 1] = Apply(States(r)[n], e)
  BY <1>2, <1>13, OneMoreEvent
<1>15. LastVersion(s) = n + 1
  BY <1>14, StreamRows
<1>16. ASSUME NEW b \in AccountIds PROVE Stream(b, RowsIn(Q, b), LastVersion(RowsIn(Q, b)))
  <2>1. CASE b = a
    BY <1>9, <1>14, <1>15, <2>1
  <2>2. CASE b # a
    <3>1. Of(Q, b) = Of(R, b)
      BY <1>1, <1>2, <2>2 DEF Of
    <3>2. RowsIn(Q, b) = RowsIn(R, b)
      BY <3>1 DEF RowsIn
    <3> QED BY <3>2 DEF History
  <2> QED BY <2>1, <2>2
<1>17. History(Q)
  BY <1>6, <1>16 DEF History
<1>18. Replay(EmptyAccount, s) = Apply(Replay(EmptyAccount, r), e)
  BY <1>1, <1>14, <1>15 DEF Replay, States
<1> QED BY <1>1, <1>5, <1>9, <1>15, <1>17, <1>18

\* The account that Load rebuilds.
LEMMA LoadedFrom ==
  ASSUME NEW R, History(R), NEW a \in AccountIds, AccountAssumption,
         NEW x, x = Replay(EmptyAccount, RowsIn(R, a))
  PROVE  /\ x \in AccountState /\ x.version = LastVersion(RowsIn(R, a))
         /\ x.version = 0 => x.id = NoId
         /\ x.version > 0 => x.id = a /\ x.open
<1>1. PICK r, n : r = RowsIn(R, a) /\ n = LastVersion(r)
  OBVIOUS
<1>2. Stream(a, r, n) /\ n \in Nat
  BY <1>1 DEF History, Stream
<1>3. x = States(r)[n]
  BY <1>1 DEF Replay, States
<1>4. /\ States(r)[n] \in AccountState /\ States(r)[n].version = n
      /\ n > 0 => States(r)[n].id = a /\ States(r)[n].open
  BY <1>2, StatesOfStream
<1>5. n = 0 => x = EmptyAccount
  BY <1>2, <1>3, AccumulatedIsTheLoop, EmptyAccountType, StreamRows DEF States
<1>6. n = 0 => x.id = NoId
  BY <1>5 DEF EmptyAccount
<1> QED BY <1>1, <1>3, <1>4, <1>6

\* What commands decide continues the stream.
LEMMA DecidedRow ==
  ASSUME NEW R, History(R), NEW a \in AccountIds, AccountAssumption,
         NEW x, x = Replay(EmptyAccount, RowsIn(R, a)), x.id # NoId,
         NEW type \in EventTypes \ {"account.opened"}, NEW n \in Nat,
         NEW t \in TransferIds \cup {NoId}, NEW p \in AccountIds \cup {NoId},
         NEW e, e = NewEvent(x.id, x.version + 1, type, n, t, p)
  PROVE  /\ Continues(R, a, e)
         /\ e.aggregate_id = a /\ e.type = type /\ e.amount = n /\ e.transfer_id = t
         /\ e.peer = p
<1>1. /\ x \in AccountState /\ x.version = LastVersion(RowsIn(R, a))
      /\ x.version = 0 => x.id = NoId
      /\ x.version > 0 => x.id = a
  BY LoadedFrom
<1>2. x.version \in Nat
  BY <1>1 DEF AccountState
<1>3. x.id = a /\ x.version # 0
  BY <1>1, <1>2
<1>4. e.aggregate_id = a /\ e.version = x.version + 1 /\ e.type = type /\ e.amount = n
      /\ e.transfer_id = t /\ e.peer = p /\ e \in Event
  BY <1>2, <1>3 DEF NewEvent, Event
<1> QED BY <1>1, <1>3, <1>4 DEF Continues

\* An account that has rows has been opened.
LEMMA RecordedIsOpened ==
  ASSUME NEW R, History(R), NEW f \in R, AccountAssumption,
         NEW x, x = Replay(EmptyAccount, RowsIn(R, f.aggregate_id))
  PROVE  x.id = f.aggregate_id
<1>1. f \in Event /\ f.aggregate_id \in AccountIds
  BY DEF History, Event
<1>2. PICK a, r, n : a = f.aggregate_id /\ r = RowsIn(R, a) /\ n = LastVersion(r)
  OBVIOUS
<1>3. Stream(a, r, n) /\ DOMAIN r = 1 .. n /\ n \in Nat
  BY <1>1, <1>2 DEF History, Stream
<1>4. f.version \in DOMAIN r
  <2>1. f \in Of(R, a)
    BY <1>2 DEF Of
  <2>2. DOMAIN r = {e.version : e \in Of(R, a)}
    BY <1>2 DEF RowsIn
  <2> QED BY <2>1, <2>2
<1>5. n > 0
  BY <1>3, <1>4
<1> QED BY <1>1, <1>2, <1>5, LoadedFrom

\* A log with one event more has still one debit for each transfer.
LEMMA DebitsGrow ==
  ASSUME NEW R, OneDebit(R), NEW e,
         \/ e.type \notin TransferTypes
         \/ /\ e.type = "transfer.debited" /\ e.transfer_id \in TransferIds
            /\ \A r \in R : r.transfer_id # e.transfer_id
            /\ e.peer \in AccountIds /\ e.amount > 0
         \/ e.type \in Settlements /\ e.transfer_id \in TransferIds
  PROVE  OneDebit(R \cup {e})
<1>1. "transfer.debited" \notin Settlements /\ "transfer.debited" \in TransferTypes
      /\ Settlements \subseteq TransferTypes
  BY DEF Settlements, TransferTypes
<1>2. ASSUME NEW r \in R \cup {e}
      PROVE  /\ r.type \in TransferTypes => r.transfer_id \in TransferIds
             /\ r.type = "transfer.debited" => r.peer \in AccountIds /\ r.amount > 0
  BY <1>1 DEF OneDebit
<1>3. ASSUME NEW r \in R \cup {e}, NEW s \in R \cup {e}, r.transfer_id = s.transfer_id,
             r.type = "transfer.debited" /\ s.type = "transfer.debited"
      PROVE  r = s
  BY <1>1, <1>3 DEF OneDebit
<1> QED BY <1>2, <1>3 DEF OneDebit


-----------------------------------------------------------------------------
(***************************************************************************)
(* What a boot has to catch up on                                          *)
(***************************************************************************)
\* LoadUnprocessed finds the rows that are not processed, and no others.
THEOREM UnprocessedRows ==
  ASSUME NEW S, NEW l \in Seq(S), NEW P
  PROVE  /\ LoadUnprocessed(l, P) \in Seq(S)
         /\ Range(LoadUnprocessed(l, P)) = Range(l) \ P
<1>1. LoadUnprocessed(l, P) = Without(l, P)
  BY Zenon DEF LoadUnprocessed, Without
<1> QED BY <1>1, WhatIsLeft

-----------------------------------------------------------------------------
(***************************************************************************)
(* The steps that record events                                            *)
(***************************************************************************)
\* A batch of one event and a batch of two.
LEMMA Batches ==
  ASSUME NEW S, NEW e \in S, NEW f \in S
  PROVE  /\ <<e>> \in Seq(S) /\ <<e>> # <<>> /\ Once(<<e>>) /\ Range(<<e>>) = {e}
         /\ e # f => /\ <<e, f>> \in Seq(S) /\ <<e, f>> # <<>> /\ Once(<<e, f>>)
                     /\ Range(<<e, f>>) = {e, f}
<1>1. DOMAIN <<e>> = {1} /\ <<e>>[1] = e /\ DOMAIN <<e, f>> = {1, 2}
      /\ <<e, f>>[1] = e /\ <<e, f>>[2] = f
  OBVIOUS
<1>2. Range(<<e>>) = {e} /\ Range(<<e, f>>) = {e, f}
  BY <1>1 DEF Range
<1>3. Once(<<e>>) /\ (e # f => Once(<<e, f>>))
  BY <1>1 DEF Once
<1> QED BY <1>2, <1>3

\* The batch b may be recorded.
Grows(b) ==
  LET R == Recorded \cup Range(b)
  IN  /\ b \in Seq(Event) /\ b # <<>> /\ Once(b) /\ Range(b) \cap Recorded = {}
      /\ History(R) /\ OneDebit(R)
      /\ \A e \in Range(b) :
           /\ e.type = "transfer.debited" => ~ReversedIn(R, e.transfer_id)
           /\ e.type = "transfer.credited" => ~ReversedIn(Recorded, e.transfer_id)
           /\ e.type = "transfer.reversed" =>
                \A d \in Debits \cap (handed \cup Queued \cup Carried(bus)) :
                  d.transfer_id # e.transfer_id

\* The commit of a batch, whether or not its answer arrives.
Committed(b) ==
  /\ log' = log \o b
  /\ \/ unpublished' = unpublished \cup {b} /\ missed' = missed
     \/ unpublished' = unpublished /\ missed' = missed \cup Range(b)
  /\ faults' \in 0 .. MaxFaults
  /\ UNCHANGED <<db, phase, todo, bus, known>>

\* The saga keeps debits, gives some up or is done with them.
SagaGoesOn ==
  /\ handed' \subseteq handed /\ reversing' \subseteq handed \cup reversing
  /\ handed' \cap reversing' = {}

\* A commit keeps the invariant, and credits no transfer that was reversed.
LEMMA CommitKeeps ==
  ASSUME ProjectorInv, NEW b, Grows(b), Committed(b), SagaGoesOn,
         phase \in {"serving", "stopping"}
  PROVE  ProjectorInv' /\ LogGoesOn
<1>1. PICK R, Q, B : R = Recorded /\ B = Range(b) /\ Q = R \cup B
  OBVIOUS
<1>2. /\ b \in Seq(Event) /\ b # <<>> /\ Once(b) /\ B \cap R = {}
      /\ History(Q) /\ OneDebit(Q)
      /\ \A e \in B :
           /\ e.type = "transfer.debited" => ~ReversedIn(Q, e.transfer_id)
           /\ e.type = "transfer.credited" => ~ReversedIn(R, e.transfer_id)
           /\ e.type = "transfer.reversed" =>
                \A d \in Debits \cap (handed \cup Queued \cup Carried(bus)) :
                  d.transfer_id # e.transfer_id
  BY <1>1 DEF Grows
<1>3. log' \in Seq(Event) /\ Recorded' = Q
  <2>1. log \in Seq(Event) /\ log' = log \o b
    BY DEF ProjectorInv, Committed
  <2>2. log' \in Seq(Event) /\ Range(log') = Range(log) \cup Range(b)
    BY <1>2, <2>1, Concatenated
  <2>3. Recorded = Range(log) /\ Recorded' = Range(log')
    BY DEF Recorded, Range
  <2> QED BY <1>1, <2>2, <2>3
<1>4. R \subseteq Q /\ Seq(R) \subseteq Seq(Q) /\ b \in Seq(Q)
  <2>1. R \subseteq Q
    BY <1>1
  <2>2. ASSUME NEW s \in Seq(R) PROVE s \in Seq(Q)
    BY <2>1
  <2>3. b \in Seq(Q)
    <3>1. \A i \in 1 .. Len(b) : b[i] \in B /\ Len(b) \in Nat
      BY <1>1, <1>2 DEF Range
    <3> QED BY <1>1, <1>2, <3>1
  <2> QED BY <2>1, <2>2, <2>3
<1>5. /\ \A c \in unpublished : c \in Seq(R) /\ c # <<>> /\ Once(c)
      /\ \A c, d \in unpublished : Range(c) \cap Range(d) # {} => c = d
      /\ bus \in [Partitions -> Seq(R)] /\ Sorted(bus, PartitionOf)
      /\ Queued \cap Carried(bus) = {}
      /\ handed \subseteq Debits /\ reversing \subseteq Debits /\ handed \cap reversing = {}
      /\ (handed \cup reversing) \cap (Queued \cup Carried(bus)) = {}
      /\ \A d \in Debits \cap (handed \cup Queued \cup Carried(bus)) :
           ~ReversedIn(R, d.transfer_id)
  BY <1>1 DEF ProjectorInv, Flight
<1>6. /\ unpublished' \subseteq unpublished \cup {b} /\ unpublished \subseteq unpublished'
      /\ \/ unpublished' = unpublished \cup {b} /\ missed' = missed
         \/ unpublished' = unpublished /\ missed' = missed \cup B
      /\ db' = db /\ phase' = phase /\ todo' = todo /\ bus' = bus /\ known' = known
  BY <1>1 DEF Committed
<1>7. \A c \in unpublished : Range(c) \subseteq R
  BY <1>5 DEF Range
<1>8. Carried(bus) \subseteq R
  <2>1. \A p \in Partitions : bus[p] \in Seq(R)
    BY <1>5
  <2>2. \A p \in Partitions : Range(bus[p]) \subseteq R
    BY <2>1 DEF Range
  <2> QED BY <1>5, <2>2 DEF Carried
<1>9. Queued \subseteq R /\ Queued \subseteq Queued' /\ Queued' \subseteq Queued \cup B
  BY <1>1, <1>6, <1>7 DEF Queued
<1>10. \/ Queued' = Queued \cup B /\ missed' = missed
       \/ Queued' = Queued /\ missed' = missed \cup B
  BY <1>1, <1>6 DEF Queued
<1>11. Debits' = Debits \cup {e \in B : e.type = "transfer.debited"} /\ Debits \subseteq R
  BY <1>1, <1>3 DEF Debits
<1>12. Flight'
  <2>1. \A c \in unpublished' : c \in Seq(Recorded') /\ c # <<>> /\ Once(c)
    BY <1>2, <1>3, <1>4, <1>5, <1>6
  <2>2. \A c, d \in unpublished' : Range(c) \cap Range(d) # {} => c = d
    BY <1>1, <1>2, <1>5, <1>6, <1>7
  <2>3. bus' \in [Partitions -> Seq(Recorded')] /\ Sorted(bus', PartitionOf)
    BY <1>3, <1>4, <1>5, <1>6
  <2>4. Queued' \cap Carried(bus') = {}
    BY <1>2, <1>5, <1>6, <1>8, <1>9
  <2>5. /\ handed' \subseteq Debits' /\ reversing' \subseteq Debits'
        /\ handed' \cap reversing' = {}
    BY <1>5, <1>11 DEF SagaGoesOn
  <2>6. (handed' \cup reversing') \cap (Queued' \cup Carried(bus')) = {}
    BY <1>2, <1>5, <1>6, <1>9, <1>11 DEF SagaGoesOn
  <2>7. ASSUME NEW d \in Debits' \cap (handed' \cup Queued' \cup Carried(bus'))
        PROVE  ~ReversedIn(Q, d.transfer_id)
    <3>1. CASE d \in B
      BY <1>2, <1>11, <2>7, <3>1, <1>8, <1>5
    <3>2. CASE d \notin B
      <4>1. d \in Debits \cap (handed \cup Queued \cup Carried(bus))
        BY <1>6, <1>9, <1>11, <3>2 DEF SagaGoesOn
      <4>2. ~ReversedIn(R, d.transfer_id)
        BY <1>5, <4>1
      <4> QED BY <1>1, <1>2, <4>1, <4>2 DEF ReversedIn
    <3> QED BY <3>1, <3>2
  <2>8. phase' \notin {"down", "boot"}
    BY <1>6
  <2> QED BY <1>3, <2>1, <2>2, <2>3, <2>4, <2>5, <2>6, <2>7, <2>8 DEF Flight
<1>13. Faithful(db')
  BY <1>6 DEF ProjectorInv
<1>14. Ahead'
  <2>1. todo \in Seq(R) /\ (phase = "serving" => R \ db.processed \subseteq Queued \cup Carried(bus) \cup missed)
    BY <1>1 DEF ProjectorInv, Ahead
  <2>2. todo' \in Seq(Recorded')
    BY <1>3, <1>4, <1>6, <2>1
  <2>3. phase' = "serving" =>
          Q \ db'.processed \subseteq Queued' \cup Carried(bus') \cup missed'
    BY <1>1, <1>6, <1>10, <2>1
  <2>4. phase' # "boot"
    BY <1>6
  <2> QED BY <1>3, <2>2, <2>3, <2>4 DEF Ahead
<1>15. Bounds'
  <2>1. /\ phase \in {"down", "boot", "serving", "stopping"}
        /\ db.processed \subseteq R /\ missed \subseteq R
        /\ known \subseteq {e.aggregate_id : e \in R}
    BY <1>1 DEF ProjectorInv, Bounds
  <2>2. {e.aggregate_id : e \in R} \subseteq {e.aggregate_id : e \in Q}
    BY <1>4
  <2>3. faults' \in 0 .. MaxFaults
    BY DEF Committed
  <2>4. missed' \subseteq Q
    BY <1>1, <1>6, <2>1
  <2> QED BY <1>3, <1>4, <1>6, <2>1, <2>2, <2>3, <2>4 DEF Bounds
<1>16. (log \in Seq(Event) /\ History(Recorded) /\ OneDebit(Recorded))'
  BY <1>2, <1>3
<1>17. LogGoesOn
  BY <1>1, <1>2, <1>3 DEF LogGoesOn, CreditedIn
<1> QED BY <1>12, <1>13, <1>14, <1>15, <1>16, <1>17 DEF ProjectorInv


\* A step that records nothing.
LEMMA LogStays ==
  ASSUME ProjectorInv, UNCHANGED log
  PROVE  /\ Recorded' = Recorded /\ Debits' = Debits
         /\ (log \in Seq(Event) /\ History(Recorded) /\ OneDebit(Recorded))'
         /\ LogGoesOn
<1>1. Recorded' = Recorded
  BY DEF Recorded
<1>2. Debits' = Debits
  BY <1>1 DEF Debits
<1>3. LogGoesOn
  BY <1>1 DEF LogGoesOn
<1> QED BY <1>1, <1>2, <1>3 DEF ProjectorInv

\* The saga goes on without a commit.
LEMMA NothingCommitted ==
  ASSUME ProjectorInv, Kept, SagaGoesOn, UNCHANGED <<db, phase, todo, bus, known>>,
         phase = "serving", faults' \in 0 .. MaxFaults
  PROVE  ProjectorInv' /\ LogGoesOn
<1>1. UNCHANGED <<log, unpublished, missed>>
  BY DEF Kept
<1>2. /\ Recorded' = Recorded /\ Debits' = Debits /\ LogGoesOn
      /\ (log \in Seq(Event) /\ History(Recorded) /\ OneDebit(Recorded))'
  BY <1>1, LogStays
<1>3. Queued' = Queued
  BY <1>1 DEF Queued
<1>4. Flight'
  <2>1. /\ \A b \in unpublished' : b \in Seq(Recorded') /\ b # <<>> /\ Once(b)
        /\ \A b, c \in unpublished' : Range(b) \cap Range(c) # {} => b = c
        /\ bus' \in [Partitions -> Seq(Recorded')] /\ Sorted(bus', PartitionOf)
        /\ Queued' \cap Carried(bus') = {}
    BY <1>1, <1>2, <1>3 DEF ProjectorInv, Flight
  <2>2. /\ handed' \subseteq Debits' /\ reversing' \subseteq Debits'
        /\ handed' \cap reversing' = {}
        /\ (handed' \cup reversing') \cap (Queued' \cup Carried(bus')) = {}
    BY <1>2, <1>3 DEF ProjectorInv, Flight, SagaGoesOn
  <2>3. \A d \in Debits' \cap (handed' \cup Queued' \cup Carried(bus')) :
          ~ReversedIn(Recorded', d.transfer_id)
    BY <1>2, <1>3 DEF ProjectorInv, Flight, SagaGoesOn
  <2> QED BY <2>1, <2>2, <2>3 DEF Flight
<1>5. Ahead'
  BY <1>1, <1>2, <1>3 DEF ProjectorInv, Ahead
<1>6. Faithful(db') /\ Bounds'
  BY <1>1, <1>2 DEF ProjectorInv, Bounds
<1> QED BY <1>2, <1>4, <1>5, <1>6 DEF ProjectorInv

\* What Record and AnswerLost do, in one formula.
LEMMA Commits ==
  ASSUME ProjectorInv, NEW b,
         \/ Record(b) /\ faults' \in 0 .. MaxFaults
         \/ AnswerLost(b),
         UNCHANGED <<db, phase, todo, bus, known>>
  PROVE  Committed(b)
<1>1. faults \in 0 .. MaxFaults /\ MaxFaults \in Nat
  BY ProjectorAssumption DEF ProjectorInv, Bounds
<1>2. Fault => faults' \in 0 .. MaxFaults
  BY <1>1 DEF Fault
<1> QED BY <1>1, <1>2 DEF Record, AnswerLost, Committed, Range

\* A client's command keeps the invariant.
LEMMA CommandKeeps ==
  ASSUME ProjectorInv, NEW b, Grows(b), Command(b)
  PROVE  ProjectorInv' /\ LogGoesOn
<1>1. faults \in 0 .. MaxFaults
  BY DEF ProjectorInv, Bounds
<1>2. Committed(b)
  BY <1>1, Commits DEF Command
<1>3. SagaGoesOn /\ phase \in {"serving", "stopping"}
  BY DEF Command, SagaGoesOn, ProjectorInv, Flight
<1> QED BY <1>2, <1>3, CommitKeeps

\* One event that continues its stream may be recorded if it is no transfer's, the
\* debit of a new transfer, the credit of a debit that the saga has to credit, or the
\* reversal of one that it has given up.
LEMMA OneEventGrows ==
  ASSUME ProjectorInv, NEW a \in AccountIds, NEW e, Continues(Recorded, a, e),
         \/ e.type \notin TransferTypes
         \/ /\ e.type = "transfer.debited" /\ e.transfer_id \in TransferIds
            /\ \A r \in Recorded : r.transfer_id # e.transfer_id
            /\ e.peer \in AccountIds /\ e.amount > 0
         \/ e.type = "transfer.credited" /\ \E d \in handed : e.transfer_id = d.transfer_id
         \/ e.type = "transfer.reversed" /\ \E d \in reversing : e.transfer_id = d.transfer_id
  PROVE  Grows(<<e>>)
<1>1. PICK R : R = Recorded
  OBVIOUS
<1>2. History(R) /\ OneDebit(R) /\ Flight
  BY <1>1 DEF ProjectorInv
<1>3. History(R \cup {e}) /\ e \notin R
  BY <1>1, <1>2, HistoryGrows
<1>4. /\ <<e>> \in Seq(Event) /\ <<e>> # <<>> /\ Once(<<e>>) /\ Range(<<e>>) = {e}
  BY Batches DEF Continues
<1>5. /\ {"transfer.credited", "transfer.reversed"} = Settlements
      /\ "transfer.debited" \in TransferTypes /\ Settlements \subseteq TransferTypes
  BY DEF Settlements, TransferTypes
<1>6. CASE e.type \notin TransferTypes
  <2>1. OneDebit(R \cup {e})
    BY <1>2, <1>6, DebitsGrow
  <2> QED BY <1>1, <1>3, <1>4, <1>5, <1>6, <2>1 DEF Grows
<1>7. CASE /\ e.type = "transfer.debited" /\ e.transfer_id \in TransferIds
           /\ \A r \in R : r.transfer_id # e.transfer_id
           /\ e.peer \in AccountIds /\ e.amount > 0
  <2>1. OneDebit(R \cup {e})
    BY <1>2, <1>7, DebitsGrow
  <2>2. ~ReversedIn(R \cup {e}, e.transfer_id)
    BY <1>7 DEF ReversedIn
  <2> QED BY <1>1, <1>3, <1>4, <1>7, <2>1, <2>2 DEF Grows
<1>8. CASE e.type \in Settlements /\ \E d \in handed \cup reversing : e.transfer_id = d.transfer_id
  <2>1. PICK d \in handed \cup reversing : e.transfer_id = d.transfer_id
    BY <1>8
  <2>2. d \in Debits /\ d \notin Queued \cup Carried(bus)
    BY <1>2 DEF Flight
  <2>3. d \in R /\ d.type = "transfer.debited" /\ d.transfer_id \in TransferIds
    BY <1>1, <1>2, <1>5, <2>2 DEF Debits, OneDebit
  <2>4. OneDebit(R \cup {e})
    BY <1>2, <1>8, <2>1, <2>3, DebitsGrow
  <2>5. \A c \in Debits : c.transfer_id = d.transfer_id => c = d
    BY <1>1, <1>2, <2>3 DEF Debits, OneDebit
  <2>6. e.type = "transfer.credited" => ~ReversedIn(R, e.transfer_id)
    <3>1. ASSUME e.type = "transfer.credited" PROVE \E c \in handed : e.transfer_id = c.transfer_id
      BY <1>5, <3>1
    <3> QED BY <1>1, <1>2, <3>1 DEF Flight
  <2>7. e.type = "transfer.reversed" =>
          \A c \in Debits \cap (handed \cup Queued \cup Carried(bus)) :
            c.transfer_id # e.transfer_id
    <3>1. e.type = "transfer.reversed" => d \in reversing
      BY <1>2, <1>5, <2>1, <2>5 DEF Flight
    <3>2. d \in reversing => d \notin handed
      BY <1>2 DEF Flight
    <3> QED BY <2>1, <2>2, <2>5, <3>1, <3>2
  <2> QED BY <1>1, <1>3, <1>4, <1>5, <1>8, <2>4, <2>6, <2>7 DEF Grows
<1> QED BY <1>1, <1>5, <1>6, <1>7, <1>8

\* Load rebuilds an account from its stream in the log.
LEMMA LoadIsReplay == \A a : Load(a) = Replay(EmptyAccount, RowsIn(Recorded, a))
BY DEF Load, EventsByAggregate, RowsIn, Of

\* Deposits and withdrawals.
LEMMA MutateStep ==
  ASSUME ProjectorInv, NEW a \in AccountIds, NEW n \in Amounts,
         \/ Mutate(a, Deposit(Load(a), n))
         \/ Mutate(a, Withdraw(Load(a), n))
  PROVE  ProjectorInv' /\ LogGoesOn
<1>1. PICK R, x : R = Recorded /\ x = Load(a)
  OBVIOUS
<1>2. History(R) /\ x = Replay(EmptyAccount, RowsIn(R, a)) /\ n \in Nat
  BY <1>1, LoadIsReplay, ProjectorAssumption, AccountAssumption DEF ProjectorInv
<1>3. PICK type, e :
        /\ type \in {"money.deposited", "money.withdrawn"}
        /\ e = NewEvent(x.id, x.version + 1, type, n, NoId, NoId)
        /\ x.id # NoId /\ Command(<<e>>)
  <2>1. CASE Mutate(a, Deposit(x, n))
    <3>1. PICK d : d = Deposit(x, n)
      OBVIOUS
    <3>2. d.err = "nil" /\ Command(<<d.event>>)
      BY <2>1, <3>1 DEF Mutate
    <3>3. x.id # NoId /\ d.event = NewEvent(x.id, x.version + 1, "money.deposited", n, NoId, NoId)
      BY <3>1, <3>2 DEF Deposit, guard, Refuse, Accept
    <3>4. PICK type : type = "money.deposited"
      OBVIOUS
    <3>5. /\ type \in {"money.deposited", "money.withdrawn"}
          /\ d.event = NewEvent(x.id, x.version + 1, type, n, NoId, NoId)
      BY <3>3, <3>4
    <3> QED BY <3>2, <3>3, <3>5
  <2>2. CASE Mutate(a, Withdraw(x, n))
    <3>1. PICK d : d = Withdraw(x, n)
      OBVIOUS
    <3>2. d.err = "nil" /\ Command(<<d.event>>)
      BY <2>2, <3>1 DEF Mutate
    <3>3. x.id # NoId /\ d.event = NewEvent(x.id, x.version + 1, "money.withdrawn", n, NoId, NoId)
      BY <3>1, <3>2 DEF Withdraw, guard, Refuse, Accept
    <3>4. PICK type : type = "money.withdrawn"
      OBVIOUS
    <3>5. /\ type \in {"money.deposited", "money.withdrawn"}
          /\ d.event = NewEvent(x.id, x.version + 1, type, n, NoId, NoId)
      BY <3>3, <3>4
    <3> QED BY <3>2, <3>3, <3>5
  <2> QED BY <1>1, <2>1, <2>2
<1>4. type \in EventTypes \ {"account.opened"} /\ type \notin TransferTypes
  BY <1>3 DEF EventTypes, TransferTypes, Settlements
<1>5. Continues(R, a, e) /\ e.type = type
  BY <1>2, <1>3, <1>4, AccountAssumption, DecidedRow
<1>6. Grows(<<e>>)
  BY <1>1, <1>4, <1>5, OneEventGrows
<1> QED BY <1>3, <1>6, CommandKeeps

\* The debit of a transfer.
LEMMA StartTransferStep ==
  ASSUME ProjectorInv, NEW t \in TransferIds, NEW a \in AccountIds, NEW to \in AccountIds,
         NEW n \in Amounts, StartTransfer(t, a, to, n)
  PROVE  ProjectorInv' /\ LogGoesOn
<1>1. PICK R, x, d : R = Recorded /\ x = Load(a) /\ d = DebitTransfer(x, t, to, n)
  OBVIOUS
<1>2. /\ History(R) /\ x = Replay(EmptyAccount, RowsIn(R, a)) /\ n \in Nat /\ n > 0
  BY <1>1, LoadIsReplay, ProjectorAssumption, AccountAssumption DEF ProjectorInv
<1>3. /\ d.err = "nil" /\ Command(<<d.event>>)
      /\ \A r \in R : r.transfer_id # t
  BY <1>1 DEF StartTransfer, Mutate
<1>4. PICK e : e = d.event
  OBVIOUS
<1>5. x.id # NoId /\ e = NewEvent(x.id, x.version + 1, "transfer.debited", n, t, to)
  BY <1>1, <1>3, <1>4 DEF DebitTransfer, guard, Refuse, Accept
<1>6. "transfer.debited" \in EventTypes \ {"account.opened"}
  BY DEF EventTypes
<1>7. /\ Continues(R, a, e) /\ e.type = "transfer.debited" /\ e.amount = n
      /\ e.transfer_id = t /\ e.peer = to
  BY <1>2, <1>5, <1>6, AccountAssumption, DecidedRow
<1>8. Grows(<<e>>)
  BY <1>1, <1>2, <1>3, <1>7, OneEventGrows
<1> QED BY <1>3, <1>4, <1>8, CommandKeeps


\* A debit with the saga: its transfer, its accounts and its amount.
LEMMA DebitInHand ==
  ASSUME ProjectorInv, NEW d \in handed \cup reversing
  PROVE  /\ d \in Recorded /\ d.aggregate_id \in AccountIds /\ d.peer \in AccountIds
         /\ d.transfer_id \in TransferIds /\ d.amount \in Nat /\ d.amount > 0
<1>1. d \in Recorded /\ d.type = "transfer.debited" /\ d \in Event
  BY DEF ProjectorInv, Flight, Debits, History
<1>2. d.transfer_id \in TransferIds /\ d.peer \in AccountIds /\ d.amount > 0
  BY <1>1 DEF ProjectorInv, OneDebit, TransferTypes
<1> QED BY <1>1, <1>2 DEF Event

\* A call of CreditTransfer.
LEMMA CreditStep ==
  ASSUME ProjectorInv, NEW d \in handed, Credit(d)
  PROVE  ProjectorInv' /\ LogGoesOn
<1>1. PICK R, c, x : /\ R = Recorded /\ x = Load(d.peer)
                     /\ c = CreditTransfer(x, d.transfer_id, d.aggregate_id, d.amount)
  OBVIOUS
<1>2. phase = "serving" /\ UNCHANGED <<db, phase, todo, bus, known>>
  BY DEF Credit
<1>3. faults \in 0 .. MaxFaults
  BY DEF ProjectorInv, Bounds
<1>4. (Credited(d) \/ GiveUp(d) \/ UNCHANGED <<handed, reversing>>) => SagaGoesOn
  BY DEF ProjectorInv, Flight, SagaGoesOn, Credited, GiveUp
<1>5. CASE Kept /\ UNCHANGED faults /\ (Credited(d) \/ GiveUp(d))
  BY <1>2, <1>3, <1>4, <1>5, NothingCommitted
<1>6. CASE /\ c.err = "nil" /\ SagaGoesOn
           /\ \/ Record(<<c.event>>) /\ UNCHANGED faults
              \/ AnswerLost(<<c.event>>)
  <2>1. PICK e : e = c.event
    OBVIOUS
  <2>2. /\ x.id # NoId
        /\ e = NewEvent(x.id, x.version + 1, "transfer.credited", d.amount,
                        d.transfer_id, d.aggregate_id)
    BY <1>1, <1>6, <2>1 DEF CreditTransfer, guard, Refuse, Accept
  <2>3. x = Replay(EmptyAccount, RowsIn(R, d.peer)) /\ History(R)
    BY <1>1, LoadIsReplay DEF ProjectorInv
  <2>4. "transfer.credited" \in EventTypes \ {"account.opened"}
    BY DEF EventTypes
  <2>5. /\ Continues(R, d.peer, e) /\ e.type = "transfer.credited"
        /\ e.transfer_id = d.transfer_id
    BY <2>2, <2>3, <2>4, DebitInHand, AccountAssumption, DecidedRow
  <2>6. Grows(<<e>>)
    BY <1>1, <2>5, DebitInHand, OneEventGrows
  <2>7. Committed(<<e>>)
    BY <1>2, <1>3, <1>6, <2>1, Commits
  <2> QED BY <1>2, <1>6, <2>6, <2>7, CommitKeeps
<1> QED BY <1>1, <1>4, <1>5, <1>6 DEF Credit

\* The compensation: the source exists, so a reversal is never refused.
LEMMA ReverseStep ==
  ASSUME ProjectorInv, NEW d \in reversing, Reverse(d)
  PROVE  ProjectorInv' /\ LogGoesOn
<1>1. PICK R, r, y : /\ R = Recorded /\ y = Load(d.aggregate_id)
                     /\ r = ReverseTransfer(y, d.transfer_id, d.amount)
  OBVIOUS
<1>2. /\ phase = "serving" /\ UNCHANGED <<db, phase, todo, bus, handed, known>>
      /\ reversing' = reversing \ {d}
  BY DEF Reverse
<1>3. faults \in 0 .. MaxFaults
  BY DEF ProjectorInv, Bounds
<1>4. SagaGoesOn
  BY <1>2 DEF ProjectorInv, Flight, SagaGoesOn
<1>5. CASE Kept /\ UNCHANGED faults
  BY <1>2, <1>3, <1>4, <1>5, NothingCommitted
<1>6. CASE (Record(<<r.event>>) /\ UNCHANGED faults) \/ AnswerLost(<<r.event>>)
  <2>1. PICK e : e = r.event
    OBVIOUS
  <2>2. /\ d \in R /\ d.aggregate_id \in AccountIds /\ d.transfer_id \in TransferIds
        /\ d.amount \in Nat /\ d.amount > 0
    BY <1>1, DebitInHand
  <2>3. y = Replay(EmptyAccount, RowsIn(R, d.aggregate_id)) /\ History(R)
    BY <1>1, LoadIsReplay DEF ProjectorInv
  <2>4. y.id = d.aggregate_id
    BY <2>2, <2>3, AccountAssumption, RecordedIsOpened
  <2>5. y.id # NoId
    BY <2>2, <2>4, AccountAssumption
  <2>6. e = NewEvent(y.id, y.version + 1, "transfer.reversed", d.amount,
                     d.transfer_id, NoId)
    BY <1>1, <2>1, <2>2, <2>5 DEF ReverseTransfer, Refuse, Accept
  <2>7. "transfer.reversed" \in EventTypes \ {"account.opened"}
    BY DEF EventTypes
  <2>8. /\ Continues(R, d.aggregate_id, e) /\ e.type = "transfer.reversed"
        /\ e.transfer_id = d.transfer_id
    BY <2>2, <2>3, <2>5, <2>6, <2>7, AccountAssumption, DecidedRow
  <2>9. Grows(<<e>>)
    BY <1>1, <2>2, <2>8, OneEventGrows
  <2>10. Committed(<<e>>)
    BY <1>2, <1>3, <1>6, <2>1, Commits
  <2> QED BY <1>2, <1>4, <2>9, <2>10, CommitKeeps
<1> QED BY <1>1, <1>5, <1>6 DEF Reverse

\* The database fails the saga.
LEMMA FailedStep ==
  ASSUME ProjectorInv,
         \/ \E d \in handed : CreditFails(d)
         \/ \E d \in reversing : ReverseFails(d)
  PROVE  ProjectorInv' /\ LogGoesOn
<1>1. phase = "serving" /\ Kept /\ Fault /\ UNCHANGED <<db, phase, todo, bus, known>>
  BY DEF CreditFails, ReverseFails
<1>2. faults' \in 0 .. MaxFaults
  BY <1>1, ProjectorAssumption DEF ProjectorInv, Bounds, Fault
<1>3. SagaGoesOn
  BY DEF ProjectorInv, Flight, SagaGoesOn, CreditFails, ReverseFails, GiveUp
<1> QED BY <1>1, <1>2, <1>3, NothingCommitted

\* A new account, with or without its first deposit.
LEMMA OpenStep ==
  ASSUME ProjectorInv, NEW a \in AccountIds, NEW n \in Amounts \cup {0}, Open(a, n)
  PROVE  ProjectorInv' /\ LogGoesOn
<1>1. PICK R, o, x, e : /\ R = Recorded /\ o = OpenAccount(a, TRUE).event
                        /\ x = Apply(EmptyAccount, o) /\ e = Deposit(x, n).event
  OBVIOUS
<1>2. /\ \A f \in R : f.aggregate_id # a
      /\ Command(IF n = 0 THEN <<o>> ELSE <<o, e>>)
  BY <1>1 DEF Open
<1>3. History(R) /\ OneDebit(R)
  BY <1>1 DEF ProjectorInv
<1>4. o = NewEvent(a, 1, "account.opened", 0, NoId, NoId)
  BY <1>1 DEF OpenAccount, Accept
<1>5. o \in Event /\ o.aggregate_id = a /\ o.version = 1 /\ o.type = "account.opened"
  BY <1>4 DEF NewEvent, Event, EventTypes
<1>6. LastVersion(RowsIn(R, a)) = 0
  <2>1. Of(R, a) = {}
    BY <1>2 DEF Of
  <2>2. DOMAIN RowsIn(R, a) = {}
    BY <2>1 DEF RowsIn
  <2> QED BY <2>2 DEF LastVersion
<1>7. Continues(R, a, o)
  BY <1>5, <1>6 DEF Continues
<1>8. "account.opened" \notin TransferTypes /\ "money.deposited" \notin TransferTypes
  BY DEF TransferTypes, Settlements
<1>9. CASE n = 0
  <2>1. Grows(<<o>>)
    BY <1>1, <1>5, <1>7, <1>8, OneEventGrows
  <2> QED BY <1>2, <1>9, <2>1, CommandKeeps
<1>10. CASE n # 0
  <2>1. n \in Nat /\ n > 0 /\ ~(n > MaxOperationAmount)
    BY <1>10, ProjectorAssumption, AccountAssumption
  <2>2. x.id = a /\ x.open /\ x.version = 1
    BY <1>1, <1>5 DEF Apply, EmptyAccount
  <2>3. a # NoId
    BY AccountAssumption
  <2>4. e = NewEvent(a, 2, "money.deposited", n, NoId, NoId)
    <3>1. guard(x, n) = "nil"
      BY <2>1, <2>2, <2>3 DEF guard
    <3>2. e = NewEvent(x.id, x.version + 1, "money.deposited", n, NoId, NoId)
      BY <1>1, <3>1 DEF Deposit, Accept
    <3> QED BY <2>2, <3>2
  <2>5. e \in Event /\ e.aggregate_id = a /\ e.version = 2 /\ e.type = "money.deposited"
    BY <2>1, <2>4 DEF NewEvent, Event, EventTypes
  <2>6. PICK Q : Q = R \cup {o}
    OBVIOUS
  <2>7. History(Q) /\ o \notin R /\ LastVersion(RowsIn(Q, a)) = 1
    <3>1. /\ History(R \cup {o}) /\ o \notin R
          /\ LastVersion(RowsIn(R \cup {o}, a)) = LastVersion(RowsIn(R, a)) + 1
      BY <1>3, <1>7, HistoryGrows
    <3> QED BY <1>6, <2>6, <3>1
  <2>8. Continues(Q, a, e)
    BY <2>5, <2>7 DEF Continues
  <2>9. History(Q \cup {e}) /\ e \notin Q
    BY <2>7, <2>8, HistoryGrows
  <2>10. OneDebit(Q)
    BY <1>3, <1>5, <1>8, <2>6, DebitsGrow
  <2>11. OneDebit(Q \cup {e})
    BY <1>8, <2>5, <2>10, DebitsGrow
  <2>12. PICK b : b = <<o, e>>
    OBVIOUS
  <2>13. b \in Seq(Event) /\ b # <<>> /\ Once(b) /\ Range(b) = {o, e}
    <3>1. o \in Event /\ o # e
      BY <1>5, <2>5
    <3> QED BY <2>5, <2>12, <3>1, Batches
  <2>14. R \cup Range(b) = Q \cup {e} /\ Range(b) \cap R = {}
    BY <2>6, <2>7, <2>9, <2>13
  <2>15. \A f \in Range(b) : f.type \notin TransferTypes
    BY <1>5, <1>8, <2>5, <2>13
  <2>16. Grows(b)
    BY <1>1, <2>9, <2>11, <2>13, <2>14, <2>15 DEF Grows, TransferTypes, Settlements
  <2> QED BY <1>2, <1>10, <2>12, <2>16, CommandKeeps
<1> QED BY <1>9, <1>10


-----------------------------------------------------------------------------
(***************************************************************************)
(* The steps that move events                                              *)
(***************************************************************************)
\* The empty sequence is the one of length zero.
LEMMA EmptyMeansNoLength ==
  ASSUME NEW S, NEW s \in Seq(S)
  PROVE  Len(s) \in Nat /\ (s = <<>> <=> Len(s) = 0)
<1>1. Len(s) \in Nat /\ Len(<<>>) = 0 /\ (s # <<>> => Len(s) \in Nat \ {0})
  BY EmptySeq, LenProperties
<1>2. s = <<>> => Len(s) = 0
  BY <1>1
<1>3. s # <<>> => Len(s) # 0
  BY <1>1
<1> QED BY <1>1, <1>2, <1>3

\* One turn of publish's loop.
LEMMA PublishStep ==
  ASSUME ProjectorInv, NEW b \in unpublished, Publish(b)
  PROVE  ProjectorInv'
<1>1. PICK R, e, p, U : /\ R = Recorded /\ e = Head(b) /\ p = PartitionOf[e.aggregate_id]
                        /\ U = unpublished \ {b}
  OBVIOUS
<1>2. /\ unpublished' = IF Len(b) = 1 THEN U ELSE U \cup {Tail(b)}
      /\ \/ bus' = [bus EXCEPT ![p] = Append(@, e)] /\ UNCHANGED missed
         \/ missed' = missed \cup {e} /\ UNCHANGED bus
      /\ known' = IF Len(b) = 1 THEN known \cup {e.aggregate_id} ELSE known
      /\ UNCHANGED <<log, db, phase, todo, handed, reversing, faults>>
  BY <1>1 DEF Publish
<1>3. /\ \A c \in unpublished : c \in Seq(R) /\ c # <<>> /\ Once(c)
      /\ \A c, d \in unpublished : Range(c) \cap Range(d) # {} => c = d
      /\ bus \in [Partitions -> Seq(R)] /\ Sorted(bus, PartitionOf)
      /\ Queued \cap Carried(bus) = {}
      /\ handed \subseteq Debits /\ reversing \subseteq Debits /\ handed \cap reversing = {}
      /\ (handed \cup reversing) \cap (Queued \cup Carried(bus)) = {}
      /\ \A d \in Debits \cap (handed \cup Queued \cup Carried(bus)) :
           ~ReversedIn(R, d.transfer_id)
      /\ phase \notin {"down", "boot"}
  BY <1>1 DEF ProjectorInv, Flight
<1>4. /\ Recorded' = R /\ Debits' = Debits
      /\ (log \in Seq(Event) /\ History(Recorded) /\ OneDebit(Recorded))'
  BY <1>1, <1>2, LogStays
<1>5. /\ e \in R /\ e \in Range(b) /\ Tail(b) \in Seq(R) /\ Len(Tail(b)) = Len(b) - 1
      /\ Once(Tail(b)) /\ Range(Tail(b)) = Range(b) \ {e}
  BY <1>1, <1>3, Dequeued
<1>6. Len(b) \in Nat /\ (Tail(b) = <<>> <=> Len(b) = 1)
  <2>1. PICK t : t = Tail(b) /\ t \in Seq(R) /\ Len(t) = Len(b) - 1
    BY <1>5
  <2>2. b \in Seq(R)
    BY <1>3
  <2>3. Len(t) \in Nat /\ Len(b) \in Nat /\ (t = <<>> <=> Len(t) = 0)
    BY <2>1, <2>2, EmptyMeansNoLength
  <2>4. Len(t) = 0 <=> Len(b) = 1
    BY <2>1, <2>3
  <2> QED BY <2>1, <2>3, <2>4
<1>7. Len(b) = 1 => Range(b) \ {e} = {}
  BY <1>5, <1>6, NothingQueued
<1>8. \A c \in U : c \in unpublished /\ Range(c) \cap Range(b) = {}
  BY <1>1, <1>3
<1>9. Queued = Range(b) \cup UNION {Range(c) : c \in U}
  BY <1>1 DEF Queued
<1>10. Queued' = (Range(b) \ {e}) \cup UNION {Range(c) : c \in U}
  <2>1. Queued' = UNION {Range(c) : c \in unpublished'}
    BY DEF Queued
  <2>2. CASE Len(b) = 1
    BY <1>2, <1>7, <2>1, <2>2
  <2>3. CASE Len(b) # 1
    BY <1>2, <1>5, <2>1, <2>3
  <2> QED BY <2>2, <2>3
<1>11. Queued' = Queued \ {e} /\ e \in Queued
  BY <1>5, <1>8, <1>9, <1>10
<1>12. /\ bus' \in [Partitions -> Seq(R)] /\ Sorted(bus', PartitionOf)
       /\ \/ Carried(bus') = Carried(bus) \cup {e} /\ missed' = missed
          \/ Carried(bus') = Carried(bus) /\ missed' = missed \cup {e}
  <2>1. CASE bus' = [bus EXCEPT ![p] = Append(@, e)] /\ missed' = missed
    <3>1. e.aggregate_id \in AccountIds
      BY <1>1, <1>5 DEF ProjectorInv, History, Event
    <3>2. p \in Partitions /\ p = Home(PartitionOf, e)
      BY <1>1, <3>1, ProjectorAssumption DEF Home
    <3>3. bus' = Post(bus, p, e)
      BY <2>1 DEF Post
    <3>4. e \notin Carried(bus)
      BY <1>3, <1>11
    <3>5. /\ bus' \in [Partitions -> Seq(R)] /\ Sorted(bus', PartitionOf)
          /\ Carried(bus') = Carried(bus) \cup {e}
      BY <1>3, <1>5, <3>2, <3>3, <3>4, Posted
    <3> QED BY <2>1, <3>5
  <2>2. CASE missed' = missed \cup {e} /\ bus' = bus
    BY <1>3, <2>2
  <2> QED BY <1>2, <2>1, <2>2
<1>13. Flight'
  <2>1. \A c \in unpublished' : c \in Seq(Recorded') /\ c # <<>> /\ Once(c)
    BY <1>2, <1>3, <1>4, <1>5, <1>6, <1>8
  <2>2. \A c, d \in unpublished' : Range(c) \cap Range(d) # {} => c = d
    BY <1>2, <1>3, <1>5, <1>8
  <2>3. Queued' \cap Carried(bus') = {}
    BY <1>3, <1>11, <1>12
  <2>4. /\ handed' \subseteq Debits' /\ reversing' \subseteq Debits'
        /\ handed' \cap reversing' = {}
        /\ (handed' \cup reversing') \cap (Queued' \cup Carried(bus')) = {}
    BY <1>2, <1>3, <1>4, <1>11, <1>12
  <2>5. \A d \in Debits' \cap (handed' \cup Queued' \cup Carried(bus')) :
          ~ReversedIn(Recorded', d.transfer_id)
    BY <1>2, <1>3, <1>4, <1>11, <1>12
  <2>6. phase' \notin {"down", "boot"}
    BY <1>2, <1>3
  <2> QED BY <1>4, <1>12, <2>1, <2>2, <2>3, <2>4, <2>5, <2>6 DEF Flight
<1>14. Faithful(db')
  BY <1>2 DEF ProjectorInv
<1>15. Ahead'
  <2>1. /\ todo \in Seq(R)
        /\ phase = "serving" => R \ db.processed \subseteq Queued \cup Carried(bus) \cup missed
    BY <1>1 DEF ProjectorInv, Ahead
  <2>2. phase' = "serving" =>
          Recorded' \ db'.processed \subseteq Queued' \cup Carried(bus') \cup missed'
    BY <1>2, <1>4, <1>11, <1>12, <2>1
  <2> QED BY <1>2, <1>3, <1>4, <2>1, <2>2 DEF Ahead
<1>16. Bounds'
  <2>1. /\ phase \in {"down", "boot", "serving", "stopping"}
        /\ db.processed \subseteq R /\ missed \subseteq R /\ faults \in 0 .. MaxFaults
        /\ known \subseteq {f.aggregate_id : f \in R}
    BY <1>1 DEF ProjectorInv, Bounds
  <2>2. missed' \subseteq R /\ known' \subseteq {f.aggregate_id : f \in R}
    BY <1>2, <1>5, <2>1
  <2> QED BY <1>2, <1>4, <2>1, <2>2 DEF Bounds
<1> QED BY <1>4, <1>13, <1>14, <1>15, <1>16 DEF ProjectorInv

\* A delivery: the projector's transaction, then the saga.
LEMMA DeliverStep ==
  ASSUME ProjectorInv, NEW p \in Partitions, Deliver(p)
  PROVE  ProjectorInv'
<1>1. PICK R, e : R = Recorded /\ e = Head(bus[p])
  OBVIOUS
<1>2. /\ bus[p] # <<>> /\ bus' = [bus EXCEPT ![p] = Tail(@)] /\ Handle(e)
      /\ handed' = IF phase = "serving" /\ e.type = "transfer.debited"
                   THEN handed \cup {e} ELSE handed
      /\ UNCHANGED <<log, phase, todo, unpublished, reversing, known>>
  BY <1>1 DEF Deliver
<1>3. /\ \A c \in unpublished : c \in Seq(R) /\ c # <<>> /\ Once(c)
      /\ \A c, d \in unpublished : Range(c) \cap Range(d) # {} => c = d
      /\ bus \in [Partitions -> Seq(R)] /\ Sorted(bus, PartitionOf)
      /\ Queued \cap Carried(bus) = {}
      /\ handed \subseteq Debits /\ reversing \subseteq Debits /\ handed \cap reversing = {}
      /\ (handed \cup reversing) \cap (Queued \cup Carried(bus)) = {}
      /\ \A d \in Debits \cap (handed \cup Queued \cup Carried(bus)) :
           ~ReversedIn(R, d.transfer_id)
      /\ phase \in {"down", "boot"} => Carried(bus) = {}
  BY <1>1 DEF ProjectorInv, Flight
<1>4. /\ Recorded' = R /\ Debits' = Debits
      /\ (log \in Seq(Event) /\ History(Recorded) /\ OneDebit(Recorded))'
  BY <1>1, <1>2, LogStays
<1>5. /\ bus' \in [Partitions -> Seq(R)] /\ Sorted(bus', PartitionOf)
      /\ e \in R /\ e \in Carried(bus) /\ Carried(bus') = Carried(bus) \ {e}
  <2>1. bus' = Collect(bus, p)
    BY <1>2 DEF Collect
  <2>2. bus \in [Partitions -> Seq(R)] /\ Sorted(bus, PartitionOf) /\ bus[p] # <<>>
    BY <1>2, <1>3
  <2>3. /\ bus' \in [Partitions -> Seq(R)] /\ Sorted(bus', PartitionOf)
        /\ Head(bus[p]) \in R /\ Head(bus[p]) \in Carried(bus)
        /\ Carried(bus') = Carried(bus) \ {Head(bus[p])}
    BY <2>1, <2>2, Collected
  <2> QED BY <1>1, <2>3
<1>6. phase \notin {"down", "boot"} /\ phase' = phase
  BY <1>2, <1>3, <1>5
<1>7. Queued' = Queued /\ unpublished' = unpublished
  BY <1>2 DEF Queued
<1>8. e \in Event /\ (e.type = "transfer.debited" => e \in Debits)
  BY <1>1, <1>5 DEF ProjectorInv, History, Debits
<1>9. Flight'
  <2>1. Queued' \cap Carried(bus') = {}
    BY <1>3, <1>5, <1>7
  <2>2. /\ handed' \subseteq Debits' /\ reversing' \subseteq Debits'
        /\ handed' \cap reversing' = {}
        /\ (handed' \cup reversing') \cap (Queued' \cup Carried(bus')) = {}
    BY <1>2, <1>3, <1>4, <1>5, <1>7, <1>8
  <2>3. \A d \in Debits' \cap (handed' \cup Queued' \cup Carried(bus')) :
          ~ReversedIn(Recorded', d.transfer_id)
    BY <1>2, <1>3, <1>4, <1>5, <1>7
  <2> QED BY <1>3, <1>4, <1>5, <1>6, <1>7, <2>1, <2>2, <2>3 DEF Flight
<1>10. /\ Faithful(db') /\ db.processed \subseteq db'.processed
       /\ db'.processed \subseteq db.processed \cup {e}
       /\ missed \subseteq missed' /\ missed' \subseteq missed \cup {e}
       /\ e \in db'.processed \cup missed'
       /\ faults' \in 0 .. MaxFaults
  <2>1. faults \in 0 .. MaxFaults /\ (Fault => faults' \in 0 .. MaxFaults)
    BY ProjectorAssumption DEF ProjectorInv, Bounds, Fault
  <2>2. Faithful(db)
    BY DEF ProjectorInv
  <2>3. CASE /\ db' = ApplyTx(db, e)
             /\ missed' = IF e \in db'.processed THEN missed ELSE missed \cup {e}
             /\ UNCHANGED faults
    BY <1>8, <2>1, <2>2, <2>3, TransactionIsFaithful
  <2>4. CASE missed' = missed \cup {e} /\ UNCHANGED db /\ (UNCHANGED faults \/ Fault)
    BY <2>1, <2>2, <2>4
  <2> QED BY <1>2, <2>3, <2>4 DEF Handle
<1>11. Ahead'
  <2>1. /\ todo \in Seq(R)
        /\ phase = "serving" => R \ db.processed \subseteq Queued \cup Carried(bus) \cup missed
    BY <1>1 DEF ProjectorInv, Ahead
  <2>2. phase' = "serving" =>
          Recorded' \ db'.processed \subseteq Queued' \cup Carried(bus') \cup missed'
    BY <1>4, <1>5, <1>6, <1>7, <1>10, <2>1
  <2> QED BY <1>2, <1>4, <1>6, <2>1, <2>2 DEF Ahead
<1>12. Bounds'
  <2>1. /\ phase \in {"down", "boot", "serving", "stopping"}
        /\ db.processed \subseteq R /\ missed \subseteq R
        /\ known \subseteq {f.aggregate_id : f \in R}
    BY <1>1 DEF ProjectorInv, Bounds
  <2>2. missed' \subseteq R /\ db'.processed \subseteq R
    BY <1>5, <1>10, <2>1
  <2> QED BY <1>2, <1>4, <1>10, <2>1, <2>2 DEF Bounds
<1> QED BY <1>4, <1>9, <1>10, <1>11, <1>12 DEF ProjectorInv


-----------------------------------------------------------------------------
(***************************************************************************)
(* Crash, boot and shutdown                                                *)
(***************************************************************************)
\* The process ends: only the database is left.
LEMMA DieStep ==
  ASSUME ProjectorInv, Die, faults' \in 0 .. MaxFaults, UNCHANGED known
  PROVE  ProjectorInv'
<1>1. /\ phase' = "down" /\ todo' = <<>> /\ unpublished' = {} /\ bus' = EmptyBus
      /\ handed' = {} /\ reversing' = {} /\ missed' = {}
      /\ log' = log /\ db' = db /\ known' = known
  BY DEF Die
<1>2. /\ Recorded' = Recorded /\ Debits' = Debits
      /\ (log \in Seq(Event) /\ History(Recorded) /\ OneDebit(Recorded))'
  BY <1>1, LogStays
<1>3. Queued' = {}
  BY <1>1 DEF Queued
<1>4. bus' \in [Partitions -> {<<>>}]
  BY <1>1 DEF EmptyBus
<1>5. /\ bus' \in [Partitions -> Seq(Recorded)] /\ Sorted(bus', PartitionOf)
      /\ Carried(bus') = {}
  BY <1>4, NothingInside
<1>6. Flight'
  BY <1>1, <1>2, <1>3, <1>5 DEF Flight
<1>7. Faithful(db') /\ db'.processed \subseteq Recorded'
  BY <1>1, <1>2 DEF ProjectorInv, Bounds
<1>8. Ahead'
  BY <1>1, <1>2, NothingQueued DEF Ahead
<1>9. Bounds'
  BY <1>1, <1>2, <1>7 DEF ProjectorInv, Bounds
<1> QED BY <1>2, <1>6, <1>7, <1>8, <1>9 DEF ProjectorInv

\* The boot reads what is not projected.
LEMMA BootStep ==
  ASSUME ProjectorInv, Boot
  PROVE  ProjectorInv'
<1>1. /\ phase = "down" /\ phase' = "boot" /\ todo' = LoadUnprocessed(log, db.processed)
      /\ UNCHANGED <<log, db, unpublished, bus, handed, reversing, missed, faults, known>>
  BY DEF Boot
<1>2. /\ Recorded' = Recorded /\ Debits' = Debits
      /\ (log \in Seq(Event) /\ History(Recorded) /\ OneDebit(Recorded))'
  BY <1>1, LogStays
<1>3. Queued' = Queued
  BY <1>1 DEF Queued
<1>4. Flight'
  BY <1>1, <1>2, <1>3 DEF ProjectorInv, Flight
<1>5. Recorded = Range(log) /\ log \in Seq(Recorded)
  <2>1. Recorded = Range(log) /\ log \in Seq(Event)
    BY DEF ProjectorInv, Recorded, Range
  <2>2. Len(log) \in Nat /\ log \in [1 .. Len(log) -> Event] /\ DOMAIN log = 1 .. Len(log)
    BY <2>1, LenProperties
  <2>3. \A i \in 1 .. Len(log) : log[i] \in Recorded
    BY <2>1, <2>2 DEF Range
  <2> QED BY <2>1, <2>2, <2>3
<1>6. todo' \in Seq(Recorded) /\ Range(todo') = Recorded \ db.processed
  BY <1>1, <1>5, UnprocessedRows
<1>7. Ahead'
  BY <1>1, <1>2, <1>6 DEF Ahead
<1>8. Faithful(db') /\ Bounds'
  BY <1>1, <1>2 DEF ProjectorInv, Bounds
<1> QED BY <1>2, <1>4, <1>7, <1>8 DEF ProjectorInv

\* The first of a sequence and the others.
LEMMA FirstAndOthers ==
  ASSUME NEW S, NEW s \in Seq(S), s # <<>>
  PROVE  Head(s) \in S /\ Tail(s) \in Seq(S) /\ Range(s) \subseteq Range(Tail(s)) \cup {Head(s)}
<1>1. Len(s) \in Nat /\ Len(s) # 0 /\ DOMAIN s = 1 .. Len(s) /\ s[1] \in S /\ Head(s) = s[1]
  BY EmptySeq, LenProperties
<1> DEFINE t == Tail(s)
<1>2. t \in Seq(S) /\ DOMAIN t = 1 .. Len(s) - 1 /\ \A i \in 1 .. Len(s) - 1 : t[i] = s[i + 1]
  BY <1>1
<1> HIDE DEF t
<1>3. \A i \in 1 .. Len(s) : i = 1 \/ (i - 1 \in DOMAIN t /\ t[i - 1] = s[i])
  BY <1>1, <1>2
<1>4. Range(s) \subseteq Range(t) \cup {Head(s)}
  BY <1>1, <1>3 DEF Range
<1> QED BY <1>1, <1>2, <1>4 DEF t

\* One turn of CatchUp's loop.
LEMMA CatchUpStep ==
  ASSUME ProjectorInv, CatchUp
  PROVE  ProjectorInv'
<1>1. PICK e : e = Head(todo)
  OBVIOUS
<1>2. /\ phase = "boot" /\ todo # <<>> /\ db' = ApplyTx(db, e) /\ e \in db'.processed
      /\ todo' = Tail(todo) /\ phase' = phase
      /\ UNCHANGED <<log, unpublished, bus, handed, reversing, missed, faults, known>>
  BY <1>1 DEF CatchUp
<1>3. /\ Recorded' = Recorded /\ Debits' = Debits
      /\ (log \in Seq(Event) /\ History(Recorded) /\ OneDebit(Recorded))'
  BY <1>2, LogStays
<1>4. Queued' = Queued
  BY <1>2 DEF Queued
<1>5. Flight'
  BY <1>2, <1>3, <1>4 DEF ProjectorInv, Flight
<1>6. /\ todo \in Seq(Recorded) /\ Recorded \ db.processed \subseteq Range(todo)
      /\ Recorded \subseteq Event /\ Faithful(db) /\ db.processed \subseteq Recorded
  BY <1>2 DEF ProjectorInv, Ahead, History, Bounds
<1>7. /\ e \in Recorded /\ todo' \in Seq(Recorded)
      /\ Range(todo) \subseteq Range(todo') \cup {e}
  BY <1>1, <1>2, <1>6, FirstAndOthers
<1>8. /\ Faithful(db') /\ db.processed \subseteq db'.processed
      /\ db'.processed \subseteq db.processed \cup {e}
  BY <1>2, <1>6, <1>7, TransactionIsFaithful
<1>9. Ahead'
  BY <1>2, <1>3, <1>6, <1>7, <1>8 DEF Ahead
<1>10. Bounds'
  BY <1>2, <1>3, <1>6, <1>7, <1>8 DEF ProjectorInv, Bounds
<1> QED BY <1>3, <1>5, <1>8, <1>9, <1>10 DEF ProjectorInv

\* The rows of the table are the events of the log.
LEMMA AllRowsRecorded ==
  ASSUME ProjectorInv
  PROVE  AllRows(Table) = Recorded
<1> DEFINE table == Table
<1>1. PICK R : R = Recorded
  OBVIOUS
<1>2. History(R)
  BY <1>1 DEF ProjectorInv
<1>3. \A a \in AccountIds : table[a] = RowsIn(R, a)
  <2>1. \A a : EventsByAggregate(a) = RowsIn(Recorded, a)
    BY DEF EventsByAggregate, RowsIn, Of
  <2> QED BY <1>1, <2>1 DEF Table
<1> HIDE DEF table
<1>4. ASSUME NEW a \in AccountIds
      PROVE  /\ DOMAIN RowsIn(R, a) = {e.version : e \in Of(R, a)}
             /\ \A e \in Of(R, a) : RowsIn(R, a)[e.version] = e
  BY <1>2, RowOfEvent DEF History
<1>5. ASSUME NEW a \in AccountIds, NEW v \in DOMAIN table[a] PROVE table[a][v] \in R
  <2>1. PICK e \in Of(R, a) : e.version = v
    <3>1. DOMAIN table[a] = {e.version : e \in Of(R, a)}
      BY <1>3, <1>4
    <3>2. v \in {e.version : e \in Of(R, a)}
      BY <3>1
    <3> QED BY <3>2
  <2>2. table[a][v] = e
    BY <1>3, <1>4, <2>1
  <2> QED BY <2>2 DEF Of
<1>6. ASSUME NEW e \in R
      PROVE  \E a \in AccountIds : e \in {table[a][v] : v \in DOMAIN table[a]}
  <2>1. PICK a : a = e.aggregate_id
    OBVIOUS
  <2>2. a \in AccountIds /\ e \in Of(R, a)
    BY <1>2, <2>1 DEF History, Event, Of
  <2>3. e.version \in DOMAIN table[a] /\ table[a][e.version] = e
    BY <1>3, <1>4, <2>2
  <2> QED BY <2>2, <2>3
<1>7. AllRows(table) = R
  BY <1>5, <1>6 DEF AllRows
<1> QED BY <1>1, <1>7 DEF table

\* The service opens: the saga takes what is pending.
LEMMA ServeStep ==
  ASSUME ProjectorInv, Serve
  PROVE  ProjectorInv'
<1>1. PICK table : table = Table
  OBVIOUS
<1>2. /\ phase = "boot" /\ todo = <<>> /\ phase' = "serving"
      /\ handed' = PendingTransferDebits(table)
      /\ UNCHANGED <<log, db, todo, unpublished, bus, reversing, missed, faults, known>>
  BY <1>1 DEF Serve
<1>3. /\ Recorded' = Recorded /\ Debits' = Debits
      /\ (log \in Seq(Event) /\ History(Recorded) /\ OneDebit(Recorded))'
  BY <1>2, LogStays
<1>4. AllRows(table) = Recorded
  BY <1>1, AllRowsRecorded
<1>5. /\ handed' \subseteq Debits
      /\ \A d \in handed' : ~ReversedIn(Recorded, d.transfer_id)
  <2>1. ASSUME NEW d \in handed'
        PROVE  /\ d \in Recorded /\ d.type = "transfer.debited"
               /\ ~HasTransferEvent(table, "transfer.credited", d.transfer_id)
               /\ ~HasTransferEvent(table, "transfer.reversed", d.transfer_id)
    BY <1>2, <1>4 DEF PendingTransferDebits
  <2> QED BY <1>4, <2>1 DEF HasTransferEvent, ReversedIn, Debits
<1>6. /\ Flight /\ unpublished = {} /\ Carried(bus) = {} /\ reversing = {}
  BY <1>2 DEF ProjectorInv, Flight
<1>7. Queued = {} /\ Queued' = {}
  BY <1>2, <1>6 DEF Queued
<1>8. Flight'
  <2>1. (handed' \cup reversing') \cap (Queued' \cup Carried(bus')) = {}
    BY <1>2, <1>6, <1>7
  <2>2. \A d \in Debits' \cap (handed' \cup Queued' \cup Carried(bus')) :
          ~ReversedIn(Recorded', d.transfer_id)
    BY <1>2, <1>3, <1>5, <1>6, <1>7
  <2>3. phase' \notin {"down", "boot"}
    BY <1>2
  <2>4. /\ Queued' \cap Carried(bus') = {} /\ handed' \subseteq Debits'
        /\ reversing' \subseteq Debits' /\ handed' \cap reversing' = {}
    BY <1>2, <1>3, <1>5, <1>6, <1>7
  <2>5. /\ \A b \in unpublished' : b \in Seq(Recorded') /\ b # <<>> /\ Once(b)
        /\ \A b, c \in unpublished' : Range(b) \cap Range(c) # {} => b = c
        /\ bus' \in [Partitions -> Seq(Recorded')] /\ Sorted(bus', PartitionOf)
    BY <1>2, <1>3, <1>6 DEF Flight
  <2> QED BY <2>1, <2>2, <2>3, <2>4, <2>5 DEF Flight
<1>9. Ahead'
  <2>1. todo \in Seq(Recorded) /\ Recorded \ db.processed \subseteq Range(<<>>)
    BY <1>2 DEF ProjectorInv, Ahead
  <2>2. Recorded \ db.processed = {}
    BY <2>1, NothingQueued
  <2> QED BY <1>2, <1>3, <2>1, <2>2 DEF Ahead
<1>10. Faithful(db') /\ Bounds'
  BY <1>2, <1>3 DEF ProjectorInv, Bounds
<1> QED BY <1>3, <1>8, <1>9, <1>10 DEF ProjectorInv

\* The signal.
LEMMA ShutdownStep ==
  ASSUME ProjectorInv, Shutdown
  PROVE  ProjectorInv'
<1>1. /\ phase = "serving" /\ phase' = "stopping" /\ Fault
      /\ UNCHANGED <<log, db, todo, unpublished, bus, handed, reversing, missed, known>>
  BY DEF Shutdown, volatile
<1>2. /\ Recorded' = Recorded /\ Debits' = Debits
      /\ (log \in Seq(Event) /\ History(Recorded) /\ OneDebit(Recorded))'
  BY <1>1, LogStays
<1>3. Queued' = Queued
  BY <1>1 DEF Queued
<1>4. Flight'
  BY <1>1, <1>2, <1>3 DEF ProjectorInv, Flight
<1>5. Ahead'
  BY <1>1, <1>2 DEF ProjectorInv, Ahead
<1>6. faults' \in 0 .. MaxFaults
  BY <1>1, ProjectorAssumption DEF ProjectorInv, Bounds, Fault
<1>7. Faithful(db') /\ Bounds'
  BY <1>1, <1>2, <1>6 DEF ProjectorInv, Bounds
<1> QED BY <1>2, <1>4, <1>5, <1>7 DEF ProjectorInv

\* A step of nothing.
LEMMA IdleStep ==
  ASSUME ProjectorInv, UNCHANGED vars
  PROVE  ProjectorInv'
<1>1. UNCHANGED <<log, db, phase, todo, unpublished, bus, handed, reversing, missed, faults,
                  known>>
  BY DEF vars, volatile
<1>2. /\ Recorded' = Recorded /\ Debits' = Debits
      /\ (log \in Seq(Event) /\ History(Recorded) /\ OneDebit(Recorded))'
  BY <1>1, LogStays
<1>3. Queued' = Queued
  BY <1>1 DEF Queued
<1>4. Flight'
  BY <1>1, <1>2, <1>3 DEF ProjectorInv, Flight
<1>5. Ahead'
  BY <1>1, <1>2, <1>3 DEF ProjectorInv, Ahead
<1>6. Faithful(db') /\ Bounds'
  BY <1>1, <1>2 DEF ProjectorInv, Bounds
<1> QED BY <1>2, <1>4, <1>5, <1>6 DEF ProjectorInv

\* Init and each step keep the invariant.
LEMMA ProjectorStart ==
  ASSUME Init
  PROVE  ProjectorInv
<1>1. /\ log = <<>> /\ db = EmptyTables /\ phase = "serving" /\ todo = <<>>
      /\ unpublished = {} /\ bus = EmptyBus /\ handed = {} /\ reversing = {}
      /\ missed = {} /\ faults = 0 /\ known = {}
  BY DEF Init
<1>2. Recorded = {} /\ log \in Seq(Event) /\ Queued = {} /\ Debits = {}
  BY <1>1 DEF Recorded, Queued, Debits
<1>3. bus \in [Partitions -> {<<>>}]
  BY <1>1 DEF EmptyBus
<1>4. /\ bus \in [Partitions -> Seq(Recorded)] /\ Sorted(bus, PartitionOf)
      /\ Carried(bus) = {}
  BY <1>3, NothingInside
<1>5. History({}) /\ OneDebit({})
  <2>1. ASSUME NEW a \in AccountIds PROVE Stream(a, RowsIn({}, a), LastVersion(RowsIn({}, a)))
    <3>1. DOMAIN RowsIn({}, a) = {}
      BY DEF RowsIn, Of
    <3>2. LastVersion(RowsIn({}, a)) = 0
      BY <3>1 DEF LastVersion
    <3> QED BY <3>1, <3>2 DEF Stream
  <2> QED BY <2>1 DEF History, OneDebit
<1>6. Flight
  BY <1>1, <1>2, <1>4 DEF Flight
<1>7. Faithful(db) /\ db.processed = {}
  BY <1>1, NothingProcessed
<1>8. Ahead /\ Bounds
  BY <1>1, <1>2, <1>7, ProjectorAssumption DEF Ahead, Bounds
<1> QED BY <1>2, <1>5, <1>6, <1>7, <1>8 DEF ProjectorInv

\* Every step keeps the invariant, and credits no transfer that was reversed.
LEMMA ProjectorStep ==
  ASSUME ProjectorInv, [Next]_vars
  PROVE  ProjectorInv' /\ LogGoesOn
<1>1. faults \in 0 .. MaxFaults /\ (Fault => faults' \in 0 .. MaxFaults)
  BY ProjectorAssumption DEF ProjectorInv, Bounds, Fault
<1>2. CASE Service
  <2>1. CASE Request
    BY <2>1, PublishStep, LogStays DEF Request, Publish
  <2>2. CASE Saga
    BY <2>2, CreditStep, ReverseStep, FailedStep DEF Saga
  <2>3. CASE Boot
    BY <2>3, BootStep, LogStays DEF Boot
  <2>4. CASE CatchUp
    BY <2>4, CatchUpStep, LogStays DEF CatchUp
  <2>5. CASE CatchUpFails
    BY <1>1, <2>5, DieStep, LogStays DEF CatchUpFails, Die
  <2>6. CASE Serve
    BY <2>6, ServeStep, LogStays DEF Serve
  <2>7. CASE Exit
    BY <1>1, <2>7, DieStep, LogStays DEF Exit, Die
  <2>8. CASE \E p \in Partitions : Deliver(p)
    BY <2>8, DeliverStep, LogStays DEF Deliver
  <2> QED BY <1>2, <2>1, <2>2, <2>3, <2>4, <2>5, <2>6, <2>7, <2>8 DEF Service, Startup
<1>3. CASE Client
  <2>1. PICK a \in AccountIds, n \in Amounts :
          \/ Open(a, n) \/ Open(a, 0)
          \/ Mutate(a, Deposit(Load(a), n))
          \/ Mutate(a, Withdraw(Load(a), n))
          \/ \E t \in TransferIds, to \in AccountIds : StartTransfer(t, a, to, n)
    BY <1>3 DEF Client
  <2>2. CASE Open(a, n) \/ Open(a, 0)
    BY <2>2, OpenStep
  <2>3. CASE Mutate(a, Deposit(Load(a), n)) \/ Mutate(a, Withdraw(Load(a), n))
    BY <2>3, MutateStep
  <2>4. CASE \E t \in TransferIds, to \in AccountIds : StartTransfer(t, a, to, n)
    BY <2>4, StartTransferStep
  <2> QED BY <2>1, <2>2, <2>3, <2>4
<1>4. CASE Crash
  BY <1>1, <1>4, DieStep, LogStays DEF Crash, Die
<1>5. CASE Shutdown
  BY <1>5, ShutdownStep, LogStays DEF Shutdown
<1>6. CASE UNCHANGED vars
  BY <1>6, IdleStep, LogStays DEF vars
<1> QED BY <1>2, <1>3, <1>4, <1>5, <1>6 DEF Next

\* The invariant of the service around the projector: the log is streams and debits a
\* transfer once; an event on its way is in one place, and the saga never holds a
\* debit to credit that was reversed; the tables tell exactly what was processed.
THEOREM ProjectorInvariant == Spec => []ProjectorInv
<1>1. Init => ProjectorInv
  BY ProjectorStart
<1>2. ProjectorInv /\ [Next]_vars => ProjectorInv'
  BY ProjectorStep
<1> QED BY <1>1, <1>2, PTL DEF Spec


-----------------------------------------------------------------------------
(***************************************************************************)
(* What follows                                                            *)
(***************************************************************************)
\* Only recorded events are anywhere, balances are integers and transfers have a
\* status, in every state of the service.
THEOREM ProjectorTypeOK == Spec => []TypeOK
<1>1. ProjectorInv => TypeOK
  <2> SUFFICES ASSUME ProjectorInv PROVE TypeOK
    OBVIOUS
  <2>1. /\ Recorded \subseteq Event /\ Faithful(db) /\ db.processed \subseteq Recorded
        /\ missed \subseteq Recorded /\ phase \in {"down", "boot", "serving", "stopping"}
        /\ todo \in Seq(Recorded) /\ faults \in 0 .. MaxFaults
        /\ handed \subseteq Recorded /\ reversing \subseteq Recorded
        /\ known \subseteq {e.aggregate_id : e \in Recorded}
        /\ \A b \in unpublished : b \in Seq(Recorded) /\ b # <<>>
        /\ \A p \in Partitions : bus[p] \in Seq(Recorded)
    BY DEF ProjectorInv, History, Bounds, Ahead, Flight, Debits
  <2>2. PICK P : P = db.processed /\ P \subseteq Event /\ IsFiniteSet(P)
    BY <2>1 DEF Faithful
  <2>3. DOMAIN db.balances \subseteq AccountIds
    BY <2>1, <2>2 DEF Faithful, Event
  <2>4. ASSUME NEW a \in DOMAIN db.balances PROVE db.balances[a] \in Int
    <3>1. IsFiniteSet(Of(P, a)) /\ Integral(Change, Of(P, a))
      BY <2>2, FS_Subset, Counted DEF Of, Integral
    <3>2. Total(Change, Of(P, a)) \in Int
      BY <3>1, TotalType
    <3> QED BY <2>1, <2>2, <3>2 DEF Faithful
  <2>5. db.transfers \in [TransferIds -> {"none", "pending", "completed", "reversed"}]
    BY <2>1 DEF Faithful
  <2> QED BY <2>1, <2>3, <2>4, <2>5 DEF TypeOK
<1> QED BY <1>1, ProjectorInvariant, PTL

\* GET balance is the sum of the account's projected events and of its statement, in
\* whatever order and in whatever life events were projected.
THEOREM ReadModelsTellTheLog == Spec => []ReadModelsFaithful
<1>1. ProjectorInv => ReadModelsFaithful
  <2> SUFFICES ASSUME ProjectorInv, NEW a \in AccountIds
               PROVE  /\ Balance(db, a).balance = Total(Change, Of(db.processed, a))
                      /\ Balance(db, a).balance = Total(Entered, Entries(db, a))
                      /\ Balance(db, a).err = "nil" <=> Of(db.processed, a) # {}
    BY DEF ReadModelsFaithful, Total, Entries
  <2>1. Faithful(db)
    BY DEF ProjectorInv
  <2>2. Total(Entered, Entries(db, a)) = Total(Change, Of(db.processed, a))
    BY <2>1 DEF Faithful
  <2>3. CASE a \in DOMAIN db.balances
    <3>1. Balance(db, a).err = "nil" /\ Balance(db, a).balance = db.balances[a]
      BY <2>3 DEF Balance
    <3>2. db.balances[a] = Total(Change, Of(db.processed, a)) /\ Of(db.processed, a) # {}
      BY <2>1, <2>3 DEF Faithful, Of
    <3> QED BY <2>2, <3>1, <3>2
  <2>4. CASE a \notin DOMAIN db.balances
    <3>1. Balance(db, a).err # "nil" /\ Balance(db, a).balance = 0
      BY <2>4 DEF Balance
    <3>2. Of(db.processed, a) = {}
      BY <2>1, <2>4 DEF Faithful, Of
    <3> QED BY <2>2, <3>1, <3>2, TotalEmpty
  <2> QED BY <2>3, <2>4
<1> QED BY <1>1, ProjectorInvariant, PTL

\* Which events were processed decides the balances and the statements.
LEMMA TablesFollow ==
  ASSUME NEW c, NEW d, Faithful(c), Faithful(d), c.processed = d.processed
  PROVE  c.balances = d.balances /\ c.statement = d.statement
<1>1. PICK B, C, P : B = c.balances /\ C = d.balances /\ P = c.processed
  OBVIOUS
<1>2. /\ DOMAIN B = {e.aggregate_id : e \in P} /\ DOMAIN C = {e.aggregate_id : e \in P}
      /\ Keyed(B) /\ Keyed(C)
      /\ \A a \in DOMAIN B : B[a] = Total(Change, Of(P, a))
      /\ \A a \in DOMAIN C : C[a] = Total(Change, Of(P, a))
  BY <1>1 DEF Faithful
<1>3. DOMAIN B = DOMAIN C /\ \A a \in DOMAIN B : B[a] = C[a]
  BY <1>2
<1>4. B = C
  BY <1>2, <1>3 DEF Keyed
<1>5. c.statement = d.statement
  BY DEF Faithful
<1> QED BY <1>1, <1>4, <1>5

\* The bus and the catch-up may bring an event as often as they like, with others in
\* between, and two events in either order: the tables end up the same.
THEOREM DeliveryIsIdempotent == Spec => []RedeliveryHarmless
<1>1. ProjectorInv => RedeliveryHarmless
  <2> SUFFICES ASSUME ProjectorInv, NEW e \in Recorded, NEW f \in Recorded
               PROVE  /\ e \in ApplyTx(ApplyTx(db, e), f).processed =>
                           ApplyTx(ApplyTx(ApplyTx(db, e), f), e) = ApplyTx(ApplyTx(db, e), f)
                      /\ ApplyTx(ApplyTx(db, e), f).processed =
                           ApplyTx(ApplyTx(db, f), e).processed
                         => /\ ApplyTx(ApplyTx(db, e), f).balances =
                                 ApplyTx(ApplyTx(db, f), e).balances
                            /\ ApplyTx(ApplyTx(db, e), f).statement =
                                 ApplyTx(ApplyTx(db, f), e).statement
    BY Zenon DEF RedeliveryHarmless
  <2>1. Faithful(db) /\ e \in Event /\ f \in Event
    BY DEF ProjectorInv, History
  <2>2. Faithful(ApplyTx(db, e)) /\ Faithful(ApplyTx(db, f))
    BY <2>1, TransactionIsFaithful
  <2>3. PICK c, d : c = ApplyTx(ApplyTx(db, e), f) /\ d = ApplyTx(ApplyTx(db, f), e)
    OBVIOUS
  <2>4. Faithful(c) /\ Faithful(d)
    BY <2>1, <2>2, <2>3, TransactionIsFaithful
  <2>5. e \in c.processed => ApplyTx(c, e) = c
    BY DEF ApplyTx
  <2>6. c.processed = d.processed => c.balances = d.balances /\ c.statement = d.statement
    BY <2>4, TablesFollow
  <2> QED BY <2>3, <2>5, <2>6
<1> QED BY <1>1, ProjectorInvariant, PTL

\* While the service is serving, an event that is not projected is on its way, or
\* its projection failed in this life.
THEOREM NoEventIsForgotten == Spec => []NothingForgotten
<1>1. ProjectorInv => NothingForgotten
  <2>1. UNION {{b[i] : i \in DOMAIN b} : b \in unpublished} = Queued
    BY DEF Queued, Range
  <2>2. ProjectorInv =>
          UNION {{bus[p][i] : i \in DOMAIN bus[p]} : p \in Partitions} = Carried(bus)
    <3>1. ProjectorInv => DOMAIN bus = Partitions
      BY DEF ProjectorInv, Flight
    <3> QED BY <3>1 DEF Carried, Range
  <2> QED BY <2>1, <2>2 DEF ProjectorInv, Ahead, NothingForgotten, InFlight
<1> QED BY <1>1, ProjectorInvariant, PTL

\* The rows before and after a transaction: one transfer goes on, or none.
GoesOn(T, U) ==
  \/ U = T
  \/ \E t \in TransferIds :
       \/ T[t] = "none" /\ U = [T EXCEPT ![t] = "pending"]
       \/ /\ T[t] = "pending"
          /\ \E s \in {"completed", "reversed"} : U = [T EXCEPT ![t] = s]

\* What GET transfer returned before and after a step, transfers settled twice apart.
PolledIn(R, T) ==
  [t \in TransferIds |-> IF CreditedIn(R, t) /\ ReversedIn(R, t) /\ T[t] = "reversed"
                         THEN "completed" ELSE T[t]]

\* What is polled is a function of the log and of the rows.
LEMMA PolledFromTheLog ==
  ProjectorInv => [t \in TransferIds |-> PolledStatus(t)] = PolledIn(Recorded, db.transfers)
<1> SUFFICES ASSUME ProjectorInv, NEW t \in TransferIds
             PROVE  PolledStatus(t) = PolledIn(Recorded, db.transfers)[t]
  BY DEF PolledIn
<1>1. SettledTwice(t) <=> CreditedIn(Recorded, t) /\ ReversedIn(Recorded, t)
  BY AllRowsRecorded DEF SettledTwice, HasTransferEvent, CreditedIn, ReversedIn
<1> QED BY <1>1 DEF PolledIn, PolledStatus, Transfer

\* A recorded event moves its transfer on: if it is the second answer to the transfer,
\* the transfer is settled twice.
LEMMA TransactionGoesOn ==
  ASSUME ProjectorInv, NEW e \in Recorded
  PROVE  GoesOn(PolledIn(Recorded, db.transfers), PolledIn(Recorded, ApplyTx(db, e).transfers))
<1>1. PICK d, R, T : d = db /\ R = Recorded /\ T = db.transfers
  OBVIOUS
<1>2. Faithful(d) /\ d.processed \subseteq R /\ e \in R
  BY <1>1 DEF ProjectorInv, Bounds
<1>3. CASE ApplyTx(d, e) = d
  BY <1>1, <1>3 DEF GoesOn
<1>4. CASE ApplyTx(d, e) = After(d, e)
  <2>1. PICK U, M, N : U = After(d, e).transfers /\ M = PolledIn(R, T) /\ N = PolledIn(R, U)
    OBVIOUS
  <2>2. T \in [TransferIds -> Statuses]
    BY <1>1, <1>2 DEF Faithful, Statuses
  <2>3. \A t \in TransferIds :
          \/ U[t] = T[t]
          \/ /\ e.transfer_id = t
             /\ \/ /\ e.type = "transfer.debited"
                   /\ T[t] = "none" /\ U[t] = "pending"
                \/ /\ e.type = "transfer.credited"
                   /\ T[t] # "none" /\ U[t] = "completed"
                \/ /\ e.type = "transfer.reversed"
                   /\ T[t] # "none" /\ U[t] = "reversed"
    BY <1>1, <1>2, <2>1, TransfersAfter
  <2>4. /\ DOMAIN M = TransferIds /\ DOMAIN N = TransferIds
        /\ M = [t \in TransferIds |-> M[t]] /\ N = [t \in TransferIds |-> N[t]]
        /\ \A t \in TransferIds : U[t] = T[t] => N[t] = M[t]
    BY <2>1 DEF PolledIn
  <2>5. ASSUME NEW t \in TransferIds
        PROVE  \/ N[t] = M[t]
               \/ /\ e.transfer_id = t
                  /\ \/ M[t] = "none" /\ N[t] = "pending"
                     \/ M[t] = "pending" /\ N[t] \in {"completed", "reversed"}
    <3>1. /\ T[t] = "completed" => CreditedIn(R, t)
          /\ T[t] = "reversed" => ReversedIn(R, t)
      BY <1>1, <1>2 DEF Faithful, CreditedIn, ReversedIn
    <3>2. /\ e.type = "transfer.credited" /\ e.transfer_id = t => CreditedIn(R, t)
          /\ e.type = "transfer.reversed" /\ e.transfer_id = t => ReversedIn(R, t)
      BY <1>2 DEF CreditedIn, ReversedIn
    <3>3. /\ M[t] = IF CreditedIn(R, t) /\ ReversedIn(R, t) /\ T[t] = "reversed"
                    THEN "completed" ELSE T[t]
          /\ N[t] = IF CreditedIn(R, t) /\ ReversedIn(R, t) /\ U[t] = "reversed"
                    THEN "completed" ELSE U[t]
      BY <2>1 DEF PolledIn
    <3> QED BY <2>2, <2>3, <3>1, <3>2, <3>3 DEF Statuses
  <2>6. CASE \A t \in TransferIds : N[t] = M[t]
    BY <1>1, <1>4, <2>1, <2>4, <2>6 DEF GoesOn
  <2>7. CASE \E t \in TransferIds : N[t] # M[t]
    <3>1. PICK t \in TransferIds : N[t] # M[t]
      BY <2>7
    <3>2. \A u \in TransferIds : u # t => N[u] = M[u]
      BY <2>5, <3>1
    <3>3. N = [M EXCEPT ![t] = N[t]]
      BY <2>4, <3>2
    <3>4. GoesOn(M, N)
      BY <2>5, <3>1, <3>3 DEF GoesOn
    <3> QED BY <1>1, <1>4, <2>1, <3>4
  <2> QED BY <2>6, <2>7
<1> QED BY <1>1, <1>2, <1>3, <1>4, Transaction

\* An event that is only recorded is not polled: a row that says reversed stays what
\* it is, since its transfer is not credited afterwards.
LEMMA RecordingIsNotPolled ==
  ASSUME ProjectorInv, ProjectorInv', LogGoesOn, db' = db
  PROVE  PolledIn(Recorded', db'.transfers) = PolledIn(Recorded, db.transfers)
<1>1. ASSUME NEW t \in TransferIds, db.transfers[t] = "reversed"
      PROVE  ReversedIn(Recorded, t) /\ ReversedIn(Recorded', t)
  <2>1. PICK f \in db.processed : f.type = "transfer.reversed" /\ f.transfer_id = t
    BY <1>1 DEF ProjectorInv, Faithful
  <2>2. f \in Recorded /\ f \in Recorded'
    BY DEF ProjectorInv, Bounds, LogGoesOn
  <2> QED BY <2>1, <2>2 DEF ReversedIn
<1>2. \A t : CreditedIn(Recorded, t) => CreditedIn(Recorded', t)
  BY DEF CreditedIn, LogGoesOn
<1> QED BY <1>1, <1>2 DEF LogGoesOn, PolledIn

\* Clients who poll GET transfer see the life TransferSpec promises, although
\* projections fail, are dropped and are caught up by a later boot; the two final
\* statuses are told apart unless the log both credits and reverses the transfer.
THEOREM PolledTransfersFollowSpec == Spec => TransferRowsFollowSpec
<1> DEFINE now == [t \in TransferIds |-> PolledStatus(t)]
<1>1. Init => Polled!Init
  BY DEF Init, EmptyTables, Transfer, PolledStatus, Polled!Init
<1>2. ProjectorInv => now = PolledIn(Recorded, db.transfers)
  BY PolledFromTheLog
<1>3. ProjectorInv /\ ProjectorInv' /\ [Next]_vars => [Polled!Next]_now
  <2> SUFFICES ASSUME ProjectorInv, ProjectorInv', [Next]_vars PROVE [Polled!Next]_now
    OBVIOUS
  <2>1. /\ now = PolledIn(Recorded, db.transfers)
        /\ now' = PolledIn(Recorded', db'.transfers)
    <3>1. ProjectorInv' => (now = PolledIn(Recorded, db.transfers))'
      BY <1>2, PTL
    <3> QED BY <1>2, <3>1
  <2>2. \/ db' = db
        \/ Recorded' = Recorded /\ \E e \in Recorded : db' = ApplyTx(db, e)
    <3>1. log' = log => Recorded' = Recorded
      BY DEF Recorded
    <3>2. CASE CatchUp
      <4>1. /\ todo \in Seq(Recorded) /\ todo # <<>> /\ db' = ApplyTx(db, Head(todo))
            /\ log' = log
        BY <3>2 DEF ProjectorInv, Ahead, CatchUp
      <4>2. Head(todo) \in Recorded
        BY <4>1, FirstAndOthers
      <4> QED BY <3>1, <4>1, <4>2
    <3>3. ASSUME NEW p \in Partitions, Deliver(p)
          PROVE  /\ Recorded' = Recorded
                 /\ db' = db \/ \E e \in Recorded : db' = ApplyTx(db, e)
      <4>1. /\ bus[p] \in Seq(Recorded) /\ bus[p] # <<>> /\ Handle(Head(bus[p]))
            /\ log' = log
        BY <3>3 DEF ProjectorInv, Flight, Deliver
      <4>2. Head(bus[p]) \in Recorded
        BY <4>1, FirstAndOthers
      <4> QED BY <3>1, <4>1, <4>2 DEF Handle
    <3>4. CASE Client
      <4>1. \A b : Command(b) => db' = db
        BY DEF Command
      <4>2. \E b : Command(b)
        BY <3>4 DEF Client, Open, Mutate, StartTransfer
      <4> QED BY <4>1, <4>2
    <3>5. CASE Request \/ Saga \/ Boot \/ CatchUpFails \/ Serve \/ Exit \/ Crash \/ Shutdown
               \/ UNCHANGED vars
      BY <3>5 DEF Request, Publish, Saga, Credit, CreditFails, Reverse, ReverseFails, Boot,
                  CatchUpFails, Serve, Exit, Crash, Shutdown, Die, vars
    <3> QED BY <3>2, <3>3, <3>4, <3>5 DEF Next, Service, Startup
  <2>3. GoesOn(now, now')
    <3> HIDE DEF now
    <3>1. CASE db' = db
      <4>1. now' = now
        BY <2>1, <3>1, ProjectorStep, RecordingIsNotPolled
      <4> QED BY <4>1 DEF GoesOn
    <3>2. ASSUME NEW e \in Recorded, db' = ApplyTx(db, e), Recorded' = Recorded
          PROVE  GoesOn(now, now')
      <4>1. GoesOn(PolledIn(Recorded, db.transfers), PolledIn(Recorded, db'.transfers))
        BY <3>2, TransactionGoesOn
      <4> QED BY <2>1, <3>2, <4>1
    <3> QED BY <2>2, <3>1, <3>2
  <2> QED BY <2>3 DEF GoesOn, Polled!Next, Polled!Start, Polled!Settle
<1> QED BY <1>1, <1>3, ProjectorInvariant, PTL DEF Spec, TransferRowsFollowSpec, Polled!Spec
=============================================================================

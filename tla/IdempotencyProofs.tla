-------------------------- MODULE IdempotencyProofs --------------------------
(***************************************************************************)
(* The properties of Idempotency for every set of goroutines, keys and     *)
(* payloads and whatever faults occur.                                     *)
(*                                                                         *)
(* The argument: the INSERT makes one request the owner of its key, for    *)
(* ever.  Only the owner comes to the command, once, and the row holds the *)
(* hash of its payload.  So a key has an effect only with that payload, and *)
(* once its owner is past the command nothing changes that any more.       *)
(***************************************************************************)
EXTENDS Idempotency, CollectionTheorems

\* Goroutines that reserved their key and have not stored its answer.
Owns(g) == pc[g] \in {"execute", "complete"}

\* An owner has the row of its key to itself.
Ownership ==
  /\ \A g \in Goroutines : Owns(g) =>
       /\ req[g].key \in DOMAIN keys
       /\ keys[req[g].key].hash = req[g].payload
       /\ keys[req[g].key].status = Processing
  /\ \A g, h \in Goroutines : Owns(g) /\ Owns(h) /\ req[g].key = req[h].key => g = h
  /\ \A g \in Goroutines : pc[g] = "select" => req[g].key \in DOMAIN keys

\* What was executed was reserved, with its payload, once; its owner is past it.
Executions ==
  /\ IsFiniteSet(executed)
  /\ \A e \in executed : e.key \in DOMAIN keys /\ keys[e.key].hash = e.payload
  /\ \A e, f \in executed : e.key = f.key => e = f
  /\ \A g \in Goroutines : pc[g] = "execute" => \A e \in executed : e.key # req[g].key

\* A request that had no effect and cannot have one any more: its key belongs to
\* another payload, or the key's owner is past the command.
Hopeless(k, payload) ==
  /\ k \in DOMAIN keys
  /\ \A e \in executed : ~(e.key = k /\ e.payload = payload)
  /\ \/ keys[k].hash # payload
     \/ \A g \in Goroutines : ~(pc[g] = "execute" /\ req[g].key = k)

\* An answer that is true of a request now and stays so.
Truthful(k, payload, status, body) ==
  /\ status \in 200 .. 202 => [key |-> k, payload |-> payload, body |-> body] \in executed
  /\ status \in {400, 404, 422} => Hopeless(k, payload)

\* Answers are true where they are prepared, stored and received.
Truth ==
  /\ \A g \in Goroutines : pc[g] \in {"complete", "reply"} =>
       Truthful(req[g].key, req[g].payload, reply[g].status, reply[g].body)
  /\ \A k \in DOMAIN keys : Truthful(k, keys[k].hash, keys[k].status, keys[k].body)
  /\ \A x \in answers :
       Truthful(x.request.key, x.request.payload, x.answer.status, x.answer.body)

\* The inductive invariant.
IdInv ==
  /\ TypeOK
  /\ req \in [Goroutines -> Requests \cup {NoRequest}]
  /\ Ownership
  /\ Executions
  /\ Truth

-----------------------------------------------------------------------------
(***************************************************************************)
(* What is true of a request stays true                                    *)
(***************************************************************************)
\* What every step does: rows stay and keep their hash, only owners execute, and
\* nobody comes to the command of a key that has a row.
Advance ==
  /\ \A k \in DOMAIN keys : k \in DOMAIN keys' /\ keys'[k].hash = keys[k].hash
  /\ \A e \in executed : e \in executed'
  /\ \A e \in executed' : e \in executed
       \/ \E g \in Goroutines : /\ pc[g] = "execute" /\ req[g].key = e.key
                                /\ keys[e.key].hash = e.payload
  /\ \A g \in Goroutines : pc'[g] = "execute" /\ req'[g].key \in DOMAIN keys =>
       pc[g] = "execute" /\ req[g].key = req'[g].key

\* A true answer stays true.
LEMMA TruthfulStays ==
  ASSUME Advance, NEW k, NEW p, NEW s, NEW b, Truthful(k, p, s, b)
  PROVE  Truthful(k, p, s, b)'
<1>1. ASSUME Hopeless(k, p) PROVE Hopeless(k, p)'
  <2>1. k \in DOMAIN keys'
    BY <1>1 DEF Hopeless, Advance
  <2>2. \A e \in executed' : ~(e.key = k /\ e.payload = p)
    <3> SUFFICES ASSUME NEW e \in executed', e.key = k, e.payload = p PROVE FALSE
      OBVIOUS
    <3>1. e \notin executed
      BY <1>1 DEF Hopeless
    <3>2. PICK g \in Goroutines : /\ pc[g] = "execute" /\ req[g].key = e.key
                                  /\ keys[e.key].hash = e.payload
      BY <3>1 DEF Advance
    <3> QED BY <3>2, <1>1 DEF Hopeless
  <2>3. \/ keys'[k].hash # p
        \/ \A g \in Goroutines : ~(pc'[g] = "execute" /\ req'[g].key = k)
    BY <1>1 DEF Hopeless, Advance
  <2> QED BY <2>1, <2>2, <2>3 DEF Hopeless
<1>2. ASSUME [key |-> k, payload |-> p, body |-> b] \in executed
      PROVE  [key |-> k, payload |-> p, body |-> b] \in executed'
  BY <1>2 DEF Advance
<1> QED BY <1>1, <1>2 DEF Truthful

-----------------------------------------------------------------------------
(***************************************************************************)
(* Every step keeps the invariant                                          *)
(***************************************************************************)
\* The answers prepared so far, stored or received stay true; what a step adds to
\* them has to be looked at.
LEMMA TruthKept ==
  ASSUME IdInv, Advance,
         \A g \in Goroutines : pc'[g] \in {"complete", "reply"} =>
           \/ /\ pc[g] \in {"complete", "reply"}
              /\ req'[g] = req[g] /\ reply'[g] = reply[g]
           \/ Truthful(req[g].key, req[g].payload, reply[g].status, reply[g].body)',
         \A k \in DOMAIN keys' :
           \/ k \in DOMAIN keys /\ keys'[k] = keys[k]
           \/ Truthful(k, keys[k].hash, keys[k].status, keys[k].body)',
         \A x \in answers' :
           \/ x \in answers
           \/ Truthful(x.request.key, x.request.payload, x.answer.status, x.answer.body)'
  PROVE  Truth'
<1>1. ASSUME NEW g \in Goroutines, pc'[g] \in {"complete", "reply"}
      PROVE  Truthful(req[g].key, req[g].payload, reply[g].status, reply[g].body)'
  <2>1. CASE /\ pc[g] \in {"complete", "reply"}
             /\ req'[g] = req[g] /\ reply'[g] = reply[g]
    <3>1. PICK k, p, s, b : k = req[g].key /\ p = req[g].payload
                            /\ s = reply[g].status /\ b = reply[g].body
      OBVIOUS
    <3>2. Truthful(k, p, s, b)
      BY <2>1, <3>1 DEF IdInv, Truth
    <3>3. Truthful(k, p, s, b)'
      BY <3>2, TruthfulStays
    <3> QED BY <2>1, <3>1, <3>3 DEF Truthful, Hopeless
  <2> QED BY <2>1, <1>1
<1>2. ASSUME NEW k \in DOMAIN keys'
      PROVE  Truthful(k, keys[k].hash, keys[k].status, keys[k].body)'
  <2>1. CASE k \in DOMAIN keys /\ keys'[k] = keys[k]
    <3>1. PICK p, s, b : p = keys[k].hash /\ s = keys[k].status /\ b = keys[k].body
      OBVIOUS
    <3>2. Truthful(k, p, s, b)
      BY <2>1, <3>1 DEF IdInv, Truth
    <3>3. Truthful(k, p, s, b)'
      BY <3>2, TruthfulStays
    <3> QED BY <2>1, <3>1, <3>3 DEF Truthful, Hopeless
  <2> QED BY <2>1
<1>3. ASSUME NEW x \in answers'
      PROVE  Truthful(x.request.key, x.request.payload, x.answer.status, x.answer.body)'
  <2>1. CASE x \in answers
    BY <2>1, TruthfulStays DEF IdInv, Truth
  <2> QED BY <2>1
<1> QED BY <1>1, <1>2, <1>3 DEF Truth

\* Receive.
LEMMA ReceiveInv ==
  ASSUME IdInv, NEW g \in Goroutines, NEW k \in Keys, NEW p \in Payloads, Receive(g, k, p)
  PROVE  IdInv'
<1> USE DEF IdInv, Receive, At
<1>1. [key |-> k, payload |-> p] \in Requests
  BY DEF Requests
<1>2. pc' = [pc EXCEPT ![g] = "insert"] /\ pc \in [Goroutines -> Steps]
      /\ req' = [req EXCEPT ![g] = [key |-> k, payload |-> p]]
  BY DEF TypeOK
<1>3. TypeOK' /\ req' \in [Goroutines -> Requests \cup {NoRequest}]
  BY <1>1 DEF TypeOK, Steps
<1>4. Ownership'
  BY <1>2 DEF Ownership, Owns
<1>5. Executions'
  BY <1>2 DEF Executions
<1>6. Advance
  BY <1>2 DEF Advance
<1>7. Truth'
  BY <1>2, <1>6, TruthKept
<1> QED BY <1>3, <1>4, <1>5, <1>7

\* A row is added for a request that is at the INSERT; nobody owned its key.
LEMMA ReservedRow ==
  ASSUME IdInv, NEW g \in Goroutines, pc[g] = "insert", req[g].key \notin DOMAIN keys,
         keys' = Reserved(req[g].key, req[g].payload)
  PROVE  /\ req[g].key \in Keys /\ req[g].payload \in Payloads
         /\ DOMAIN keys' = DOMAIN keys \cup {req[g].key}
         /\ \A k \in DOMAIN keys : keys'[k] = keys[k]
         /\ keys'[req[g].key] = [hash |-> req[g].payload, status |-> Processing, body |-> 0]
         /\ keys'[req[g].key] \in [hash : Payloads, status : Nat, body : Nat]
         /\ \A h \in Goroutines : Owns(h) => req[h].key # req[g].key
         /\ \A e \in executed : e.key # req[g].key
<1>1. req[g] \in Requests
  BY DEF IdInv, TypeOK
<1>2. req[g].key \in Keys /\ req[g].payload \in Payloads
  BY <1>1 DEF Requests
<1>3. /\ DOMAIN keys' = DOMAIN keys \cup {req[g].key}
      /\ \A k \in DOMAIN keys : keys'[k] = keys[k]
      /\ keys'[req[g].key] = [hash |-> req[g].payload, status |-> Processing, body |-> 0]
  BY DEF Reserved, hashRequest
<1>4. \A h \in Goroutines : Owns(h) => req[h].key # req[g].key
  BY DEF IdInv, Ownership
<1>5. \A e \in executed : e.key # req[g].key
  BY DEF IdInv, Executions
<1> QED BY <1>2, <1>3, <1>4, <1>5 DEF Processing

\* Insert.
LEMMA InsertInv ==
  ASSUME IdInv, NEW g \in Goroutines, Insert(g)
  PROVE  IdInv'
<1> USE DEF IdInv
<1>1. pc \in [Goroutines -> Steps] /\ pc[g] = "insert"
      /\ UNCHANGED <<req, gone, reply, executed, answers>>
  BY DEF TypeOK, Insert
<1>2. CASE /\ req[g].key \notin DOMAIN keys
           /\ keys' = Reserved(req[g].key, req[g].payload)
           /\ At(g, "execute")
  <2> DEFINE row == keys'[req[g].key]
  <2>1. pc' = [pc EXCEPT ![g] = "execute"]
    BY <1>2 DEF At
  <2>2. /\ req[g].key \in Keys /\ req[g].payload \in Payloads
        /\ DOMAIN keys' = DOMAIN keys \cup {req[g].key}
        /\ \A k \in DOMAIN keys : keys'[k] = keys[k]
        /\ row = [hash |-> req[g].payload, status |-> Processing, body |-> 0]
        /\ row \in [hash : Payloads, status : Nat, body : Nat]
        /\ \A h \in Goroutines : Owns(h) => req[h].key # req[g].key
        /\ \A e \in executed : e.key # req[g].key
    BY <1>1, <1>2, ReservedRow
  <2>3. TypeOK'
    BY <1>1, <2>1, <2>2 DEF TypeOK, Steps
  <2>4. Ownership'
    BY <1>1, <2>1, <2>2 DEF Ownership, Owns
  <2>5. Executions'
    BY <1>1, <2>1, <2>2 DEF Executions
  <2>6. Advance
    BY <1>1, <1>2, <2>1, <2>2 DEF Advance
  <2>7. Truthful(req[g].key, keys[req[g].key].hash, keys[req[g].key].status,
                 keys[req[g].key].body)'
    BY <1>1, <2>2 DEF Truthful, Processing
  <2>8. ASSUME NEW k \in DOMAIN keys'
        PROVE  \/ k \in DOMAIN keys /\ keys'[k] = keys[k]
               \/ Truthful(k, keys[k].hash, keys[k].status, keys[k].body)'
    <3>1. CASE k = req[g].key
      BY <1>1, <3>1, <2>7
    <3> QED BY <2>2, <3>1
  <2>9. Truth'
    BY <1>1, <2>1, <2>6, <2>8, TruthKept
  <2> QED BY <1>1, <2>3, <2>4, <2>5, <2>9
<1>3. CASE req[g].key \in DOMAIN keys /\ At(g, "select") /\ UNCHANGED keys
  <2>1. pc' = [pc EXCEPT ![g] = "select"]
    BY <1>3 DEF At
  <2>2. TypeOK'
    BY <1>1, <1>3, <2>1 DEF TypeOK, Steps
  <2>3. Ownership'
    BY <1>1, <1>3, <2>1 DEF Ownership, Owns
  <2>4. Executions'
    BY <1>1, <1>3, <2>1 DEF Executions
  <2>5. Advance
    BY <1>1, <1>3, <2>1 DEF Advance
  <2>6. Truth'
    BY <1>1, <1>3, <2>1, <2>5, TruthKept
  <2> QED BY <1>1, <2>2, <2>3, <2>4, <2>6
<1> QED BY <1>2, <1>3 DEF Insert

\* Select answers from the row, truthfully: the row is true, and a payload that is
\* not the owner's is hopeless.
LEMMA SelectInv ==
  ASSUME IdInv, NEW g \in Goroutines, Select(g)
  PROVE  IdInv'
<1> USE DEF IdInv
<1> DEFINE k == req[g].key
           p == req[g].payload
           a == AnswerFrom(keys[k], p)
<1>1. pc \in [Goroutines -> Steps] /\ pc[g] = "select"
      /\ pc' = [pc EXCEPT ![g] = "reply"] /\ reply' = [reply EXCEPT ![g] = a]
      /\ UNCHANGED <<keys, req, gone, executed, answers>>
  BY DEF TypeOK, Select, At, Prepare
<1>2. k \in DOMAIN keys /\ p \in Payloads
      /\ keys[k] \in [hash : Payloads, status : Nat, body : Nat]
  BY <1>1 DEF TypeOK, Ownership, Requests
<1>3. a \in Replies /\ reply \in [Goroutines -> Replies]
  BY <1>2 DEF AnswerFrom, Answer, Replies, TypeOK
<1>4. Truthful(k, p, a.status, a.body)
  <2>1. CASE keys[k].hash # p
    <3>1. a.status = 422
      BY <2>1, <1>2 DEF AnswerFrom, Answer, hashRequest
    <3>2. Hopeless(k, p)
      BY <1>2, <2>1 DEF Hopeless, Executions
    <3> QED BY <3>1, <3>2 DEF Truthful
  <2>2. CASE keys[k].hash = p /\ keys[k].status = Processing
    <3>1. a.status = 409
      BY <2>2, <1>2 DEF AnswerFrom, Answer, hashRequest
    <3> QED BY <3>1 DEF Truthful
  <2>3. CASE keys[k].hash = p /\ keys[k].status # Processing
    <3>1. a.status = keys[k].status /\ a.body = keys[k].body
      BY <2>3, <1>2 DEF AnswerFrom, Answer, hashRequest
    <3> QED BY <2>3, <3>1, <1>2 DEF Truth
  <2> QED BY <2>1, <2>2, <2>3
<1> HIDE DEF a
<1>5. TypeOK'
  BY <1>1, <1>3 DEF TypeOK, Steps
<1>6. Ownership'
  BY <1>1 DEF Ownership, Owns
<1>7. Executions'
  BY <1>1 DEF Executions
<1>8. Advance
  BY <1>1 DEF Advance
<1>9. Truthful(req[g].key, req[g].payload, reply[g].status, reply[g].body)'
  <2>1. reply'[g] = a /\ req'[g] = req[g]
    BY <1>1, <1>3
  <2>2. PICK kk, pp, ss, bb : kk = k /\ pp = p /\ ss = a.status /\ bb = a.body
    OBVIOUS
  <2>3. Truthful(kk, pp, ss, bb)'
    BY <1>4, <1>8, <2>2, TruthfulStays
  <2> QED BY <2>1, <2>2, <2>3 DEF Truthful, Hopeless
<1>10. Truth'
  BY <1>1, <1>8, <1>9, TruthKept
<1> QED BY <1>1, <1>5, <1>6, <1>7, <1>10

\* Reserve fails with or without the row: a 500 claims nothing.
LEMMA ReserveFailsInv ==
  ASSUME IdInv, NEW g \in Goroutines, ReserveFails(g)
  PROVE  IdInv'
<1> USE DEF IdInv
<1>1. pc \in [Goroutines -> Steps] /\ pc[g] \in {"insert", "select"}
      /\ pc' = [pc EXCEPT ![g] = "reply"]
      /\ reply' = [reply EXCEPT ![g] = writeError("internal")]
      /\ UNCHANGED <<req, gone, executed, answers>>
  BY DEF TypeOK, ReserveFails, At, Prepare
<1>2. writeError("internal") = [status |-> 500, body |-> 0]
      /\ reply \in [Goroutines -> Replies]
      /\ writeError("internal") \in Replies
  BY DEF writeError, Answer, Replies, TypeOK
<1>3. Truthful(req[g].key, req[g].payload, reply[g].status, reply[g].body)'
  BY <1>1, <1>2 DEF Truthful
<1>4. CASE UNCHANGED keys
  <2>1. TypeOK'
    BY <1>1, <1>2, <1>4 DEF TypeOK, Steps
  <2>2. Ownership' /\ Executions' /\ Advance
    BY <1>1, <1>4 DEF Ownership, Owns, Executions, Advance
  <2>3. Truth'
    BY <1>1, <1>3, <1>4, <2>2, TruthKept
  <2> QED BY <1>1, <2>1, <2>2, <2>3
<1>5. CASE /\ pc[g] = "insert" /\ req[g].key \notin DOMAIN keys
           /\ keys' = Reserved(req[g].key, req[g].payload)
  <2> DEFINE row == keys'[req[g].key]
  <2>1. /\ req[g].key \in Keys /\ req[g].payload \in Payloads
        /\ DOMAIN keys' = DOMAIN keys \cup {req[g].key}
        /\ \A k \in DOMAIN keys : keys'[k] = keys[k]
        /\ row = [hash |-> req[g].payload, status |-> Processing, body |-> 0]
        /\ row \in [hash : Payloads, status : Nat, body : Nat]
        /\ \A h \in Goroutines : Owns(h) => req[h].key # req[g].key
        /\ \A e \in executed : e.key # req[g].key
    BY <1>5, ReservedRow
  <2>2. TypeOK'
    BY <1>1, <1>2, <2>1 DEF TypeOK, Steps
  <2>3. Ownership' /\ Executions' /\ Advance
    BY <1>1, <2>1 DEF Ownership, Owns, Executions, Advance
  <2>4. Truthful(req[g].key, keys[req[g].key].hash, keys[req[g].key].status,
                 keys[req[g].key].body)'
    BY <1>1, <2>1 DEF Truthful, Processing
  <2>5. ASSUME NEW k \in DOMAIN keys'
        PROVE  \/ k \in DOMAIN keys /\ keys'[k] = keys[k]
               \/ Truthful(k, keys[k].hash, keys[k].status, keys[k].body)'
    <3>1. CASE k = req[g].key
      BY <1>1, <3>1, <2>4
    <3> QED BY <2>1, <3>1
  <2>6. Truth'
    BY <1>1, <1>3, <2>3, <2>5, TruthKept
  <2> QED BY <1>1, <2>2, <2>3, <2>6
<1> QED BY <1>4, <1>5 DEF ReserveFails

\* The statuses of the handlers: a success is 200, 201 or 202, an error is not.
LEMMA Statuses ==
  /\ \A p \in Payloads : Handler(p).success \in 200 .. 202
  /\ \A err : writeError(err) \in [status : Nat \ (200 .. 202), body : {0}]
  /\ writeError("internal").status = 500
  /\ writeError("DeadlineExceeded").status = 504
<1>1. ASSUME NEW p \in Payloads PROVE Handler(p).success \in 200 .. 202
  <2>1. p.route \in {"POST /accounts", "POST movement", "POST /transfers"}
    BY IdempotencyAssumption DEF Routes
  <2>2. /\ handleOpenAccount.success = 201 /\ handleMovement.success = 200
        /\ handleTransfer.success = 202
    BY DEF handleOpenAccount, handleMovement, handleTransfer
  <2>3. Handler(p) \in {handleOpenAccount, handleMovement, handleTransfer}
    BY <2>1 DEF Handler
  <2> QED BY <2>2, <2>3
<1>2. ASSUME NEW err
      PROVE  writeError(err) \in [status : Nat \ (200 .. 202), body : {0}]
  <2>1. \E s \in {400, 404, 409, 422, 500, 504} : writeError(err) = Answer(s, 0)
    BY DEF writeError
  <2> QED BY <2>1 DEF Answer
<1> QED BY <1>1, <1>2 DEF writeError, Answer

\* The owner's command takes effect: the first of its key, with the payload whose
\* hash the row holds.
LEMMA FirstEffect ==
  ASSUME IdInv, NEW g \in Goroutines, pc[g] = "execute"
  PROVE  /\ Effect(g) \in [key : Keys, payload : Payloads, body : Nat]
         /\ Effect(g) = [key |-> req[g].key, payload |-> req[g].payload,
                         body |-> Effect(g).body]
         /\ req[g].key \in DOMAIN keys /\ keys[req[g].key].hash = req[g].payload
         /\ keys[req[g].key].status = Processing
         /\ \A e \in executed : e.key # req[g].key
         /\ IsFiniteSet(executed \cup {Effect(g)})
<1>1. req[g].key \in Keys /\ req[g].payload \in Payloads
  BY DEF IdInv, TypeOK, Requests
<1>2. IsFiniteSet(executed) /\ Cardinality(executed) \in Nat
  BY FS_CardinalityType DEF IdInv, Executions
<1>3. IsFiniteSet(executed \cup {Effect(g)})
  BY <1>2, FS_AddElement
<1>4. /\ req[g].key \in DOMAIN keys /\ keys[req[g].key].hash = req[g].payload
      /\ keys[req[g].key].status = Processing
      /\ \A e \in executed : e.key # req[g].key
  BY DEF IdInv, Ownership, Owns, Executions
<1> QED BY <1>1, <1>2, <1>3, <1>4 DEF Effect

\* The owner runs its command with the answer a in the end, whether the command
\* had its effect or not.
LEMMA ExecuteInv ==
  ASSUME IdInv, NEW g \in Goroutines, NEW a \in Replies, pc[g] = "execute",
         executed' \in {executed, executed \cup {Effect(g)}},
         Prepare(g, a), At(g, "complete"), UNCHANGED <<keys, req, gone, answers>>,
         a.status \in 200 .. 202 => Effect(g) \in executed' /\ a.body = Effect(g).body,
         a.status \in {400, 404, 422} => executed' = executed
  PROVE  IdInv'
<1> USE DEF IdInv
<1> DEFINE k == req[g].key
           p == req[g].payload
           x == Effect(g)
<1>1. pc \in [Goroutines -> Steps] /\ pc' = [pc EXCEPT ![g] = "complete"]
      /\ reply \in [Goroutines -> Replies] /\ reply' = [reply EXCEPT ![g] = a]
  BY DEF TypeOK, At, Prepare
<1>2. /\ x \in [key : Keys, payload : Payloads, body : Nat]
      /\ x = [key |-> k, payload |-> p, body |-> x.body]
      /\ k \in DOMAIN keys /\ keys[k].hash = p
      /\ keys[k].status = Processing
      /\ \A e \in executed : e.key # k
      /\ IsFiniteSet(executed \cup {x})
  BY FirstEffect
<1> HIDE DEF x
<1>3. /\ executed \subseteq executed'
      /\ \A e \in executed' : e \in executed \/ e = x
      /\ IsFiniteSet(executed')
  <2>1. CASE executed' = executed
    BY <2>1 DEF Executions
  <2>2. CASE executed' = executed \cup {x}
    BY <2>2, <1>2
  <2> QED BY <2>1, <2>2 DEF x
<1>4. TypeOK'
  BY <1>1, <1>2, <1>3 DEF TypeOK, Steps
<1>5. Ownership'
  BY <1>1, <1>2 DEF Ownership, Owns
<1>6. \A h \in Goroutines : pc'[h] = "execute" => req[h].key # k
  BY <1>1 DEF Ownership, Owns
<1>7. Executions'
  <2>1. \A e \in executed' : e.key \in DOMAIN keys /\ keys[e.key].hash = e.payload
    BY <1>2, <1>3 DEF Executions
  <2>2. \A e, f \in executed' : e.key = f.key => e = f
    BY <1>2, <1>3 DEF Executions
  <2>3. \A h \in Goroutines : pc'[h] = "execute" => \A e \in executed' : e.key # req[h].key
    BY <1>1, <1>2, <1>3, <1>6 DEF Executions
  <2> QED BY <1>3, <2>1, <2>2, <2>3 DEF Executions
<1>8. Advance
  BY <1>1, <1>2, <1>3 DEF Advance
<1>9. Truthful(req[g].key, req[g].payload, reply[g].status, reply[g].body)'
  <2>1. req'[g] = req[g] /\ reply'[g] = a
    BY <1>1
  <2>2. ASSUME a.status \in 200 .. 202
        PROVE  [key |-> k, payload |-> p, body |-> a.body] \in executed'
    BY <1>2, <2>2 DEF x
  <2>3. ASSUME a.status \in {400, 404, 422} PROVE Hopeless(k, p)'
    <3>1. executed' = executed
      BY <2>3
    <3> QED BY <1>2, <1>6, <3>1 DEF Hopeless
  <2> QED BY <2>1, <2>2, <2>3 DEF Truthful, Hopeless
<1>10. Truth'
  BY <1>1, <1>8, <1>9, TruthKept
<1> QED BY <1>4, <1>5, <1>7, <1>10

\* Succeed, Refuse and Break.
LEMMA CommandInv ==
  ASSUME IdInv, NEW g \in Goroutines, NEW err, Succeed(g) \/ Refuse(g, err) \/ Break(g, err)
  PROVE  IdInv'
<1>1. pc[g] = "execute" /\ req[g].payload \in Payloads /\ Effect(g).body \in Nat
  <2>1. pc[g] = "execute"
    BY DEF Succeed, Refuse, Break
  <2> QED BY <2>1, FirstEffect DEF IdInv, TypeOK, Requests
<1>2. CASE Succeed(g)
  <2> DEFINE a == Answer(Handler(req[g].payload).success, Effect(g).body)
  <2>1. a \in Replies /\ a.body = Effect(g).body
    BY <1>1, Statuses DEF Answer, Replies
  <2>2. a.status \notin {400, 404, 422}
    BY <1>1, Statuses DEF Answer
  <2>3. /\ executed' = executed \cup {Effect(g)} /\ Prepare(g, a)
        /\ At(g, "complete") /\ UNCHANGED <<keys, req, gone, answers>>
    BY <1>2 DEF Succeed
  <2> HIDE DEF a
  <2> QED BY <1>1, <2>1, <2>2, <2>3, ExecuteInv
<1>3. CASE Refuse(g, err)
  <2> DEFINE a == writeError(err)
  <2>1. a \in Replies /\ a.status \notin 200 .. 202
    BY Statuses DEF Replies
  <2>2. /\ executed' = executed /\ Prepare(g, a)
        /\ At(g, "complete") /\ UNCHANGED <<keys, req, gone, answers>>
    BY <1>3 DEF Refuse
  <2> HIDE DEF a
  <2> QED BY <1>1, <2>1, <2>2, ExecuteInv
<1>4. CASE Break(g, err)
  <2> DEFINE a == writeError(err)
  <2>1. a \in Replies /\ a.status \in {500, 504}
    BY <1>4, Statuses DEF Break, Replies
  <2>2. /\ executed' \in {executed, executed \cup {Effect(g)}} /\ Prepare(g, a)
        /\ At(g, "complete") /\ UNCHANGED <<keys, req, gone, answers>>
    BY <1>4 DEF Break
  <2>3. a.status \notin 200 .. 202 /\ a.status \notin {400, 404, 422}
    BY <2>1
  <2> HIDE DEF a
  <2> QED BY <1>1, <2>1, <2>2, <2>3, ExecuteInv
<1> QED BY <1>2, <1>3, <1>4

\* Complete stores the owner's answer, which is true.
LEMMA CompleteInv ==
  ASSUME IdInv, NEW g \in Goroutines, Complete(g)
  PROVE  IdInv'
<1> USE DEF IdInv
<1> DEFINE k == req[g].key
           p == req[g].payload
           s == reply[g].status
           b == reply[g].body
<1>1. pc \in [Goroutines -> Steps] /\ pc[g] = "complete"
      /\ pc' = [pc EXCEPT ![g] = "reply"]
      /\ UNCHANGED <<req, gone, reply, executed, answers>>
  BY DEF TypeOK, Complete, At
<1>2. k \in DOMAIN keys /\ keys[k].hash = p
      /\ keys[k] \in [hash : Payloads, status : Nat, body : Nat]
      /\ s \in Nat /\ b \in Nat
  BY <1>1 DEF TypeOK, Ownership, Owns, Replies
<1>3. /\ DOMAIN keys' = DOMAIN keys
      /\ \A x \in DOMAIN keys : x # k => keys'[x] = keys[x]
      /\ keys'[k] = [hash |-> p, status |-> s, body |-> b]
  BY <1>2 DEF Complete
<1>4. TypeOK'
  <2>1. keys'[k] \in [hash : Payloads, status : Nat, body : Nat]
    BY <1>2, <1>3
  <2> QED BY <1>1, <1>3, <2>1 DEF TypeOK, Steps
<1>5. Ownership'
  <2>1. \A h \in Goroutines : h # g /\ Owns(h) => req[h].key # k
    BY <1>1 DEF Ownership, Owns
  <2> QED BY <1>1, <1>3, <2>1 DEF Ownership, Owns
<1>6. Executions'
  BY <1>1, <1>2, <1>3 DEF Executions
<1>7. Advance
  BY <1>1, <1>2, <1>3 DEF Advance
<1>8. Truthful(k, keys[k].hash, keys[k].status, keys[k].body)'
  <2>1. PICK kk, pp, ss, bb : kk = k /\ pp = p /\ ss = s /\ bb = b
    OBVIOUS
  <2>2. Truthful(kk, pp, ss, bb)
    BY <1>1, <2>1 DEF Truth
  <2>3. Truthful(kk, pp, ss, bb)'
    BY <1>7, <2>2, TruthfulStays
  <2> QED BY <1>1, <1>3, <2>1, <2>3 DEF Truthful, Hopeless
<1>9. ASSUME NEW x \in DOMAIN keys'
      PROVE  \/ x \in DOMAIN keys /\ keys'[x] = keys[x]
             \/ Truthful(x, keys[x].hash, keys[x].status, keys[x].body)'
  <2>1. CASE x = k
    BY <1>1, <1>8, <2>1
  <2> QED BY <1>3, <2>1
<1>10. Truth'
  BY <1>1, <1>7, <1>9, TruthKept
<1> QED BY <1>1, <1>4, <1>5, <1>6, <1>10

\* CompleteFails: the owner is gone and its row stays as it is.
LEMMA CompleteFailsInv ==
  ASSUME IdInv, NEW g \in Goroutines, CompleteFails(g)
  PROVE  IdInv'
<1> USE DEF IdInv
<1>1. pc \in [Goroutines -> Steps] /\ pc[g] = "complete"
      /\ pc' = [pc EXCEPT ![g] = "reply"]
      /\ UNCHANGED <<keys, req, gone, reply, executed, answers>>
  BY DEF TypeOK, CompleteFails, At
<1>2. TypeOK'
  BY <1>1 DEF TypeOK, Steps
<1>3. Ownership' /\ Executions' /\ Advance
  BY <1>1 DEF Ownership, Owns, Executions, Advance
<1>4. Truth'
  BY <1>1, <1>3, TruthKept
<1> QED BY <1>1, <1>2, <1>3, <1>4

\* Reply: the client receives what was prepared.
LEMMA ReplyInv ==
  ASSUME IdInv, NEW g \in Goroutines, Reply(g)
  PROVE  IdInv'
<1> USE DEF IdInv
<1> DEFINE x == [request |-> req[g], answer |-> reply[g]]
<1>1. /\ pc \in [Goroutines -> Steps] /\ pc[g] = "reply"
      /\ pc' = [pc EXCEPT ![g] = "idle"]
      /\ req' = [req EXCEPT ![g] = NoRequest]
      /\ gone' = [gone EXCEPT ![g] = FALSE]
      /\ reply' = [reply EXCEPT ![g] = NoAnswer]
      /\ UNCHANGED <<keys, executed>>
  BY DEF TypeOK, Reply, Idle, At, Prepare
<1>2. answers' = answers \/ answers' = answers \cup {x}
  BY DEF Reply
<1>3. x \in [request : Requests, answer : Replies] /\ NoAnswer \in Replies
  BY <1>1 DEF TypeOK, NoAnswer, Answer, Replies
<1>4. TypeOK' /\ req' \in [Goroutines -> Requests \cup {NoRequest}]
  <2>1. answers' \subseteq [request : Requests, answer : Replies]
    BY <1>2, <1>3 DEF TypeOK
  <2>2. pc' \in [Goroutines -> Steps] /\ gone' \in [Goroutines -> BOOLEAN]
        /\ reply' \in [Goroutines -> Replies]
    BY <1>1, <1>3 DEF TypeOK, Steps
  <2>3. \A h \in Goroutines : IF pc'[h] = "idle" THEN req'[h] = NoRequest
                              ELSE req'[h] \in Requests
    BY <1>1 DEF TypeOK
  <2> QED BY <1>1, <2>1, <2>2, <2>3 DEF TypeOK
<1>5. Ownership' /\ Executions' /\ Advance
  BY <1>1 DEF Ownership, Owns, Executions, Advance
<1>6. ASSUME NEW y \in answers', y \notin answers
      PROVE  Truthful(y.request.key, y.request.payload, y.answer.status, y.answer.body)'
  <2>1. y = x
    BY <1>2, <1>6
  <2>2. Truthful(y.request.key, y.request.payload, y.answer.status, y.answer.body)
    BY <1>1, <2>1 DEF Truth
  <2> QED BY <1>5, <2>2, TruthfulStays
<1>7. Truth'
  BY <1>1, <1>5, <1>6, TruthKept
<1> QED BY <1>4, <1>5, <1>7

\* Disconnect only takes note.
LEMMA DisconnectInv ==
  ASSUME IdInv, NEW g \in Goroutines, Disconnect(g)
  PROVE  IdInv'
<1> USE DEF IdInv
<1>1. UNCHANGED <<keys, pc, req, reply, executed, answers>>
  BY DEF Disconnect
<1>2. TypeOK'
  BY DEF TypeOK, Disconnect
<1>3. Ownership' /\ Executions' /\ Advance
  BY <1>1 DEF Ownership, Owns, Executions, Advance
<1>4. Truth'
  BY <1>1, <1>3, TruthKept
<1> QED BY <1>1, <1>2, <1>3, <1>4

\* Crash: no owner is left, the rows are.
LEMMA CrashInv ==
  ASSUME IdInv, Crash
  PROVE  IdInv'
<1> USE DEF IdInv
<1>1. /\ pc' = [g \in Goroutines |-> "idle"] /\ req' = [g \in Goroutines |-> NoRequest]
      /\ gone' = [g \in Goroutines |-> FALSE] /\ reply' = [g \in Goroutines |-> NoAnswer]
      /\ UNCHANGED <<keys, executed, answers>>
  BY DEF Crash
<1>2. TypeOK' /\ req' \in [Goroutines -> Requests \cup {NoRequest}]
  BY <1>1 DEF TypeOK, Steps, NoAnswer, Answer, Replies
<1>3. Ownership' /\ Executions' /\ Advance
  BY <1>1 DEF Ownership, Owns, Executions, Advance
<1>4. Truth'
  BY <1>1, <1>3, TruthKept
<1> QED BY <1>2, <1>3, <1>4

\* Nothing changes.
LEMMA StutterInv ==
  ASSUME IdInv, UNCHANGED vars
  PROVE  IdInv'
BY DEF IdInv, TypeOK, Ownership, Owns, Executions, Truth, Truthful, Hopeless, vars

-----------------------------------------------------------------------------
(***************************************************************************)
(* Theorems                                                                *)
(***************************************************************************)
\* One owner per key, one effect with the payload it reserved, and only answers that
\* are true and stay so: the inductive invariant of the middleware.
THEOREM IdempotencyInvariant == Spec => []IdInv
<1>1. Init => IdInv
  <2> SUFFICES ASSUME Init PROVE IdInv
    OBVIOUS
  <2>1. TypeOK /\ req \in [Goroutines -> Requests \cup {NoRequest}]
    BY DEF Init, TypeOK, Steps, NoAnswer, Answer, Replies
  <2>2. Ownership
    BY DEF Init, Ownership, Owns
  <2>3. Executions
    BY FS_EmptySet DEF Init, Executions
  <2>4. Truth
    BY DEF Init, Truth
  <2> QED BY <2>1, <2>2, <2>3, <2>4 DEF IdInv
<1>2. IdInv /\ [Next]_vars => IdInv'
  <2> SUFFICES ASSUME IdInv, [Next]_vars PROVE IdInv'
    OBVIOUS
  <2>1. CASE \E k \in Keys, p \in Payloads : Send(k, p)
    BY <2>1, ReceiveInv DEF Send
  <2>2. ASSUME NEW g \in Goroutines, Serve(g) PROVE IdInv'
    BY <2>2, InsertInv, SelectInv, ReserveFailsInv, CommandInv, CompleteInv,
       CompleteFailsInv, ReplyInv DEF Serve
  <2>3. ASSUME NEW g \in Goroutines, Disconnect(g) PROVE IdInv'
    BY <2>3, DisconnectInv
  <2>4. CASE Crash
    BY <2>4, CrashInv
  <2>5. CASE UNCHANGED vars
    BY <2>5, StutterInv
  <2> QED BY <2>1, <2>2, <2>3, <2>4, <2>5 DEF Next
<1> QED BY <1>1, <1>2, PTL DEF Spec

\* The variables of Idempotency hold what they should, through every fault.
THEOREM IdempotencyTypeOK == Spec => []TypeOK
<1>1. IdInv => TypeOK
  BY DEF IdInv
<1> QED BY <1>1, IdempotencyInvariant, PTL

\* Simultaneous requests with one key, retries, failures and crashes: a key stands
\* for one effect at most.
THEOREM KeysExecuteOnce == Spec => []OneExecution
<1>1. IdInv => OneExecution
  <2> SUFFICES ASSUME IdInv, NEW k \in Keys
               PROVE  Cardinality({x \in executed : x.key = k}) <= 1
    BY DEF OneExecution
  <2> DEFINE S == {x \in executed : x.key = k}
  <2>1. \A e, f \in S : e = f
    BY DEF IdInv, Executions
  <2> HIDE DEF S
  <2>2. Cardinality(S) <= 1
    BY <2>1, AtMostOne
  <2> QED BY <2>2 DEF S
<1> QED BY <1>1, IdempotencyInvariant, PTL

\* A success a client received was executed with its payload and the id it was told;
\* what it was refused was not executed and never is.
THEOREM ClientsAreToldTheTruth == Spec => []AnswersTrue
<1>1. IdInv => AnswersTrue
  <2> SUFFICES ASSUME IdInv, NEW x \in answers
               PROVE  /\ x.answer.status \in 200 .. 202 =>
                           [key |-> x.request.key, payload |-> x.request.payload,
                            body |-> x.answer.body] \in executed
                      /\ x.answer.status \in {400, 404, 422} =>
                           \A e \in executed :
                             e # [key |-> x.request.key, payload |-> x.request.payload,
                                  body |-> e.body]
    BY DEF AnswersTrue
  <2>1. Truthful(x.request.key, x.request.payload, x.answer.status, x.answer.body)
    BY DEF IdInv, Truth
  <2> QED BY <2>1 DEF Truthful, Hopeless
<1> QED BY <1>1, IdempotencyInvariant, PTL

\* An answer that Complete stored is replayed as it is for ever.
THEOREM StoredAnswersNeverChange == Spec => StoredAnswersStay
<1> DEFINE Stays == \A k \in DOMAIN keys :
             keys[k].status # Processing => k \in DOMAIN keys' /\ keys'[k] = keys[k]
<1>1. IdInv /\ [Next]_vars => [Stays]_vars
  <2> SUFFICES ASSUME IdInv, Next,
                      NEW k \in DOMAIN keys, keys[k].status # Processing
               PROVE  k \in DOMAIN keys' /\ keys'[k] = keys[k]
    OBVIOUS
  <2>1. CASE UNCHANGED keys
    BY <2>1
  <2>2. ASSUME NEW g \in Goroutines, pc[g] = "insert", req[g].key \notin DOMAIN keys,
               keys' = Reserved(req[g].key, req[g].payload)
        PROVE  k \in DOMAIN keys' /\ keys'[k] = keys[k]
    BY <2>2, ReservedRow
  <2>3. ASSUME NEW g \in Goroutines, Complete(g)
        PROVE  k \in DOMAIN keys' /\ keys'[k] = keys[k]
    <3>1. Owns(g)
      BY <2>3 DEF Complete, Owns
    <3>2. req[g].key # k
      BY <3>1 DEF IdInv, Ownership
    <3> QED BY <2>3, <3>2 DEF Complete
  <2> QED BY <2>1, <2>2, <2>3
          DEF Next, Send, Receive, Serve, Insert, Select, ReserveFails, Succeed, Refuse,
              Break, CompleteFails, Reply, Disconnect, Crash
<1> QED BY <1>1, IdempotencyInvariant, PTL DEF Spec, StoredAnswersStay
=============================================================================

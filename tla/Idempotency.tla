----------------------------- MODULE Idempotency -----------------------------
(***************************************************************************)
(* The Idempotency-Key protocol of internal/api: the middleware idempotent *)
(* around the command handlers, over the table idempotency_keys.           *)
(*                                                                         *)
(* A goroutine per request reserves the key, runs the command and stores   *)
(* the answer.  Requests with one key may overlap, their clients may hang  *)
(* up, which cancels the context of every later call, queries may fail and *)
(* the process may die.  net/http holds an answer this small back until    *)
(* the middleware returns.  A command is one step: it has its effect or    *)
(* not, and CommandSide tells when.  Keys are valid; a malformed one is    *)
(* refused before anything happens.                                        *)
(***************************************************************************)
EXTENDS Naturals, FiniteSets

CONSTANTS
  Goroutines,   \* requests in progress at a time
  Keys,         \* Idempotency-Keys
  Payloads,     \* requests: a route and what else hashRequest tells apart
  NoRequest,    \* a goroutine without request
  Outcomes,     \* errors of the commands that occur
  Faults        \* what may go wrong around them

\* Deposits and withdrawals share a handler.
Routes == {"POST /accounts", "POST movement", "POST /transfers"}

ASSUME IdempotencyAssumption ==
  /\ Payloads \subseteq [route : Routes, body : Nat]
  /\ Faults \subseteq {"disconnect", "database", "crash"}

VARIABLES
  keys,       \* table idempotency_keys: the rows there are
  pc,         \* next call of each goroutine
  req,        \* its request: key and payload
  gone,       \* has its client hung up?
  reply,      \* the answer it is about to send
  executed,   \* auxiliary: commands that took effect, with the id they made up
  answers     \* auxiliary: what clients have received

vars == <<keys, pc, req, gone, reply, executed, answers>>

Steps == {"idle", "insert", "select", "execute", "complete", "reply"}

\* The body tells executions apart: 0 is an error's.
Answer(status, body) == [status |-> status, body |-> body]

NoAnswer == Answer(0, 0)

Processing == 0

\* Two hashes are equal when method, path and body are.
hashRequest(payload) == payload

-----------------------------------------------------------------------------
(***************************************************************************)
(* The handlers: the status of a success and the errors there are.         *)
(***************************************************************************)
AnyCommand == {"invalid JSON", "ErrInvalidAmount", "ErrAmountTooLarge", "internal",
               "DeadlineExceeded"}

handleOpenAccount ==
  [success |-> 201, errors |-> AnyCommand \cup {"ErrOwnerRequired"}]

handleMovement ==
  [success |-> 200,
   errors  |-> AnyCommand \cup {"ErrAccountNotFound", "ErrAccountClosed",
                                "ErrInsufficientFunds", "ErrTooManyConflicts"}]

handleTransfer ==
  [success |-> 202, errors |-> handleMovement.errors \cup {"ErrSameAccount"}]

Handler(payload) ==
  CASE payload.route = "POST /accounts"  -> handleOpenAccount
    [] payload.route = "POST movement"   -> handleMovement
    [] payload.route = "POST /transfers" -> handleTransfer

writeError(err) ==
  CASE err = "ErrAccountNotFound"    -> Answer(404, 0)
    [] err = "ErrInsufficientFunds"  -> Answer(422, 0)
    [] err \in {"ErrInvalidAmount", "ErrOwnerRequired", "ErrSameAccount",
                "ErrAmountTooLarge", "invalid JSON"} -> Answer(400, 0)
    [] err \in {"ErrAccountClosed", "ErrTooManyConflicts"} -> Answer(409, 0)
    [] err = "DeadlineExceeded"      -> Answer(504, 0)
    [] OTHER                         -> Answer(500, 0)

\* Mutant: the hash of the request is not compared.
AnswerFromKeyOnly(rec, payload) ==
  IF rec.status = Processing THEN Answer(409, 0)
  ELSE Answer(rec.status, rec.body)

\* The three ways to answer a key that exists.
AnswerFrom(rec, payload) ==
  CASE rec.hash # hashRequest(payload) -> Answer(422, 0)
    [] rec.hash = hashRequest(payload) /\ rec.status = Processing
         -> Answer(409, 0)
    [] OTHER -> Answer(rec.status, rec.body)

-----------------------------------------------------------------------------
Init ==
  /\ keys = [k \in {} |-> NoAnswer]
  /\ pc = [g \in Goroutines |-> "idle"]
  /\ req = [g \in Goroutines |-> NoRequest]
  /\ gone = [g \in Goroutines |-> FALSE]
  /\ reply = [g \in Goroutines |-> NoAnswer]
  /\ executed = {} /\ answers = {}

At(g, s) == pc' = [pc EXCEPT ![g] = s]

Prepare(g, answer) == reply' = [reply EXCEPT ![g] = answer]

\* A call may fail when its context is cancelled or the database does.
CallFails(g) == gone[g] \/ "database" \in Faults

\* A client sends a request, for the first time or again.
Receive(g, k, payload) ==
  /\ pc[g] = "idle"
  /\ At(g, "insert")
  /\ req' = [req EXCEPT ![g] = [key |-> k, payload |-> payload]]
  /\ UNCHANGED <<keys, gone, reply, executed, answers>>

\* Mutant: the row is inserted without the hash.
ReservedWithoutHash(k, payload) ==
  [x \in DOMAIN keys \cup {k} |->
     IF x = k THEN [hash |-> NoRequest, status |-> Processing, body |-> 0] ELSE keys[x]]

Reserved(k, payload) ==
  [x \in DOMAIN keys \cup {k} |->
     IF x = k THEN [hash |-> hashRequest(payload), status |-> Processing, body |-> 0]
     ELSE keys[x]]

\* Mutant: RowsAffected is not looked at.
InsertWithoutLooking(g) ==
  /\ pc[g] = "insert" /\ ~gone[g]
  /\ keys' = IF req[g].key \in DOMAIN keys THEN keys
             ELSE Reserved(req[g].key, req[g].payload)
  /\ At(g, "execute")
  /\ UNCHANGED <<req, gone, reply, executed, answers>>

\* Reserve: INSERT ... ON CONFLICT DO NOTHING tells one request that it is the owner.
Insert(g) ==
  /\ pc[g] = "insert" /\ ~gone[g]
  /\ \/ /\ req[g].key \notin DOMAIN keys
        /\ keys' = Reserved(req[g].key, req[g].payload)
        /\ At(g, "execute")
     \/ /\ req[g].key \in DOMAIN keys
        /\ At(g, "select")
        /\ UNCHANGED keys
  /\ UNCHANGED <<req, gone, reply, executed, answers>>

\* The row is there: nothing deletes keys.
Select(g) ==
  /\ pc[g] = "select" /\ ~gone[g]
  /\ Prepare(g, AnswerFrom(keys[req[g].key], req[g].payload))
  /\ At(g, "reply")
  /\ UNCHANGED <<keys, req, gone, executed, answers>>

\* Reserve returns an error, and the INSERT may have happened all the same.
ReserveFails(g) ==
  /\ pc[g] \in {"insert", "select"} /\ CallFails(g)
  /\ Prepare(g, writeError("internal"))
  /\ At(g, "reply")
  /\ \/ UNCHANGED keys
     \/ /\ pc[g] = "insert" /\ req[g].key \notin DOMAIN keys
        /\ keys' = Reserved(req[g].key, req[g].payload)
  /\ UNCHANGED <<req, gone, executed, answers>>

\* The command takes effect and makes up an id.
Effect(g) == [key |-> req[g].key, payload |-> req[g].payload,
              body |-> Cardinality(executed) + 1]

Succeed(g) ==
  /\ pc[g] = "execute" /\ ~gone[g]
  /\ executed' = executed \cup {Effect(g)}
  /\ Prepare(g, Answer(Handler(req[g].payload).success, Effect(g).body))
  /\ At(g, "complete")
  /\ UNCHANGED <<keys, req, gone, answers>>

\* The command is refused, or gives up after too many conflicts.
Refuse(g, err) ==
  /\ pc[g] = "execute" /\ ~gone[g]
  /\ err \in Handler(req[g].payload).errors \ {"internal", "DeadlineExceeded"}
  /\ Prepare(g, writeError(err))
  /\ At(g, "complete")
  /\ UNCHANGED <<keys, req, gone, executed, answers>>

\* A call of the command fails, with the commit done or not.
Break(g, err) ==
  /\ pc[g] = "execute" /\ CallFails(g)
  /\ err \in {"internal", "DeadlineExceeded"}
  /\ executed' \in {executed, executed \cup {Effect(g)}}
  /\ Prepare(g, writeError(err))
  /\ At(g, "complete")
  /\ UNCHANGED <<keys, req, gone, answers>>

Complete(g) ==
  /\ pc[g] = "complete" /\ ~gone[g]
  /\ keys' = [keys EXCEPT ![req[g].key].status = reply[g].status,
                          ![req[g].key].body   = reply[g].body]
  /\ At(g, "reply")
  /\ UNCHANGED <<req, gone, reply, executed, answers>>

\* "idempotency complete failed" is only logged.
CompleteFails(g) ==
  /\ pc[g] = "complete" /\ CallFails(g)
  /\ At(g, "reply")
  /\ UNCHANGED <<keys, req, gone, reply, executed, answers>>

Idle(g) ==
  /\ At(g, "idle")
  /\ req' = [req EXCEPT ![g] = NoRequest]
  /\ gone' = [gone EXCEPT ![g] = FALSE]
  /\ Prepare(g, NoAnswer)

\* The middleware returns; the client gets the answer if it is still there.
Reply(g) ==
  /\ pc[g] = "reply"
  /\ answers' = IF gone[g] THEN answers
                ELSE answers \cup {[request |-> req[g], answer |-> reply[g]]}
  /\ Idle(g)
  /\ UNCHANGED <<keys, executed>>

Disconnect(g) ==
  /\ "disconnect" \in Faults
  /\ pc[g] # "idle" /\ ~gone[g]
  /\ gone' = [gone EXCEPT ![g] = TRUE]
  /\ UNCHANGED <<keys, pc, req, reply, executed, answers>>

\* The process dies and starts again; requests in progress are cut.
Crash ==
  /\ "crash" \in Faults
  /\ \E g \in Goroutines : pc[g] # "idle"
  /\ pc' = [g \in Goroutines |-> "idle"]
  /\ req' = [g \in Goroutines |-> NoRequest]
  /\ gone' = [g \in Goroutines |-> FALSE]
  /\ reply' = [g \in Goroutines |-> NoAnswer]
  /\ UNCHANGED <<keys, executed, answers>>

-----------------------------------------------------------------------------
Serve(g) ==
  \/ Insert(g) \/ Select(g) \/ ReserveFails(g) \/ Succeed(g)
  \/ Complete(g) \/ CompleteFails(g) \/ Reply(g)
  \/ \E err \in Outcomes : Refuse(g, err) \/ Break(g, err)

Send(k, payload) == \E g \in Goroutines : Receive(g, k, payload)

Next ==
  \/ \E k \in Keys, p \in Payloads : Send(k, p)
  \/ \E g \in Goroutines : Serve(g) \/ Disconnect(g)
  \/ Crash

Spec == Init /\ [][Next]_vars

\* Handlers run on, clients repeat their requests for ever, and a command that is
\* run again and again succeeds some day.
FairSpec ==
  /\ Spec
  /\ \A g \in Goroutines : WF_vars(Serve(g))
  /\ \A k \in Keys, p \in Payloads :
       /\ SF_vars(Send(k, p))
       /\ SF_vars(\E g \in Goroutines : req[g] = [key |-> k, payload |-> p] /\ Succeed(g))

-----------------------------------------------------------------------------
(***************************************************************************)
(* Properties                                                              *)
(***************************************************************************)
Requests == [key : Keys, payload : Payloads]
Replies  == [status : Nat, body : Nat]

\* What each variable holds.
TypeOK ==
  /\ DOMAIN keys \subseteq Keys
  /\ \A k \in DOMAIN keys : keys[k] \in [hash : Payloads, status : Nat, body : Nat]
  /\ pc \in [Goroutines -> Steps]
  /\ \A g \in Goroutines : IF pc[g] = "idle" THEN req[g] = NoRequest
                             ELSE req[g] \in Requests
  /\ gone \in [Goroutines -> BOOLEAN]
  /\ reply \in [Goroutines -> Replies]
  /\ executed \subseteq [key : Keys, payload : Payloads, body : Nat]
  /\ answers \subseteq [request : Requests, answer : Replies]

\* "requests simultâneos com a mesma chave não executam duas vezes": a key stands
\* for one effect at most, whatever overlaps, is repeated, fails or dies.
OneExecution ==
  \A k \in Keys : Cardinality({x \in executed : x.key = k}) <= 1

\* Answers are true of the request they answer: a success was executed, once, with
\* this payload and the id in the body; what was refused (4xx but 409) was not
\* executed and never will be, even if the client sends it again.
AnswersTrue ==
  \A x \in answers :
    LET effect(b) == [key |-> x.request.key, payload |-> x.request.payload, body |-> b]
    IN  /\ x.answer.status \in 200 .. 202 => effect(x.answer.body) \in executed
        /\ x.answer.status \in {400, 404, 422} =>
             \A e \in executed : e # effect(e.body)

\* "Replays futuros devolvem a resposta original": a stored answer never changes.
StoredAnswersStay ==
  [][\A k \in DOMAIN keys :
       keys[k].status # Processing => k \in DOMAIN keys' /\ keys'[k] = keys[k]]_vars

\* The 409 of a key being processed and the 409 of too many conflicts both ask the
\* client to try again.  A client that does, with the same key and payload, is not
\* put off for ever: again and again it gets another answer, if clients in the end
\* wait for theirs.
RetriesAreAnswered ==
  <>[](\A g \in Goroutines : ~gone[g]) =>
    \A q \in Requests :
      []<>(\E g \in Goroutines :
             pc[g] = "reply" /\ req[g] = q /\ reply[g].status # 409)
=============================================================================

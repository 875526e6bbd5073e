----------------------------- MODULE AtomicLedger -----------------------------
(***************************************************************************)
(* What the command side promises its callers: a bank in which every       *)
(* command takes effect at one instant between its call and its return, on *)
(* the balances of that instant, or is refused by the rules that hold at   *)
(* such an instant, or fails.  There are no streams, versions, snapshots   *)
(* or retries here.                                                        *)
(*                                                                         *)
(* A technical failure leaves it open whether the command took effect: the *)
(* answer to a COMMIT can be lost.  A success or a business error does not.*)
(***************************************************************************)
EXTENDS Integers

CONSTANTS Procs, Requests, AccountIds, NoRequest, MaxOperationAmount

VARIABLES
  opened,       \* accounts that exist
  balance,      \* the money in each of them
  transfers,    \* <<"debit", t>> and so on: what was done of each transfer
  request,      \* the command each caller waits for
  phase,        \* "idle", "called", or "applied" once it took effect
  reply         \* the answer to the last command

ledger == <<opened, balance, transfers>>
vars == <<request, phase, reply, ledger>>

Init ==
  /\ opened = {}
  /\ balance = [a \in AccountIds |-> 0]
  /\ transfers = {}
  /\ request = [p \in Procs |-> NoRequest]
  /\ phase = [p \in Procs |-> "idle"]
  /\ reply = [p \in Procs |-> "none"]

\* The rules, on the current balances: a business error, or "nil".
Verdict(c) ==
  IF c.op # "open" /\ c.account \notin opened THEN "ErrAccountNotFound"
  ELSE IF c.amount < 0 \/ (c.op # "open" /\ c.amount = 0) THEN "ErrInvalidAmount"
  ELSE IF c.op = "open" /\ ~c.owner THEN "ErrOwnerRequired"
  ELSE IF c.op # "reverse" /\ c.amount > MaxOperationAmount THEN "ErrAmountTooLarge"
  ELSE IF c.op = "debit" /\ c.account = c.peer THEN "ErrSameAccount"
  ELSE IF c.op \in {"withdraw", "debit"} /\ balance[c.account] < c.amount
  THEN "ErrInsufficientFunds"
  ELSE "nil"

\* What must not happen twice, and what must have happened before.
Permitted(c) ==
  /\ c.op = "open" => c.account \notin opened
  /\ <<c.op, c.transfer_id>> \notin transfers
  /\ c.op \in {"credit", "reverse"} => <<"debit", c.transfer_id>> \in transfers

Added(c) == IF c.op \in {"withdraw", "debit"} THEN -c.amount ELSE c.amount

Effect(c) ==
  /\ Verdict(c) = "nil"
  /\ Permitted(c)
  /\ opened' = IF c.op = "open" THEN opened \cup {c.account} ELSE opened
  /\ balance' = [balance EXCEPT ![c.account] = @ + Added(c)]
  /\ transfers' = transfers \cup
       ({"debit", "credit", "reverse"} \cap {c.op}) \X {c.transfer_id}

Answer(p, r) == reply' = [reply EXCEPT ![p] = r]

Invoke(p) ==
  /\ phase[p] = "idle"
  /\ phase' = [phase EXCEPT ![p] = "called"]
  /\ \E c \in Requests : request' = [request EXCEPT ![p] = c]
  /\ reply' = [reply EXCEPT ![p] = "none"]
  /\ UNCHANGED ledger

TakeEffect(p) ==
  /\ phase[p] = "called"
  /\ phase' = [phase EXCEPT ![p] = "applied"]
  /\ UNCHANGED <<request, reply>>
  /\ Effect(request[p])

Acknowledge(p) ==
  /\ phase[p] = "applied"
  /\ Answer(p, "nil")
  /\ UNCHANGED ledger

\* The settlement happened earlier: nothing is left to do.
AlreadyDone(p) ==
  /\ phase[p] = "called"
  /\ Answer(p, "nil")
  /\ request[p].op \in {"credit", "reverse"}
  /\ <<request[p].op, request[p].transfer_id>> \in transfers
  /\ UNCHANGED ledger

Reject(p) ==
  /\ phase[p] = "called"
  /\ Answer(p, Verdict(request[p]))
  /\ Verdict(request[p]) # "nil"
  /\ UNCHANGED ledger

GiveUp(p) ==
  /\ phase[p] = "called"
  /\ \E r \in {"error", "ErrTooManyConflicts"} : Answer(p, r)
  /\ UNCHANGED ledger

LoseReply(p) ==
  /\ phase[p] = "called"
  /\ Answer(p, "error")
  /\ Effect(request[p])

Return(p) ==
  /\ phase[p] # "idle"
  /\ phase' = [phase EXCEPT ![p] = "idle"]
  /\ request' = [request EXCEPT ![p] = NoRequest]
  /\ Acknowledge(p) \/ GiveUp(p) \/ LoseReply(p) \/ AlreadyDone(p) \/ Reject(p)

Crash ==
  /\ request' = [p \in Procs |-> NoRequest]
  /\ phase' = [p \in Procs |-> "idle"]
  /\ reply' = [p \in Procs |-> "none"]
  /\ UNCHANGED ledger

Next ==
  \/ \E p \in Procs : Invoke(p) \/ TakeEffect(p) \/ Return(p)
  \/ Crash

Spec == Init /\ [][Next]_vars
=============================================================================

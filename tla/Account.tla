------------------------------- MODULE Account -------------------------------
(***************************************************************************)
(* The account aggregate of internal/domain: its events, the replay that   *)
(* rebuilds its state from them, and the decisions that turn a command     *)
(* into an event or a business error.  Pure operators, no state.           *)
(*                                                                         *)
(* Owners' names, descriptions, reasons and times are left out: no         *)
(* decision depends on them.  Whether the owner is blank is kept.          *)
(***************************************************************************)
EXTENDS Integers, Sequences

CONSTANTS
  AccountIds,           \* account ids a request may mention, opened or not
  TransferIds,          \* ids that StartTransfer may draw
  NoId,                 \* the empty string: no account, no transfer
  MaxOperationAmount    \* limit of one operation, in cents

ASSUME AccountAssumption ==
  /\ NoId \notin AccountIds
  /\ NoId \notin TransferIds
  /\ MaxOperationAmount \in Nat

EventTypes == {"account.opened", "money.deposited", "money.withdrawn",
               "transfer.debited", "transfer.credited", "transfer.reversed"}

\* The envelope with the fields of the six payloads merged; peer is the To of
\* a debit and the From of a credit.
Event == [aggregate_id : AccountIds, version : Nat, type : EventTypes,
          amount : Nat, transfer_id : TransferIds \cup {NoId},
          peer : AccountIds \cup {NoId}]

NewEvent(id, version, type, amount, transferID, peer) ==
  [aggregate_id |-> id, version |-> version, type |-> type,
   amount |-> amount, transfer_id |-> transferID, peer |-> peer]

AccountState == [id : AccountIds \cup {NoId}, balance : Int, open : BOOLEAN,
                 version : Nat]

\* domain.Account{}: the zero value every full replay starts from.
EmptyAccount == [id |-> NoId, balance |-> 0, open |-> FALSE, version |-> 0]

-----------------------------------------------------------------------------
(***************************************************************************)
(* Apply and Replay                                                        *)
(***************************************************************************)
\* What an event adds to the balance.
Delta(e) ==
  CASE e.type \in {"money.deposited", "transfer.credited", "transfer.reversed"}
         -> e.amount
    [] e.type \in {"money.withdrawn", "transfer.debited"} -> -e.amount
    [] OTHER -> 0

Apply(a, e) ==
  [a EXCEPT !.id      = IF e.type = "account.opened" THEN e.aggregate_id ELSE @,
            !.balance = @ + Delta(e),
            !.open    = @ \/ e.type = "account.opened",
            !.version = e.version]

\* Rows of one stream are a function from versions to events.  The loop of
\* Replay takes them in version order; Accumulated(base, rows)[n] is its
\* variable a once every row up to version n has been applied.
Accumulated(base, rows) ==
  LET after[n \in Nat] ==
        IF n = 0 THEN base
        ELSE IF n \in DOMAIN rows THEN Apply(after[n - 1], rows[n])
        ELSE after[n - 1]
  IN  after

LastVersion(rows) ==
  IF DOMAIN rows = {} THEN 0
  ELSE CHOOSE v \in DOMAIN rows : \A w \in DOMAIN rows : w <= v

Replay(base, rows) == Accumulated(base, rows)[LastVersion(rows)]

-----------------------------------------------------------------------------
(***************************************************************************)
(* Decisions: [err, event], err = "nil" when the command is accepted.      *)
(***************************************************************************)
NoEvent == NewEvent(NoId, 0, "account.opened", 0, NoId, NoId)

Accept(e)   == [err |-> "nil", event |-> e]
Refuse(err) == [err |-> err, event |-> NoEvent]

BusinessErrors == {"ErrAccountNotFound", "ErrAccountClosed", "ErrInvalidAmount",
                   "ErrAmountTooLarge", "ErrInsufficientFunds",
                   "ErrSameAccount", "ErrOwnerRequired"}

guard(a, amount) ==
  IF a.id = NoId THEN "ErrAccountNotFound"
  ELSE IF ~a.open THEN "ErrAccountClosed"
  ELSE IF amount <= 0 THEN "ErrInvalidAmount"
  ELSE IF amount > MaxOperationAmount THEN "ErrAmountTooLarge"
  ELSE "nil"

\* owner is FALSE when the name is blank after TrimSpace.
OpenAccount(id, owner) ==
  IF ~owner THEN Refuse("ErrOwnerRequired")
  ELSE Accept(NewEvent(id, 1, "account.opened", 0, NoId, NoId))

Deposit(a, amount) ==
  IF guard(a, amount) # "nil" THEN Refuse(guard(a, amount))
  ELSE Accept(NewEvent(a.id, a.version + 1, "money.deposited",
                       amount, NoId, NoId))

Withdraw(a, amount) ==
  IF guard(a, amount) # "nil" THEN Refuse(guard(a, amount))
  ELSE IF a.balance < amount THEN Refuse("ErrInsufficientFunds")
  ELSE Accept(NewEvent(a.id, a.version + 1, "money.withdrawn",
                       amount, NoId, NoId))

DebitTransfer(a, transferID, to, amount) ==
  IF guard(a, amount) # "nil" THEN Refuse(guard(a, amount))
  ELSE IF a.id = to THEN Refuse("ErrSameAccount")
  ELSE IF a.balance < amount THEN Refuse("ErrInsufficientFunds")
  ELSE Accept(NewEvent(a.id, a.version + 1, "transfer.debited",
                       amount, transferID, to))

CreditTransfer(a, transferID, from, amount) ==
  IF guard(a, amount) # "nil" THEN Refuse(guard(a, amount))
  ELSE Accept(NewEvent(a.id, a.version + 1, "transfer.credited",
                       amount, transferID, from))

ReverseTransfer(a, transferID, amount) ==
  IF amount <= 0 THEN Refuse("ErrInvalidAmount")
  ELSE IF a.id = NoId THEN Refuse("ErrAccountNotFound")
  ELSE Accept(NewEvent(a.id, a.version + 1, "transfer.reversed",
                       amount, transferID, NoId))
=============================================================================

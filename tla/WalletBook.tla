----------------------------- MODULE WalletBook -----------------------------
(***************************************************************************)
(* What the service promises, without transactions, locks, retries, ledger *)
(* or clock: a book of balances in which every operation takes effect in   *)
(* one step, at most once, and a reversal is the exact opposite of the one *)
(* operation it names.                                                     *)
(***************************************************************************)
EXTENDS Integers

CONSTANTS
    Requests,       \* submissions of a command
    Command,        \* the command each of them carries
    Wallets,
    Opening,        \* balance a wallet is opened with
    Money,          \* the balances there are
    NoRef, None     \* a command without a reference; no request

VARIABLES
    opened,         \* the wallets there are
    balance,        \* of each wallet
    fate,           \* what has become of each request
    effect,         \* what each request has added to its wallet
    undoes          \* which request it has undone

vars == << opened, balance, fate, effect, undoes >>

Init ==
    /\ opened = {}
    /\ balance = [w \in Wallets |-> 0]
    /\ fate = [t \in Requests |-> "NONE"]
    /\ effect = [t \in Requests |-> 0]
    /\ undoes = [t \in Requests |-> None]

(* One operation, sent again or sent under a name already in use. *)
SameOperation(t, u) ==
    /\ Command[t].provider = Command[u].provider
    /\ Command[t].ext = Command[u].ext \/ Command[t].key = Command[u].key

(* t is not decided: it waits, or nothing is known of it nor of its like. *)
Open(t) ==
    /\ Command[t].wallet \in opened
    /\ \/ fate[t] = "PENDING_REFERENCE"
       \/ \A u \in Requests : SameOperation(t, u) => fate[u] = "NONE"

(* t names the operation u of its own provider, player, wallet and round. *)
Names(t, u) ==
    /\ Command[t].ref = Command[u].ext
    /\ Command[t].provider = Command[u].provider /\ Command[t].player = Command[u].player
    /\ Command[t].wallet = Command[u].wallet     /\ Command[t].round = Command[u].round
    /\ Command[t].currency = Command[u].currency

(* A refund undoes a bet; a rollback a bet, a win or a refund. *)
MayUndo(kind, other) ==
    \/ kind = "REFUND" /\ other = "BET"
    \/ kind = "ROLLBACK" /\ other \in {"BET", "WIN", "REFUND"}

(* t is processed and adds e to its wallet; u is what it undoes. *)
Enter(t, e, u) ==
    LET w == Command[t].wallet IN
    /\ Open(t)
    /\ balance[w] + e \in Money
    /\ balance' = [balance EXCEPT ![w] = @ + e]
    /\ fate' = [fate EXCEPT ![t] = "PROCESSED"]
    /\ effect' = [effect EXCEPT ![t] = e]
    /\ undoes' = [undoes EXCEPT ![t] = u]
    /\ UNCHANGED opened

OpenWallet(w) ==
    /\ w \notin opened
    /\ opened' = opened \cup {w}
    /\ balance' = [balance EXCEPT ![w] = Opening[w]]
    /\ UNCHANGED << fate, effect, undoes >>

Bet(t) == Command[t].kind = "BET" /\ Enter(t, -Command[t].amount, None)

(* A win that names a bet needs that bet to have been processed. *)
Win(t) ==
    /\ Command[t].kind = "WIN"
    /\ Command[t].ref # NoRef =>
          \E u \in Requests : Names(t, u) /\ Command[u].kind = "BET" /\ fate[u] = "PROCESSED"
    /\ Enter(t, Command[t].amount, None)

Loss(t) == Command[t].kind = "LOSS" /\ Enter(t, 0, None)

(* A reversal: the opposite of one processed operation nobody has undone. *)
Undo(t, u) ==
    /\ Names(t, u) /\ MayUndo(Command[t].kind, Command[u].kind)
    /\ Command[t].amount = Command[u].amount
    /\ fate[u] = "PROCESSED"
    /\ \A x \in Requests : undoes[x] # u
    /\ Enter(t, -effect[u], u)

(* An operation that waits, or is turned down, has no effect. *)
Stay(t, status) ==
    /\ Open(t)
    /\ fate' = [fate EXCEPT ![t] = status]
    /\ UNCHANGED << opened, balance, effect, undoes >>

(* Only an operation with a reference waits, and only one that has waited is
   given up.                                                               *)
Wait(t) == Command[t].ref # NoRef /\ Stay(t, "PENDING_REFERENCE")
Reject(t) == Stay(t, "REJECTED")
Fail(t) == fate[t] = "PENDING_REFERENCE" /\ Stay(t, "FAILED")

Next ==
    \/ \E w \in Wallets : OpenWallet(w)
    \/ \E t \in Requests : Bet(t) \/ Win(t) \/ Loss(t) \/ Wait(t) \/ Reject(t) \/ Fail(t)
    \/ \E t, u \in Requests : Undo(t, u)

Spec == Init /\ [][Next]_vars
=============================================================================

---------------------------- MODULE WagerDomain ----------------------------
(***************************************************************************)
(* The pure rules of the wager domain: which commands are well formed,     *)
(* which reference an operation may have, which way an operation moves the *)
(* wallet, and when a pending reference is tried again.  Everything here   *)
(* is an operator without state; WagerService applies them.                *)
(*                                                                         *)
(* Money is a natural number of cents, times are natural numbers, and      *)
(* identifiers are opaque values.                                          *)
(***************************************************************************)
EXTENDS Naturals, Integers

CONSTANTS
    Providers, Externals, Keys,     \* identifiers chosen by the providers
    Players, Currencies, Rounds,
    Wallets,                        \* wallet identifiers
    NoRef,                          \* "no reference": the empty string of the code
    MaxMoney,                       \* largest amount Money can hold
    InitialDelay, MaxDelay, TTL     \* ReferenceRetryPolicy

ASSUME MoneyAssumption == MaxMoney \in Nat
ASSUME PolicyAssumption ==
    /\ InitialDelay \in Nat \ {0}
    /\ MaxDelay \in Nat \ {0}
    /\ TTL \in Nat \ {0}
ASSUME NoRefAssumption == NoRef \notin Externals

Kinds == {"BET", "WIN", "LOSS", "REFUND", "ROLLBACK"}
Terminal == {"PROCESSED", "REJECTED", "FAILED"}
Statuses == {"PENDING_REFERENCE"} \cup Terminal

NoCode == "NONE"
FailureCodes ==
    { "BET_INSUFFICIENT_FUNDS", "REVERSAL_INSUFFICIENT_FUNDS",
      "REFERENCE_NOT_FOUND", "REFERENCE_NOT_PROCESSABLE",
      "REFERENCE_MISMATCH", "REFERENCE_TYPE_NOT_ALLOWED",
      "DUPLICATE_REVERSAL", "PROCESSING_FAILED" }

Money == 0 .. MaxMoney

(* A wager command as the transport hands it to the service, already parsed. *)
Commands ==
    [ provider : Providers, ext : Externals, key : Keys, wallet : Wallets,
      player : Players, currency : Currencies, round : Rounds,
      kind : Kinds, amount : Money, ref : Externals \cup {NoRef} ]

(* What the payload hash covers: every business field, the key excluded. *)
PayloadHash(c) ==
    << c.provider, c.ext, c.wallet, c.player, c.currency, c.round,
       c.kind, c.amount, c.ref >>

RequiresReference(kind) == kind \in {"REFUND", "ROLLBACK"}
AllowsReference(kind) == kind = "WIN" \/ RequiresReference(kind)

ValidWagerAmount(c) == IF c.kind = "LOSS" THEN c.amount = 0 ELSE c.amount > 0

ValidExternalReference(c) ==
    /\ RequiresReference(c.kind) => c.ref # NoRef
    /\ ~AllowsReference(c.kind) => c.ref = NoRef

(* validateExternalWager: the only commands that become transactions. *)
ValidExternalWager(c) ==
    ValidWagerAmount(c) /\ ValidExternalReference(c) /\ c.ref # c.ext

AllowedReferenceType(kind, refKind) ==
    \/ kind \in {"WIN", "REFUND"} /\ refKind = "BET"
    \/ kind = "ROLLBACK" /\ refKind \in {"BET", "WIN", "REFUND"}

(* Mutant: a reference of another player's wallet will do. *)
BugAnyPlayer(c, r) ==
    c.provider = r.provider /\ c.round = r.round /\ c.currency = r.currency

(* The reference belongs to the same provider, player, wallet and round. *)
SameDeal(c, r) ==
    /\ c.provider = r.provider /\ c.player = r.player
    /\ c.wallet = r.wallet     /\ c.round = r.round
    /\ c.currency = r.currency

(* A reversal must undo exactly the amount of what it reverses. *)
SameAmount(c, r) == RequiresReference(c.kind) => c.amount = r.amount

(* validateReference for a PROCESSED reference r of the command c: NoCode, or
   the failure code resolveReference turns the error into.                 *)
ValidateReference(c, r) ==
    IF ~SameDeal(c, r) THEN "REFERENCE_MISMATCH"
    ELSE IF ~AllowedReferenceType(c.kind, r.kind) THEN "REFERENCE_TYPE_NOT_ALLOWED"
    ELSE IF ~SameAmount(c, r) THEN "REFERENCE_MISMATCH"
    ELSE NoCode

(* MovementDirection; refKind matters for a ROLLBACK only. *)
MovementDirection(kind, refKind) ==
    CASE kind = "BET"                            -> "DEBIT"
      [] kind \in {"WIN", "REFUND"}              -> "CREDIT"
      [] kind = "LOSS"                           -> "NONE"
      [] kind = "ROLLBACK" /\ refKind = "BET"    -> "CREDIT"
      [] kind = "ROLLBACK" /\ refKind # "BET"    -> "DEBIT"

InsufficientFundsCode(kind) ==
    IF kind = "ROLLBACK" THEN "REVERSAL_INSUFFICIENT_FUNDS"
                         ELSE "BET_INSUFFICIENT_FUNDS"

(* The loop of delay: the wait after n doublings, which stop at MaxDelay. *)
doubled[n \in Nat] ==
    IF n = 0 THEN InitialDelay
    ELSE IF doubled[n - 1] < MaxDelay THEN 2 * doubled[n - 1] ELSE doubled[n - 1]

(* delay(attempt), attempts counted from 1: min(doubled, MaxDelay). *)
Delay(attempt) ==
    LET d == doubled[attempt - 1] IN IF d \in 1 .. MaxDelay THEN d ELSE MaxDelay

(* Mutant: a schedule that forgets to stop at the expiration. *)
BugUncappedAttempt(now, expires, attempt) == now + Delay(attempt)

NextAttemptAt(now, expires, attempt) ==
    IF now + Delay(attempt) > expires THEN expires ELSE now + Delay(attempt)

(* Mutant: an expiration that comes one instant early. *)
BugExpiresEarly(now, expires) == now + 1 >= expires

Expired(now, expires) == now >= expires
=============================================================================

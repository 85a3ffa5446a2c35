---------------------------- MODULE WagerService ----------------------------
(***************************************************************************)
(* WagerService over PostgreSQL: requests (HTTP calls or SQS deliveries)   *)
(* and reference retriers run database transactions concurrently, under    *)
(* READ COMMITTED, serialised only by row locks and unique indexes.        *)
(*                                                                         *)
(* wallets, wagers, ledger and outbox hold the COMMITTED rows.  What a     *)
(* running transaction has written is private to it until it commits: a    *)
(* request whose pc is "lock", "decide" or "commit" has inserted its row,  *)
(* and writes everything else in its committing step.  Every submission of *)
(* a command is a process of its own, so a client's retry and an SQS       *)
(* redelivery are two requests with the same command.                      *)
(***************************************************************************)
EXTENDS WagerDomain, Sequences

CONSTANTS
    Requests,       \* submissions of a command
    Command,        \* the command each of them carries
    Workers,        \* reference retriers, one per service instance
    None,           \* no process, no row
    PlayerOf, CurrencyOf,   \* of each wallet
    Opening,        \* initial balance each wallet is created with
    MaxClock,       \* bound on the database clock
    MaxAborts       \* bound on failed attempts

Procs == Requests \cup Workers
TxIds == Requests \cup Wallets      \* a wallet names its OPENING transaction

ASSUME CommandAssumption == Command \in [Requests -> Commands]
ASSUME WalletAssumption ==
    /\ PlayerOf \in [Wallets -> Players]
    /\ CurrencyOf \in [Wallets -> Currencies]
    /\ Opening \in [Wallets -> Money]
ASSUME ProcessAssumption ==
    /\ Requests \cap Workers = {} /\ Requests \cap Wallets = {}
    /\ None \notin Procs \cup Wallets
ASSUME BoundAssumption == MaxClock \in Nat /\ MaxAborts \in Nat

VARIABLES
    clock,          \* clock_timestamp() of the database
    wallets,        \* table wallets; version 0: no such row
    wagers,         \* table wager_transactions; status "NONE": no such row
    ledger,         \* table wallet_ledger_entries, per wallet in commit order
    outbox,         \* table outbox_events, per transaction in commit order
    walletLock,     \* who holds the FOR NO KEY UPDATE lock of a wallet
    rowLock,        \* which retrier holds the FOR UPDATE lock of a wager row
    pc,             \* where each process is
    work,           \* the row a retrier has claimed
    createdAt,      \* clock read at the start of a request's transaction
    now,            \* clock read once the wallet is locked
    copy,           \* the wallet a process has loaded under its lock
    plan,           \* what the process decided about its transaction
    reply,          \* what the caller of Process got back
    aborts          \* transient failures so far

db == << wallets, wagers, ledger, outbox >>
vars == << clock, wallets, wagers, ledger, outbox, walletLock, rowLock, pc,
           work, createdAt, now, copy, plan, reply, aborts >>

NoMoney == -1       \* a NULL balance column

Wallet == [ balance : Money, version : Nat, updatedAt : Nat ]
NoWallet == [ balance |-> 0, version |-> 0, updatedAt |-> 0 ]

Balance == Money \cup {NoMoney}
Row ==
    [ status : Statuses \cup {"NONE"}, code : FailureCodes \cup {NoCode},
      before : Balance, after : Balance, ref : Requests \cup {None},
      createdAt : Nat, updatedAt : Nat,
      next : Nat, expires : Nat, retries : Nat ]

(* A row that waits for nothing: Update clears the columns of the retries. *)
SettledRow(status, code, before, after, ref, created, updated) ==
    [ status |-> status, code |-> code, before |-> before, after |-> after,
      ref |-> ref, createdAt |-> created, updatedAt |-> updated,
      next |-> 0, expires |-> 0, retries |-> 0 ]
NoRow == SettledRow("NONE", NoCode, NoMoney, NoMoney, None, 0, 0)

(* A row that waits for its reference. *)
PendingRow(created, updated, next, expires, retries) ==
    [ status |-> "PENDING_REFERENCE", code |-> NoCode, before |-> NoMoney,
      after |-> NoMoney, ref |-> None, createdAt |-> created, updatedAt |-> updated,
      next |-> next, expires |-> expires, retries |-> retries ]

Entry == [ tx : TxIds, direction : {"DEBIT", "CREDIT"}, amount : Money,
           before : Money, after : Money, at : Nat ]

Event == [ type : {"Processed", "Rejected", "PendingReference", "BalanceChanged"},
           version : Nat, after : Balance ]
TxEvent(type, after) == [ type |-> type, version |-> 0, after |-> after ]
BalanceChanged(version, after) ==
    [ type |-> "BalanceChanged", version |-> version, after |-> after ]

Errors == { "INVALID_COMMAND", "IDEMPOTENCY_CONFLICT", "EXTERNAL_CONFLICT",
            "INVALID_WALLET_REFERENCE", "WALLET_MISMATCH", "INVALID_MONEY",
            "INVALID_TIMESTAMP", "CONCURRENT_UPDATE" }
NoError == "OK"

Reply == [ status : Statuses \cup {"NONE", "ERROR"},
           code : FailureCodes \cup Errors \cup {NoCode},
           before : Balance, after : Balance, replay : BOOLEAN ]
NoReply == [ status |-> "NONE", code |-> NoCode, before |-> NoMoney,
             after |-> NoMoney, replay |-> FALSE ]
ErrorReply(e) == [ status |-> "ERROR", code |-> e, before |-> NoMoney,
                   after |-> NoMoney, replay |-> FALSE ]

(* resultFromWager *)
ResultOf(row, replay) ==
    [ status |-> row.status, code |-> row.code, before |-> row.before,
      after |-> row.after, replay |-> replay ]

Plan == [ verdict : {"none", "wait", "reject", "settle"},
          code : FailureCodes \cup {NoCode}, ref : Requests \cup {None} ]
NoPlan == [ verdict |-> "none", code |-> NoCode, ref |-> None ]
Wait == [ verdict |-> "wait", code |-> NoCode, ref |-> None ]
Reject(code, ref) == [ verdict |-> "reject", code |-> code, ref |-> ref ]
Settle(ref) == [ verdict |-> "settle", code |-> NoCode, ref |-> ref ]

(* The one type invariant: every table holds rows of its type, which includes
   that no balance is negative or beyond Money's range, and that no row is
   ever committed in status PENDING.                                       *)
TypeOK ==
    /\ clock \in Nat
    /\ wallets \in [Wallets -> Wallet]
    /\ wagers \in [TxIds -> Row]
    /\ ledger \in [Wallets -> Seq(Entry)]
    /\ outbox \in [TxIds -> Seq(Event)]
    /\ walletLock \in [Wallets -> Procs \cup {None}]
    /\ rowLock \in [Requests -> Workers \cup {None}]
    /\ pc \in [Procs -> {"idle", "insert", "lock", "decide", "commit", "fail", "done"}]
    /\ work \in [Workers -> Requests \cup {None}]
    /\ createdAt \in [Requests -> Nat]
    /\ now \in [Procs -> Nat]
    /\ copy \in [Procs -> Wallet]
    /\ plan \in [Procs -> Plan]
    /\ reply \in [Requests -> Reply]
    /\ aborts \in Nat

Init ==
    /\ clock = 1
    /\ wallets = [w \in Wallets |-> NoWallet]
    /\ wagers = [t \in TxIds |-> NoRow]
    /\ ledger = [w \in Wallets |-> << >>]
    /\ outbox = [t \in TxIds |-> << >>]
    /\ walletLock = [w \in Wallets |-> None]
    /\ rowLock = [t \in Requests |-> None]
    /\ pc = [p \in Procs |-> "idle"]
    /\ work = [k \in Workers |-> None]
    /\ createdAt = [r \in Requests |-> 0]
    /\ now = [p \in Procs |-> 0]
    /\ copy = [p \in Procs |-> NoWallet]
    /\ plan = [p \in Procs |-> NoPlan]
    /\ reply = [r \in Requests |-> NoReply]
    /\ aborts = 0

-----------------------------------------------------------------------------
(***************************************************************************)
(* Reading the committed rows.                                             *)
(***************************************************************************)

Present(t) == wagers[t].status # "NONE"

(* The transaction a process works on, its command and its wallet. *)
TxOf(p) == IF p \in Requests THEN p ELSE work[p]
CommandOf(p) == Command[TxOf(p)]
WalletOf(p) == CommandOf(p).wallet

FindByKey(c) ==
    {u \in Requests : Present(u) /\ Command[u].provider = c.provider
                                 /\ Command[u].key = c.key}
FindByExternal(provider, ext) ==
    {u \in Requests : Present(u) /\ Command[u].provider = provider
                                 /\ Command[u].ext = ext}

(* Mutant: a refund does not stop a later rollback, nor a rollback a refund. *)
BugForgetRollbacks(ref) ==
    \E u \in Requests : /\ wagers[u].ref = ref /\ wagers[u].status = "PROCESSED"
                        /\ Command[u].kind = "REFUND"

HasProcessedDirectReversal(ref) ==
    \E u \in Requests : /\ wagers[u].ref = ref /\ wagers[u].status = "PROCESSED"
                        /\ Command[u].kind \in {"REFUND", "ROLLBACK"}

(* Two rows the unique indexes on (provider, external id) and
   (provider, idempotency key) do not let coexist.                         *)
Clash(q, r) ==
    /\ Command[q].provider = Command[r].provider
    /\ Command[q].ext = Command[r].ext \/ Command[q].key = Command[r].key

(* resolveReference for the row u it found, and the duplicate check of settle. *)
PlanWith(c, u) ==
    LET code == ValidateReference(c, Command[u])
    IN  IF wagers[u].status = "PENDING_REFERENCE" THEN Wait
        ELSE IF wagers[u].status # "PROCESSED" THEN Reject("REFERENCE_NOT_PROCESSABLE", None)
        ELSE IF code # NoCode THEN Reject(code, None)
        ELSE IF RequiresReference(c.kind) /\ HasProcessedDirectReversal(u)
             THEN Reject("DUPLICATE_REVERSAL", u)
        ELSE Settle(u)

(* processNew: without a reference there is nothing to look up, and one that
   is not there yet is waited for.                                         *)
PlanFor(c) ==
    LET found == FindByExternal(c.provider, c.ref)
    IN  IF c.ref = NoRef THEN Settle(None)
        ELSE IF found = {} THEN Wait
        ELSE PlanWith(c, CHOOSE u \in found : TRUE)

-----------------------------------------------------------------------------
(***************************************************************************)
(* Row locks.  A request that has inserted its row holds FOR KEY SHARE on  *)
(* the wallet, which the foreign key check takes; lockWallet then asks for *)
(* WalletLockMode on top of it.                                            *)
(***************************************************************************)

(* PostgreSQL's conflict table, for the three modes in use. *)
Conflicts(a, b) == "UPDATE" \in {a, b} \/ (a = "NO KEY UPDATE" /\ b = a)

(* Mutant: the stronger mode SELECT ... FOR UPDATE takes. *)
BugForUpdate == "UPDATE"

WalletLockMode == "NO KEY UPDATE"

InFlight(q) == q \in Requests /\ pc[q] \in {"lock", "decide", "commit"}
HoldsKeyShare(q, w) == InFlight(q) /\ Command[q].wallet = w

(* Mutant: an insert that does not see the uncommitted rows of others. *)
BugBlindInsert(q, p) == FALSE

(* An insert waits for an unfinished insert of a clashing row ... *)
InsertBlocks(q, p) == InFlight(q) /\ q # p /\ Clash(q, p)

(* ... and its foreign key check for a holder of a conflicting wallet lock. *)
ForeignKeyBlocks(q, p) ==
    walletLock[WalletOf(p)] = q /\ Conflicts(WalletLockMode, "KEY SHARE")

(* Mutant: the wallet is read without a lock. *)
BugUnlockedRead(q, p) == FALSE

(* lockWallet waits for the holder of the wallet and, should the modes
   conflict, for everybody whose foreign key check shares the row.         *)
WalletLockBlocks(q, p) ==
    \/ walletLock[WalletOf(p)] = q /\ Conflicts(WalletLockMode, WalletLockMode)
    \/ /\ q # p /\ HoldsKeyShare(q, WalletOf(p))
       /\ Conflicts(WalletLockMode, "KEY SHARE")

Blocks(q, p) ==
    \/ pc[p] = "insert" /\ (InsertBlocks(q, p) \/ ForeignKeyBlocks(q, p))
    \/ pc[p] = "lock" /\ WalletLockBlocks(q, p)
    \/ pc[p] = "fail" /\ rowLock[work[p]] = q

Unblocked(p) == ~\E q \in Procs : Blocks(q, p)

-----------------------------------------------------------------------------
(***************************************************************************)
(* How a transaction ends.                                                 *)
(***************************************************************************)

(* Every lock of p is released and what it had in memory is gone. *)
EndTransaction(p) ==
    /\ walletLock' = [w \in Wallets |-> IF walletLock[w] = p THEN None ELSE walletLock[w]]
    /\ rowLock' = [t \in Requests |-> IF rowLock[t] = p THEN None ELSE rowLock[t]]
    /\ createdAt' = [r \in Requests |-> IF r = p THEN 0 ELSE createdAt[r]]
    /\ now' = [now EXCEPT ![p] = 0]
    /\ copy' = [copy EXCEPT ![p] = NoWallet]
    /\ plan' = [plan EXCEPT ![p] = NoPlan]
    /\ UNCHANGED clock

(* The caller of Process gets its answer; a retrier is free again. *)
Finish(p, answer) ==
    /\ EndTransaction(p)
    /\ UNCHANGED aborts
    /\ pc' = [pc EXCEPT ![p] = IF p \in Requests THEN "done" ELSE "idle"]
    /\ work' = [k \in Workers |-> IF k = p THEN None ELSE work[k]]
    /\ reply' = [r \in Requests |-> IF r = p THEN answer ELSE reply[r]]

(* Process returns an error and everything is rolled back. *)
Refuse(r, error) == Finish(r, ErrorReply(error)) /\ UNCHANGED db

-----------------------------------------------------------------------------
(***************************************************************************)
(* WalletService.Create: the wallet and, for a positive initial balance,   *)
(* its OPENING transaction, ledger entry and two events, in one commit.    *)
(***************************************************************************)
OpeningRow(w) ==
    SettledRow("PROCESSED", NoCode, 0, Opening[w], None, clock, clock)
OpeningEntry(w) ==
    [ tx |-> w, direction |-> "CREDIT", amount |-> Opening[w],
      before |-> 0, after |-> Opening[w], at |-> clock ]
OpeningEvents(w) ==
    << TxEvent("Processed", Opening[w]), BalanceChanged(1, Opening[w]) >>

CreateWallet(w) ==
    /\ wallets[w] = NoWallet
    /\ ~\E v \in Wallets : /\ wallets[v] # NoWallet
                           /\ PlayerOf[v] = PlayerOf[w] /\ CurrencyOf[v] = CurrencyOf[w]
    /\ wallets' = [wallets EXCEPT ![w] =
                     [balance |-> Opening[w], version |-> 1, updatedAt |-> clock]]
    /\ IF Opening[w] = 0
       THEN UNCHANGED << wagers, ledger, outbox >>
       ELSE /\ wagers' = [wagers EXCEPT ![w] = OpeningRow(w)]
            /\ ledger' = [ledger EXCEPT ![w] = << OpeningEntry(w) >>]
            /\ outbox' = [outbox EXCEPT ![w] = OpeningEvents(w)]
    /\ UNCHANGED << clock, walletLock, rowLock, pc, work, createdAt, now, copy,
                    plan, reply, aborts >>

-----------------------------------------------------------------------------
(***************************************************************************)
(* Process.                                                                *)
(***************************************************************************)

(* The command is validated, and the transaction reads its creation time. *)
Begin(r) ==
    /\ pc[r] = "idle"
    /\ ValidExternalWager(Command[r])
    /\ createdAt' = [createdAt EXCEPT ![r] = clock]
    /\ pc' = [pc EXCEPT ![r] = "insert"]
    /\ UNCHANGED << clock, wallets, wagers, ledger, outbox, walletLock, rowLock,
                    work, now, copy, plan, reply, aborts >>

RefuseInvalid(r) ==
    /\ pc[r] = "idle"
    /\ ~ValidExternalWager(Command[r])
    /\ Refuse(r, "INVALID_COMMAND")

(* Mutant: the key alone decides, the payload is not compared. *)
BugReplayAnyPayload(u, r) == TRUE

SamePayload(u, r) == PayloadHash(Command[u]) = PayloadHash(Command[r])

(* resolveExistingTransaction: the insert met a committed row. *)
Existing(r) ==
    LET found == FindByKey(Command[r])
        u == CHOOSE x \in found : TRUE
    IN  IF found = {} THEN ErrorReply("EXTERNAL_CONFLICT")
        ELSE IF ~SamePayload(u, r) THEN ErrorReply("IDEMPOTENCY_CONFLICT")
        ELSE ResultOf(wagers[u], TRUE)

Replay(r) ==
    /\ pc[r] = "insert"
    /\ \E u \in Requests : Present(u) /\ Clash(u, r)
    /\ Finish(r, Existing(r))
    /\ UNCHANGED db

WalletExists(c) == wallets[c.wallet].version > 0 /\ CurrencyOf[c.wallet] = c.currency

(* wagers.Create wrote the row, or failed its foreign key to the wallet. *)
Insert(r) ==
    /\ pc[r] = "insert"
    /\ ~\E u \in Requests : Present(u) /\ Clash(u, r)
    /\ Unblocked(r)
    /\ WalletExists(Command[r])
    /\ pc' = [pc EXCEPT ![r] = "lock"]
    /\ UNCHANGED << clock, wallets, wagers, ledger, outbox, walletLock, rowLock,
                    work, createdAt, now, copy, plan, reply, aborts >>

RefuseDangling(r) ==
    /\ pc[r] = "insert"
    /\ ~\E u \in Requests : Present(u) /\ Clash(u, r)
    /\ Unblocked(r)
    /\ ~WalletExists(Command[r])
    /\ Refuse(r, "INVALID_WALLET_REFERENCE")

(* Mutant: the time of the operation is read before the lock is granted. *)
BugClockBeforeLock(p) == IF p \in Requests THEN createdAt[p] ELSE clock

(* clock.Now is asked once the wallet is locked. *)
ClockAfterLock(p) == clock

(* lockWallet, for a request and for a retrier alike. *)
LockWallet(p) ==
    /\ pc[p] = "lock"
    /\ Unblocked(p)
    /\ PlayerOf[WalletOf(p)] = CommandOf(p).player
    /\ walletLock' = [walletLock EXCEPT ![WalletOf(p)] = p]
    /\ copy' = [copy EXCEPT ![p] = wallets[WalletOf(p)]]
    /\ now' = [now EXCEPT ![p] = ClockAfterLock(p)]
    /\ pc' = [pc EXCEPT ![p] = "decide"]
    /\ UNCHANGED << clock, wallets, wagers, ledger, outbox, rowLock, work,
                    createdAt, plan, reply, aborts >>

(* The wallet is somebody else's.  A retrier's row has passed this check. *)
RefuseMismatch(r) ==
    /\ pc[r] = "lock"
    /\ Unblocked(r)
    /\ PlayerOf[WalletOf(r)] # Command[r].player
    /\ Refuse(r, "WALLET_MISMATCH")

(* Whether the transaction waits, is rejected or is applied; a retrier looks
   at the expiration before it looks for the reference.                    *)
Decide(p) ==
    /\ pc[p] = "decide"
    /\ plan' = [plan EXCEPT ![p] =
                  IF p \in Workers /\ Expired(now[p], wagers[work[p]].expires)
                  THEN Reject("REFERENCE_NOT_FOUND", None)
                  ELSE PlanFor(CommandOf(p))]
    /\ pc' = [pc EXCEPT ![p] = "commit"]
    /\ UNCHANGED << clock, wallets, wagers, ledger, outbox, walletLock, rowLock,
                    work, createdAt, now, copy, reply, aborts >>

-----------------------------------------------------------------------------
(***************************************************************************)
(* The committing step.                                                    *)
(***************************************************************************)

CreatedAt(p) == IF p \in Requests THEN createdAt[p] ELSE wagers[work[p]].createdAt
UpdatedAt(p) == IF p \in Requests THEN createdAt[p] ELSE wagers[work[p]].updatedAt

KindOf(ref) == IF ref = None THEN "NONE" ELSE Command[ref].kind
Direction(p) == MovementDirection(CommandOf(p).kind, KindOf(plan[p].ref))

Moves(p) == plan[p].verdict = "settle" /\ Direction(p) # "NONE"

LacksFunds(p) ==
    Moves(p) /\ Direction(p) = "DEBIT" /\ copy[p].balance < CommandOf(p).amount

NewBalance(p) ==
    IF Direction(p) = "DEBIT" THEN copy[p].balance - CommandOf(p).amount
                              ELSE copy[p].balance + CommandOf(p).amount

(* Mutant: the sum of two amounts is not checked against the range. *)
BugUnboundedSum(p) == FALSE

Overflows(p) == Moves(p) /\ Direction(p) = "CREDIT" /\ NewBalance(p) > MaxMoney

(* validateTimestamp of the transaction, and of the wallet it moves. *)
StaleTransaction(p) == now[p] < UpdatedAt(p)
StaleWallet(p) == Moves(p) /\ now[p] < copy[p].updatedAt

(* UPDATE wallets ... WHERE version = $: no row if the version has moved on. *)
LostUpdate(p) ==
    Moves(p) /\ ~LacksFunds(p) /\ wallets[WalletOf(p)].version # copy[p].version

(* The error that makes the transaction roll back, in the order the code
   meets it; rescheduling a retry validates nothing.                       *)
ErrorOf(p) ==
    IF p \in Workers /\ plan[p].verdict = "wait" THEN NoError
    ELSE IF StaleTransaction(p) \/ StaleWallet(p) THEN "INVALID_TIMESTAMP"
    ELSE IF Overflows(p) THEN "INVALID_MONEY"
    ELSE IF LostUpdate(p) THEN "CONCURRENT_UPDATE"
    ELSE NoError

Committing(p, verdict) ==
    pc[p] = "commit" /\ plan[p].verdict = verdict /\ ErrorOf(p) = NoError

(* p commits `row` for its transaction, with the events it leaves behind. *)
Write(p, row, events) ==
    /\ wagers' = [wagers EXCEPT ![TxOf(p)] = row]
    /\ outbox' = [outbox EXCEPT ![TxOf(p)] = @ \o events]
    /\ Finish(p, ResultOf(row, FALSE))

(* markPendingReference: a request leaves its transaction to the retriers. *)
CommitPending(r) ==
    /\ Committing(r, "wait")
    /\ LET expires == now[r] + TTL IN
       Write(r, PendingRow(CreatedAt(r), now[r],
                           NextAttemptAt(now[r], expires, 1), expires, 0),
             << TxEvent("PendingReference", NoMoney) >>)
    /\ UNCHANGED << wallets, ledger >>

(* SchedulePendingReferenceRetry: the reference is still not there. *)
Reschedule(k) ==
    /\ Committing(k, "wait")
    /\ LET row == wagers[work[k]] IN
       wagers' = [wagers EXCEPT ![work[k]] =
           PendingRow(row.createdAt, clock,
                      NextAttemptAt(now[k], row.expires, row.retries + 2),
                      row.expires, row.retries + 1)]
    /\ Finish(k, NoReply)
    /\ UNCHANGED << wallets, ledger, outbox >>

(* Mutant: a rejection that records the balance it observed. *)
BugRejectObserves(p, code) ==
    SettledRow("REJECTED", code, copy[p].balance, copy[p].balance, plan[p].ref,
               CreatedAt(p), now[p])

RejectedRow(p, code) ==
    SettledRow("REJECTED", code, NoMoney, NoMoney, plan[p].ref, CreatedAt(p), now[p])

(* reject: a business rejection, for lack of funds or as planned. *)
CommitReject(p) ==
    /\ Committing(p, "reject") \/ (Committing(p, "settle") /\ LacksFunds(p))
    /\ LET code == IF plan[p].verdict = "reject" THEN plan[p].code
                   ELSE InsufficientFundsCode(CommandOf(p).kind)
       IN  Write(p, RejectedRow(p, code), << TxEvent("Rejected", NoMoney) >>)
    /\ UNCHANGED << wallets, ledger >>

ProcessedRow(p, before, after) ==
    SettledRow("PROCESSED", NoCode, before, after, plan[p].ref, CreatedAt(p), now[p])

(* applyMovement without a movement: a LOSS observes the balance. *)
CommitLoss(p) ==
    /\ Committing(p, "settle") /\ ~Moves(p)
    /\ LET b == copy[p].balance IN
       Write(p, ProcessedRow(p, b, b), << TxEvent("Processed", b) >>)
    /\ UNCHANGED << wallets, ledger >>

(* Mutant: `before` is taken once the wallet object has been changed. *)
BugBeforeIsAfter(p) == NewBalance(p)

BalanceBefore(p) == copy[p].balance

(* Mutant: the event carries the version the wallet had before. *)
BugOldVersion(p) == copy[p].version

EventVersion(p) == copy[p].version + 1

(* Mutant: the entry is stamped with the time the transaction was created. *)
BugStampCreation(p) == CreatedAt(p)

EntryStamp(p) == now[p]

(* applyMovement: wallet, transaction, ledger entry and both events. *)
CommitMovement(p) ==
    /\ Committing(p, "settle") /\ Moves(p) /\ ~LacksFunds(p)
    /\ LET w == WalletOf(p)
           before == BalanceBefore(p)
           after == NewBalance(p)
       IN  /\ wallets' = [wallets EXCEPT ![w] =
                 [balance |-> after, version |-> copy[p].version + 1, updatedAt |-> now[p]]]
           /\ ledger' = [ledger EXCEPT ![w] = Append(@,
                 [tx |-> TxOf(p), direction |-> Direction(p),
                  amount |-> CommandOf(p).amount, before |-> before, after |-> after,
                  at |-> EntryStamp(p)])]
           /\ Write(p, ProcessedRow(p, before, after),
                    << TxEvent("Processed", after), BalanceChanged(EventVersion(p), after) >>)

(* A permanent error rolls the transaction back: the caller sees it, a
   retrier goes on to failPendingReference.                                *)
CommitError(p) ==
    /\ pc[p] = "commit" /\ ErrorOf(p) # NoError
    /\ IF p \in Requests THEN Finish(p, ErrorReply(ErrorOf(p)))
       ELSE /\ EndTransaction(p)
            /\ pc' = [pc EXCEPT ![p] = "fail"]
            /\ UNCHANGED << work, reply, aborts >>
    /\ UNCHANGED db

-----------------------------------------------------------------------------
(***************************************************************************)
(* RetryNextPendingReference.                                              *)
(***************************************************************************)

Due(t) ==
    /\ wagers[t].status = "PENDING_REFERENCE"
    /\ wagers[t].next <= clock
    /\ rowLock[t] = None

(* FOR UPDATE SKIP LOCKED, oldest attempt first, then oldest row. *)
Claim(k, t) ==
    /\ pc[k] = "idle"
    /\ Due(t)
    /\ \A u \in Requests : Due(u) =>
           \/ wagers[t].next < wagers[u].next
           \/ /\ wagers[t].next = wagers[u].next
              /\ wagers[t].createdAt <= wagers[u].createdAt
    /\ rowLock' = [rowLock EXCEPT ![t] = k]
    /\ work' = [work EXCEPT ![k] = t]
    /\ pc' = [pc EXCEPT ![k] = "lock"]
    /\ UNCHANGED << clock, wallets, wagers, ledger, outbox, walletLock,
                    createdAt, now, copy, plan, reply, aborts >>

(* Mutant: the row is fetched by id alone. *)
BugFailAnyStatus(t) == Present(t)

(* FindPendingReferenceForUpdate finds the row only while it is waiting. *)
StillPending(t) == wagers[t].status = "PENDING_REFERENCE"

(* failPendingReference: a transaction of its own, without the wallet and
   without an event; nothing happens when the row has moved on meanwhile.  *)
FailPending(k) ==
    /\ pc[k] = "fail"
    /\ Unblocked(k)
    /\ LET t == work[k] IN
       wagers' = IF ~StillPending(t) THEN wagers
                 ELSE [wagers EXCEPT ![t] =
                         SettledRow("FAILED", "PROCESSING_FAILED", NoMoney, NoMoney, None,
                                    wagers[t].createdAt, clock)]
    /\ Finish(k, NoReply)
    /\ UNCHANGED << wallets, ledger, outbox >>

-----------------------------------------------------------------------------
(* A crash, a lost connection or a deadlock victim: the transaction is rolled
   back.  The TransactionManager or the client tries a request again, the
   retrier's loop comes back to the row.                                   *)
Abort(p) ==
    /\ pc[p] \in {"insert", "lock", "decide", "commit", "fail"}
    /\ aborts < MaxAborts
    /\ EndTransaction(p)
    /\ pc' = [pc EXCEPT ![p] = "idle"]
    /\ work' = [k \in Workers |-> IF k = p THEN None ELSE work[k]]
    /\ aborts' = aborts + 1
    /\ UNCHANGED << wallets, wagers, ledger, outbox, reply >>

(* Any statement of a retrier's attempt fails for good: the attempt is rolled
   back, and failPendingReference follows.                                 *)
FailAttempt(k) ==
    /\ pc[k] \in {"lock", "decide", "commit"}
    /\ aborts < MaxAborts
    /\ EndTransaction(k)
    /\ pc' = [pc EXCEPT ![k] = "fail"]
    /\ aborts' = aborts + 1
    /\ UNCHANGED << wallets, wagers, ledger, outbox, work, reply >>

Tick ==
    /\ clock < MaxClock
    /\ clock' = clock + 1
    /\ UNCHANGED << wallets, wagers, ledger, outbox, walletLock, rowLock, pc,
                    work, createdAt, now, copy, plan, reply, aborts >>

(* Every request is answered and no retry can become due any more. *)
Quiescent ==
    /\ \A r \in Requests : pc[r] = "done"
    /\ \A k \in Workers : pc[k] = "idle"
    /\ \A t \in Requests : ~Due(t)
    /\ clock = MaxClock
    /\ UNCHANGED vars

(* What a process does once it is in a transaction. *)
RequestStep(r) ==
    \/ Replay(r) \/ Insert(r) \/ RefuseDangling(r) \/ RefuseMismatch(r)
    \/ CommitPending(r)
WorkerStep(k) ==
    \/ \E t \in Requests : Claim(k, t)
    \/ Reschedule(k) \/ FailPending(k)
Step(p) ==
    \/ LockWallet(p) \/ Decide(p)
    \/ CommitReject(p) \/ CommitLoss(p) \/ CommitMovement(p) \/ CommitError(p)

Next ==
    \/ \E w \in Wallets : CreateWallet(w)
    \/ \E r \in Requests : Begin(r) \/ RefuseInvalid(r) \/ RequestStep(r)
    \/ \E k \in Workers : WorkerStep(k) \/ FailAttempt(k)
    \/ \E p \in Procs : Step(p) \/ Abort(p)
    \/ Tick
    \/ Quiescent

Spec == Init /\ [][Next]_vars

(* Time passes, the retrier loops forever, and a transaction that has begun
   goes on: no statement waits for a client.  Clients need not begin.      *)
Fairness ==
    /\ WF_vars(Tick)
    /\ \A r \in Requests : WF_vars(RequestStep(r) \/ Step(r))
    /\ \A k \in Workers : WF_vars(WorkerStep(k) \/ Step(k))

FairSpec == Spec /\ Fairness

-----------------------------------------------------------------------------
(***************************************************************************)
(* What scanWager demands of a stored row (validateRehydratedWager).  The  *)
(* column completed_at is updated_at in a terminal row and NULL otherwise. *)
(***************************************************************************)

RehydratedOpening(w) ==
    /\ Opening[w] > 0
    /\ wagers[w].status = "PROCESSED" /\ wagers[w].code = NoCode /\ wagers[w].ref = None
    /\ wagers[w].before = 0 /\ wagers[w].after = Opening[w]

PersistedReference(c, row) ==
    row.ref # None => c.ref # NoRef /\ AllowedReferenceType(c.kind, KindOf(row.ref))

PendingReferenceState(c, row) ==
    /\ c.ref # NoRef /\ row.ref = None
    /\ row.before = NoMoney /\ row.after = NoMoney /\ row.code = NoCode

ProcessedState(c, row) ==
    /\ row.before >= 0 /\ row.after >= 0 /\ row.code = NoCode
    /\ c.ref # NoRef => row.ref # None
    /\ c.kind = "LOSS" => row.before = row.after

FailureState(row) ==
    row.before = NoMoney /\ row.after = NoMoney /\ row.code # NoCode

RehydratedExternal(c, row) ==
    /\ ValidWagerAmount(c) /\ ValidExternalReference(c) /\ PersistedReference(c, row)
    /\ row.status = "PENDING_REFERENCE" => PendingReferenceState(c, row)
    /\ row.status = "PROCESSED" => ProcessedState(c, row)
    /\ row.status \in {"REJECTED", "FAILED"} => FailureState(row)

Rehydrates(t) ==
    /\ wagers[t].createdAt <= wagers[t].updatedAt
    /\ t \in Wallets => RehydratedOpening(t)
    /\ t \in Requests => RehydratedExternal(Command[t], wagers[t])

-----------------------------------------------------------------------------
(***************************************************************************)
(* Properties.                                                             *)
(***************************************************************************)

(* Every stored row can be loaded again: no replay, lookup or retry ever meets
   a row that RehydrateWagerTransaction refuses, which would answer 500 for
   good (and is why the actions have no such error).                       *)
RowsLoadable == \A t \in TxIds : Present(t) => Rehydrates(t)

(* No set of transactions ever waits on itself: PostgreSQL's deadlock detector
   has nothing to do.  This is what FOR NO KEY UPDATE is chosen for: every
   request holds FOR KEY SHARE on its wallet when it asks for the lock.    *)
NoLockCycle ==
    \A S \in SUBSET Procs : S # {} => \E p \in S : \A q \in S : ~Blocks(q, p)

(* The errors that would mean a race was lost are never met: no wallet UPDATE
   misses its version (ErrConcurrentUpdate) and no time runs backwards
   (ErrInvalidTimestamp).  Both would answer 500 or make a row FAILED.     *)
NoLostRace ==
    \A p \in Procs : pc[p] = "commit" => ErrorOf(p) \in {NoError, "INVALID_MONEY"}

Count(w) == Len(ledger[w])
Opened(w) == IF Opening[w] = 0 THEN 0 ELSE 1

(* The ledger explains the wallet: each entry starts from the balance the one
   before it left, moves it by its amount, the last one leaves the stored
   balance, and the version counts the movements.                          *)
LedgerExplainsWallet ==
    \A w \in Wallets :
        /\ \A i \in 1 .. Count(w) :
              LET e == ledger[w][i] IN
              /\ e.before = IF i = 1 THEN 0 ELSE ledger[w][i - 1].after
              /\ e.after = IF e.direction = "DEBIT" THEN e.before - e.amount
                                                    ELSE e.before + e.amount
        /\ wallets[w].balance = IF Count(w) = 0 THEN 0 ELSE ledger[w][Count(w)].after
        /\ IF wallets[w] = NoWallet THEN Count(w) = 0
           ELSE wallets[w].version = 1 + Count(w) - Opened(w)

(* Ledger entries are stamped in the order they were committed, and the
   wallet carries the stamp of its last movement.                          *)
LedgerInTimeOrder ==
    \A w \in Wallets : \A i \in 1 .. Count(w) :
        /\ i > 1 => ledger[w][i - 1].at <= ledger[w][i].at
        /\ ledger[w][i].at <= wallets[w].updatedAt

Processed(t) == wagers[t].status = "PROCESSED"
Delta(t) == wagers[t].after - wagers[t].before

(* A processed REFUND or ROLLBACK undoes exactly what its reference did to the
   same wallet, and nothing is undone twice (uq successful reversal).      *)
ReversalsNetToZero ==
    \A t \in Requests : Processed(t) /\ RequiresReference(Command[t].kind) =>
        /\ wagers[t].ref \in Requests /\ Processed(wagers[t].ref)
        /\ Command[wagers[t].ref].wallet = Command[t].wallet
        /\ Delta(t) + Delta(wagers[t].ref) = 0
        /\ \A u \in Requests :
              (Processed(u) /\ wagers[u].ref = wagers[t].ref /\ RequiresReference(Command[u].kind))
                  => u = t

(* Whatever is submitted twice, concurrently or not, is applied once: no two
   committed rows share an external id or an idempotency key.              *)
AppliedOnce ==
    \A t, u \in Requests : Present(t) /\ Present(u) /\ Clash(t, u) => t = u

(* What a transaction published, given how it ended: `moved` are its entries
   in the ledger of its wallet.                                            *)
OutcomeEvents(t) ==
    LET w == Command[t].wallet
        moved == {i \in 1 .. Count(w) : ledger[w][i].tx = t}
        row == wagers[t]
    IN  CASE row.status = "PROCESSED" ->
               IF moved = {} THEN {<< TxEvent("Processed", row.after) >>}
               ELSE {<< TxEvent("Processed", row.after),
                        BalanceChanged(1 + i - Opened(w), ledger[w][i].after) >> : i \in moved}
          [] row.status = "REJECTED" -> {<< TxEvent("Rejected", NoMoney) >>}
          [] row.status \in {"NONE", "PENDING_REFERENCE", "FAILED"} -> {<< >>}

(* The outbox tells every transaction's story once: the wait, if it waited,
   then its outcome, and for a movement the wallet version it produced, so
   that consumers can order the balances of a wallet.                      *)
OutboxTellsOutcome ==
    \A t \in Requests :
        LET waited == << TxEvent("PendingReference", NoMoney) >>
            tails == OutcomeEvents(t)
        IN  \/ wagers[t].status \notin {"PENDING_REFERENCE", "FAILED"} /\ outbox[t] \in tails
            \/ /\ Present(t) /\ Command[t].ref # NoRef
               /\ outbox[t] \in {waited \o e : e \in tails}

(* An answer given is an answer kept: it belongs to the row stored for the
   same key and payload, and once it is terminal that row never says
   anything else, also to a client that asks again.                        *)
RepliesKept ==
    \A r \in Requests : reply[r].status \in Statuses =>
        \E u \in Requests :
            /\ Present(u) /\ Command[u].key = Command[r].key
            /\ PayloadHash(Command[u]) = PayloadHash(Command[r])
            /\ reply[r].status \in Terminal => ResultOf(wagers[u], reply[r].replay) = reply[r]

(* The trigger of migration 13 never fires: a terminal row is not changed. *)
TerminalRowsKept ==
    [][\A t \in TxIds : wagers[t].status \in Terminal => wagers'[t] = wagers[t]]_vars

(* REFERENCE_NOT_FOUND is said only once the TTL is over. *)
NotFoundAfterTTL ==
    \A t \in Requests : wagers[t].code = "REFERENCE_NOT_FOUND" =>
        wagers[t].updatedAt >= wagers[t].createdAt + TTL

(* REFERENCE_NOT_FOUND is said only when the reference was not processed
   before the TTL ran out, as its documentation has it.                    *)
NotFoundMeansNotProcessed ==
    \A t, u \in Requests :
        /\ wagers[t].code = "REFERENCE_NOT_FOUND"
        /\ u \in FindByExternal(Command[t].provider, Command[t].ref)
        /\ Processed(u)
        => wagers[u].updatedAt >= wagers[t].createdAt + TTL

(* A wait for a reference ends, by its expiration at the latest, as long as
   the clock gets there.                                                   *)
WaitsEnd ==
    \A t \in Requests :
        wagers[t].status = "PENDING_REFERENCE" /\ wagers[t].expires < MaxClock
            ~> wagers[t].status \in Terminal

-----------------------------------------------------------------------------
(***************************************************************************)
(* The invariant that explains the properties above, in parts.             *)
(***************************************************************************)

(* The locks are where the program counters say: a wallet belongs to the one
   process between lockWallet and its commit, a claimed row to the retrier
   that claimed it, and such a row is still waiting.                       *)
LocksHeld ==
    /\ \A p \in Procs : pc[p] \in {"decide", "commit"} => walletLock[WalletOf(p)] = p
    /\ \A w \in Wallets, p \in Procs :
          walletLock[w] = p => pc[p] \in {"decide", "commit"} /\ WalletOf(p) = w
    /\ \A k \in Workers : pc[k] \in {"lock", "decide", "commit"} =>
          rowLock[work[k]] = k /\ StillPending(work[k])
    /\ \A t \in Requests, k \in Workers :
          rowLock[t] = k => pc[k] \in {"lock", "decide", "commit"} /\ work[k] = t

(* A row is written by the request that then is done, and in a wallet that
   exists, which no later step takes away.                                 *)
RowsHaveWallets ==
    /\ \A r \in Requests : Present(r) => pc[r] = "done"
    /\ \A r \in Requests : Present(r) \/ InFlight(r) => wallets[Command[r].wallet].version > 0
    /\ \A w \in Wallets : Present(w) => wallets[w].version > 0

(* What a process read under the lock is what is stored until it commits. *)
CopyIsCurrent ==
    \A p \in Procs : pc[p] \in {"decide", "commit"} => copy[p] = wallets[WalletOf(p)]

(* Nothing is stamped later than the clock, and a process that has the wallet
   has read a time no earlier than any stamp it is about to replace.       *)
ClockAhead ==
    /\ \A w \in Wallets : wallets[w].updatedAt <= clock
    /\ \A r \in Requests : wagers[r].updatedAt <= clock /\ createdAt[r] <= clock
    /\ \A p \in Procs : pc[p] \in {"decide", "commit"} =>
          /\ now[p] <= clock
          /\ UpdatedAt(p) <= now[p]
          /\ wallets[WalletOf(p)].updatedAt <= now[p]

(* The unique indexes also hold between rows that are not committed yet. *)
ClashFree ==
    \A q, r \in Requests :
        /\ Clash(q, r)
        /\ Present(q) \/ InFlight(q)
        /\ Present(r) \/ InFlight(r)
        => q = r

(* What is stored or under way is well formed. *)
CommandsValid ==
    \A r \in Requests : Present(r) \/ pc[r] \notin {"idle", "done"} =>
        ValidExternalWager(Command[r])

(* What a process decided still holds when it commits: the reference is still
   processed, still fits, and has still not been reversed.                 *)
PlansStand ==
    \A p \in Procs : pc[p] = "commit" =>
        LET c == CommandOf(p)
            u == plan[p].ref
        IN  /\ plan[p].verdict = "settle" =>
                  IF c.ref = NoRef THEN u = None
                  ELSE /\ u \in Requests /\ Processed(u)
                       /\ ValidateReference(c, Command[u]) = NoCode
                       /\ RequiresReference(c.kind) => ~HasProcessedDirectReversal(u)
            /\ plan[p].verdict = "reject" =>
                  /\ plan[p].code # NoCode /\ c.ref # NoRef
                  /\ u # None => AllowedReferenceType(c.kind, KindOf(u))
            /\ plan[p].verdict = "wait" => c.ref # NoRef

(* What a movement in that direction adds to a balance. *)
Signed(direction, amount) ==
    CASE direction = "DEBIT" -> -amount [] direction = "CREDIT" -> amount [] OTHER -> 0

(* A processed row moved its wallet by its amount in the direction of its kind,
   and a reversal did so for a reference no other row reverses.            *)
RowsStand ==
    \A t \in Requests : Processed(t) =>
        LET c == Command[t]
            u == wagers[t].ref
        IN  /\ Delta(t) = Signed(MovementDirection(c.kind, KindOf(u)), c.amount)
            /\ RequiresReference(c.kind) =>
                  /\ u \in Requests /\ Processed(u)
                  /\ ValidateReference(c, Command[u]) = NoCode
                  /\ \A x \in Requests :
                        (Processed(x) /\ wagers[x].ref = u /\ RequiresReference(Command[x].kind))
                            => x = t

(* The invariant behind ReversalsNetToZero and RowsLoadable. *)
DecisionsStand == CommandsValid /\ PlansStand /\ RowsStand

(* The invariant behind NoLockCycle, NoLostRace, LedgerExplainsWallet,
   AppliedOnce and TerminalRowsKept: every step of Process and of the
   retrier preserves it.                                                   *)
Serialised ==
    LocksHeld /\ RowsHaveWallets /\ CopyIsCurrent /\ ClockAhead /\ ClashFree
=============================================================================

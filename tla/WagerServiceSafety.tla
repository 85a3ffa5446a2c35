------------------------- MODULE WagerServiceSafety -------------------------
(***************************************************************************)
(* Proofs about WagerService, for every set of requests, retriers, wallets *)
(* and commands, every retry policy and every bound: that it is well       *)
(* typed, that Serialised is an invariant, and what follows from it.       *)
(***************************************************************************)
EXTENDS WagerService, TLAPS

(* A process in a transaction has something to work on: a retrier past its
   claim has a row.  Typing needs it to look the command up.               *)
WorkOK ==
    /\ \A k \in Workers : pc[k] # "idle" => work[k] \in Requests
    /\ \A k \in Workers : pc[k] \in {"idle", "lock", "decide", "commit", "fail"}
    /\ \A r \in Requests : pc[r] # "fail"

TypeInv == TypeOK /\ WorkOK

(* The two halves of TypeOK: the committed tables, and everything that belongs
   to the running transactions.                                            *)
TablesOK ==
    /\ wallets \in [Wallets -> Wallet]
    /\ wagers \in [TxIds -> Row]
    /\ ledger \in [Wallets -> Seq(Entry)]
    /\ outbox \in [TxIds -> Seq(Event)]

SessionsOK ==
    /\ clock \in Nat
    /\ walletLock \in [Wallets -> Procs \cup {None}]
    /\ rowLock \in [Requests -> Workers \cup {None}]
    /\ pc \in [Procs -> {"idle", "insert", "lock", "decide", "commit", "fail", "done"}]
    /\ work \in [Workers -> Requests \cup {None}]
    /\ createdAt \in [Requests -> Nat]
    /\ now \in [Procs -> Nat]
    /\ copy \in [Procs -> Wallet]
    /\ plan \in [Procs -> Plan]
    /\ reply \in [Requests -> Reply]
    /\ aborts \in Nat

-----------------------------------------------------------------------------
(* The wait before an attempt is positive and never longer than MaxDelay, and
   no attempt is scheduled after the expiration (nextAttemptAt).           *)
LEMMA AttemptBounds ==
    ASSUME NEW t \in Nat, NEW expires \in Nat, NEW attempt
    PROVE  /\ NextAttemptAt(t, expires, attempt) \in Nat
           /\ NextAttemptAt(t, expires, attempt) <= expires
  <1>1. Delay(attempt) \in Nat
    BY PolicyAssumption DEF Delay
  <1> QED
    BY <1>1 DEF NextAttemptAt

(* Every kind of operation has a direction. *)
LEMMA DirectionType ==
    ASSUME NEW kind \in Kinds, NEW refKind
    PROVE  MovementDirection(kind, refKind) \in {"DEBIT", "CREDIT", "NONE"}
  BY DEF MovementDirection, Kinds

(* The command and the wallet of a process that is in a transaction. *)
LEMMA CommandType ==
    ASSUME TypeInv, NEW p \in Procs, pc[p] # "idle"
    PROVE  /\ TxOf(p) \in Requests
           /\ CommandOf(p) \in Commands
           /\ WalletOf(p) \in Wallets
  <1>1. TxOf(p) \in Requests
    BY DEF TypeInv, WorkOK, TxOf, Procs
  <1>2. CommandOf(p) \in Commands
    BY <1>1, CommandAssumption DEF CommandOf
  <1> QED
    BY <1>1, <1>2 DEF WalletOf, Commands

(* Whatever resolveReference and settle conclude is a plan, and a reference it
   names is a request.                                                     *)
LEMMA PlanType ==
    ASSUME NEW c \in Commands
    PROVE  PlanFor(c) \in Plan
  <1> DEFINE found == FindByExternal(c.provider, c.ref)
             u == CHOOSE x \in found : TRUE
  <1>1. Settle(None) \in Plan /\ Wait \in Plan
    BY DEF Settle, Wait, Plan, NoPlan
  <1>2. ASSUME found # {} PROVE PlanWith(c, u) \in Plan
    <2>1. u \in Requests
      BY <1>2 DEF FindByExternal
    <2>2. ValidateReference(c, Command[u]) \in FailureCodes \cup {NoCode}
      BY DEF ValidateReference, FailureCodes
    <2>3. \A d \in FailureCodes \cup {NoCode}, v \in Requests \cup {None} : Reject(d, v) \in Plan
      BY DEF Reject, Plan
    <2>4. Settle(u) \in Plan
      BY <2>1 DEF Settle, Plan
    <2> HIDE DEF u
    <2> QED
      BY <1>1, <2>1, <2>2, <2>3, <2>4 DEF PlanWith, FailureCodes
  <1> QED
    BY <1>1, <1>2 DEF PlanFor

(* The type invariant splits into the tables and the sessions. *)
LEMMA Halves == TypeOK <=> TablesOK /\ SessionsOK
  BY DEF TypeOK, TablesOK, SessionsOK

(* The rows, replies and events the actions build have their types. *)
LEMMA RowTypes ==
    /\ NoWallet \in Wallet /\ NoPlan \in Plan /\ NoRow \in Row /\ NoReply \in Reply
    /\ \A e \in Errors : ErrorReply(e) \in Reply
    /\ \A s \in Statuses, d \in FailureCodes \cup {NoCode}, b, a \in Balance,
          f \in Requests \cup {None}, c, u \in Nat : SettledRow(s, d, b, a, f, c, u) \in Row
    /\ \A c, u, n, x, i \in Nat : PendingRow(c, u, n, x, i) \in Row
    /\ \A row \in Row, b \in BOOLEAN : row.status # "NONE" => ResultOf(row, b) \in Reply
    /\ \A a \in Balance : TxEvent("Processed", a) \in Event
    /\ TxEvent("Rejected", NoMoney) \in Event /\ TxEvent("PendingReference", NoMoney) \in Event
    /\ \A v \in Nat, a \in Balance : BalanceChanged(v, a) \in Event
  <1>1. NoWallet \in Wallet /\ NoPlan \in Plan /\ NoReply \in Reply
    BY MoneyAssumption DEF NoWallet, Wallet, Money, NoPlan, Plan, NoReply, Reply, Balance
  <1>2. NoRow \in Row
    BY DEF NoRow, SettledRow, Row, Balance
  <1>3. \A e \in Errors : ErrorReply(e) \in Reply
    BY DEF ErrorReply, Reply, Balance
  <1>4. \A s \in Statuses, d \in FailureCodes \cup {NoCode}, b, a \in Balance,
           f \in Requests \cup {None}, c, u \in Nat : SettledRow(s, d, b, a, f, c, u) \in Row
    BY DEF SettledRow, Row
  <1>5. \A c, u, n, x, i \in Nat : PendingRow(c, u, n, x, i) \in Row
    BY DEF PendingRow, Row, Statuses, Balance
  <1>6. \A row \in Row, b \in BOOLEAN : row.status # "NONE" => ResultOf(row, b) \in Reply
    BY DEF ResultOf, Row, Reply
  <1>7. \A a \in Balance : TxEvent("Processed", a) \in Event
    BY DEF TxEvent, Event
  <1>8. /\ TxEvent("Rejected", NoMoney) \in Event
        /\ TxEvent("PendingReference", NoMoney) \in Event
    BY DEF TxEvent, Event, Balance
  <1>9. \A v \in Nat, a \in Balance : BalanceChanged(v, a) \in Event
    BY DEF BalanceChanged, Event
  <1> QED
    BY <1>1, <1>2, <1>3, <1>4, <1>5, <1>6, <1>7, <1>8, <1>9

(* A transaction that ends leaves well typed sessions behind. *)
LEMMA FinishTypes ==
    ASSUME TypeInv, NEW p \in Procs, NEW answer, p \in Requests => answer \in Reply,
           Finish(p, answer)
    PROVE  SessionsOK' /\ WorkOK'
  <1> USE DEF TypeInv, TypeOK, SessionsOK, WorkOK, Procs
  <1>1. clock' \in Nat /\ aborts' \in Nat
    BY DEF Finish, EndTransaction
  <1>2. /\ walletLock' \in [Wallets -> Procs \cup {None}]
        /\ rowLock' \in [Requests -> Workers \cup {None}]
        /\ createdAt' \in [Requests -> Nat]
    BY DEF Finish, EndTransaction
  <1>3. /\ now' \in [Procs -> Nat] /\ copy' \in [Procs -> Wallet]
        /\ plan' \in [Procs -> Plan]
    BY RowTypes DEF Finish, EndTransaction
  <1>4. /\ pc' \in [Procs -> {"idle", "insert", "lock", "decide", "commit", "fail", "done"}]
        /\ work' \in [Workers -> Requests \cup {None}]
        /\ reply' \in [Requests -> Reply]
    BY DEF Finish
  <1>5. WorkOK'
    BY ProcessAssumption DEF Finish
  <1> QED
    BY <1>1, <1>2, <1>3, <1>4, <1>5

(* A committed row and its events fit in their tables. *)
LEMMA WriteTypes ==
    ASSUME TypeInv, NEW p \in Procs, pc[p] # "idle",
           NEW row \in Row, row.status # "NONE", NEW events \in Seq(Event),
           Write(p, row, events)
    PROVE  /\ wagers' \in [TxIds -> Row] /\ outbox' \in [TxIds -> Seq(Event)]
           /\ SessionsOK' /\ WorkOK'
  <1>1. TxOf(p) \in TxIds
    BY CommandType DEF TxIds
  <1>2. wagers' \in [TxIds -> Row]
    BY <1>1 DEF Write, TypeInv, TypeOK
  <1>3. outbox[TxOf(p)] \o events \in Seq(Event)
    BY <1>1 DEF TypeInv, TypeOK
  <1>4. outbox' \in [TxIds -> Seq(Event)]
    BY <1>1, <1>3 DEF Write, TypeInv, TypeOK
  <1>5. ResultOf(row, FALSE) \in Reply
    BY RowTypes
  <1>6. Finish(p, ResultOf(row, FALSE))
    BY DEF Write
  <1> QED
    BY <1>2, <1>4, <1>5, <1>6, FinishTypes

(* What a committing process has in memory. *)
LEMMA CommitTypes ==
    ASSUME TypeInv, NEW p \in Procs, pc[p] # "idle"
    PROVE  /\ CreatedAt(p) \in Nat /\ UpdatedAt(p) \in Nat /\ now[p] \in Nat
           /\ plan[p] \in Plan /\ plan[p].ref \in Requests \cup {None}
           /\ plan[p].code \in FailureCodes \cup {NoCode}
           /\ copy[p] \in Wallet /\ copy[p].balance \in Money /\ copy[p].version \in Nat
           /\ CommandOf(p).amount \in Money /\ CommandOf(p).kind \in Kinds
           /\ Direction(p) \in {"DEBIT", "CREDIT", "NONE"}
  <1>1. TxOf(p) \in Requests /\ CommandOf(p) \in Commands
    BY CommandType
  <1>2. CommandOf(p).amount \in Money /\ CommandOf(p).kind \in Kinds
    BY <1>1 DEF Commands
  <1>3. Direction(p) \in {"DEBIT", "CREDIT", "NONE"}
    BY <1>2, DirectionType DEF Direction
  <1>4. wagers[TxOf(p)] \in Row
    BY <1>1 DEF TypeInv, TypeOK, TxIds
  <1>5. wagers[TxOf(p)].createdAt \in Nat /\ wagers[TxOf(p)].updatedAt \in Nat
    BY <1>4 DEF Row
  <1>6. CreatedAt(p) \in Nat /\ UpdatedAt(p) \in Nat
    BY <1>5 DEF CreatedAt, UpdatedAt, TxOf, TypeInv, TypeOK
  <1>7. now[p] \in Nat /\ plan[p] \in Plan /\ copy[p] \in Wallet
    BY DEF TypeInv, TypeOK
  <1>8. /\ plan[p].ref \in Requests \cup {None} /\ plan[p].code \in FailureCodes \cup {NoCode}
        /\ copy[p].balance \in Money /\ copy[p].version \in Nat
    BY <1>7 DEF Plan, Wallet
  <1> QED
    BY <1>2, <1>3, <1>6, <1>7, <1>8

(* A movement that is not refused leaves a balance Money can hold. *)
LEMMA BalanceInRange ==
    ASSUME TypeInv, NEW p \in Procs, pc[p] = "commit", Moves(p),
           ~LacksFunds(p), ErrorOf(p) = NoError, plan[p].verdict = "settle"
    PROVE  NewBalance(p) \in Money /\ Direction(p) \in {"DEBIT", "CREDIT"}
  <1>1. ~Overflows(p)
    BY DEF ErrorOf, NoError
  <1>2. Direction(p) \in {"DEBIT", "CREDIT"}
    BY CommitTypes DEF Moves
  <1>3. copy[p].balance \in Money /\ CommandOf(p).amount \in Money
    BY CommitTypes
  <1>4. CASE Direction(p) = "DEBIT"
    BY <1>3, <1>4, MoneyAssumption DEF LacksFunds, NewBalance, Money
  <1>5. CASE Direction(p) = "CREDIT"
    BY <1>1, <1>3, <1>5, MoneyAssumption DEF Overflows, NewBalance, Money
  <1> QED
    BY <1>2, <1>4, <1>5

-----------------------------------------------------------------------------
(* Type correctness, action by action. *)
LEMMA TypeStep ==
    ASSUME TypeInv, [Next]_vars
    PROVE  TypeInv'
  <1> USE DEF TypeInv
  <1> SUFFICES TablesOK' /\ SessionsOK' /\ WorkOK'
    BY DEF TypeOK, TablesOK, SessionsOK
  <1>0. TablesOK /\ SessionsOK /\ WorkOK
    BY Halves
  <1>db. ASSUME UNCHANGED db PROVE TablesOK'
    BY <1>db, <1>0 DEF db, TablesOK
  <1>1. ASSUME NEW w \in Wallets, CreateWallet(w)
        PROVE  TablesOK' /\ SessionsOK' /\ WorkOK'
    <2>1. SessionsOK' /\ WorkOK'
      BY <1>0, <1>1 DEF CreateWallet, SessionsOK, WorkOK
    <2>2. clock \in Nat /\ Opening[w] \in Money /\ w \in TxIds
      BY <1>0, WalletAssumption DEF SessionsOK, TxIds
    <2>3. [balance |-> Opening[w], version |-> 1, updatedAt |-> clock] \in Wallet
      BY <2>2 DEF Wallet
    <2>4. wallets' \in [Wallets -> Wallet]
      BY <1>0, <1>1, <2>3 DEF CreateWallet, TablesOK
    <2>5. CASE Opening[w] = 0
      BY <1>0, <1>1, <2>1, <2>4, <2>5 DEF CreateWallet, TablesOK
    <2>6. CASE Opening[w] # 0
      <3>1. SettledRow("PROCESSED", NoCode, 0, Opening[w], None, clock, clock) \in Row
        <4>1. 0 \in Balance /\ Opening[w] \in Balance
          BY <2>2, MoneyAssumption DEF Balance, Money
        <4> QED
          BY <4>1, <2>2, RowTypes DEF Statuses, Terminal
      <3>2. wagers' \in [TxIds -> Row]
        BY <1>0, <1>1, <2>2, <2>6, <3>1 DEF CreateWallet, OpeningRow, TablesOK
      <3> DEFINE entry == [tx |-> w, direction |-> "CREDIT", amount |-> Opening[w],
                           before |-> 0, after |-> Opening[w], at |-> clock]
                 events == << TxEvent("Processed", Opening[w]), BalanceChanged(1, Opening[w]) >>
      <3>3. entry \in Entry
        BY <2>2, MoneyAssumption DEF Entry, Money
      <3>4. ledger' \in [Wallets -> Seq(Entry)]
        <4>1. ledger' = [ledger EXCEPT ![w] = << entry >>]
          BY <1>1, <2>6 DEF CreateWallet, OpeningEntry
        <4> HIDE DEF entry
        <4>2. << entry >> \in Seq(Entry)
          BY <3>3
        <4> QED
          BY <1>0, <4>1, <4>2 DEF TablesOK
      <3>5. TxEvent("Processed", Opening[w]) \in Event /\ BalanceChanged(1, Opening[w]) \in Event
        BY <2>2, RowTypes DEF Balance
      <3>6. outbox' \in [TxIds -> Seq(Event)]
        <4>1. outbox' = [outbox EXCEPT ![w] = events]
          BY <1>1, <2>6 DEF CreateWallet, OpeningEvents
        <4>2. events \in Seq(Event)
          BY <3>5
        <4> HIDE DEF events
        <4> QED
          BY <1>0, <4>1, <4>2 DEF TablesOK
      <3> QED
        BY <2>1, <2>4, <3>2, <3>4, <3>6 DEF TablesOK
    <2> QED
      BY <2>5, <2>6
  <1>2. ASSUME NEW r \in Requests, Begin(r)
        PROVE  TablesOK' /\ SessionsOK' /\ WorkOK'
    <2>1. TablesOK'
      BY <1>0, <1>2 DEF Begin, TablesOK
    <2>2. SessionsOK' /\ WorkOK'
      BY <1>0, <1>2, ProcessAssumption DEF Begin, SessionsOK, WorkOK, Procs
    <2> QED
      BY <2>1, <2>2
  <1>3. ASSUME NEW r \in Requests, NEW e \in Errors, Refuse(r, e)
        PROVE  TablesOK' /\ SessionsOK' /\ WorkOK'
    <2>1. r \in Procs /\ ErrorReply(e) \in Reply
      BY RowTypes DEF Procs
    <2> QED
      BY <1>3, <1>db, <2>1, FinishTypes DEF Refuse
  <1>4. ASSUME NEW r \in Requests, Replay(r)
        PROVE  TablesOK' /\ SessionsOK' /\ WorkOK'
    <2> DEFINE found == FindByKey(Command[r])
               u == CHOOSE x \in found : TRUE
    <2>1. Existing(r) \in Reply
      <3>1. ErrorReply("EXTERNAL_CONFLICT") \in Reply /\ ErrorReply("IDEMPOTENCY_CONFLICT") \in Reply
        BY RowTypes DEF Errors
      <3>2. ASSUME found # {} PROVE ResultOf(wagers[u], TRUE) \in Reply
        <4>1. u \in Requests /\ wagers[u].status # "NONE"
          BY <3>2 DEF FindByKey, Present
        <4>2. wagers[u] \in Row
          BY <4>1, <1>0 DEF TablesOK, TxIds
        <4> QED
          BY <4>1, <4>2, RowTypes
      <3> QED
        BY <3>1, <3>2 DEF Existing
    <2> QED
      BY <1>4, <1>db, <2>1, FinishTypes DEF Replay, Procs
  <1>5. ASSUME NEW r \in Requests, Insert(r)
        PROVE  TablesOK' /\ SessionsOK' /\ WorkOK'
    <2>1. TablesOK'
      BY <1>0, <1>5 DEF Insert, TablesOK
    <2>2. SessionsOK' /\ WorkOK'
      BY <1>0, <1>5, ProcessAssumption DEF Insert, SessionsOK, WorkOK, Procs
    <2> QED
      BY <2>1, <2>2
  <1>6. ASSUME NEW r \in Requests, RefuseInvalid(r) \/ RefuseDangling(r) \/ RefuseMismatch(r)
        PROVE  TablesOK' /\ SessionsOK' /\ WorkOK'
    BY <1>3, <1>6 DEF RefuseInvalid, RefuseDangling, RefuseMismatch, Errors
  <1>7. ASSUME NEW p \in Procs, LockWallet(p)
        PROVE  TablesOK' /\ SessionsOK' /\ WorkOK'
    <2>1. TablesOK'
      BY <1>0, <1>7 DEF LockWallet, TablesOK
    <2>2. WalletOf(p) \in Wallets
      BY <1>7, CommandType DEF LockWallet
    <2>3. SessionsOK'
      BY <1>0, <1>7, <2>2 DEF LockWallet, SessionsOK, TablesOK, ClockAfterLock
    <2>4. WorkOK'
      BY <1>0, <1>7 DEF LockWallet, WorkOK, SessionsOK, Procs
    <2> QED
      BY <2>1, <2>3, <2>4
  <1>8. ASSUME NEW p \in Procs, Decide(p)
        PROVE  TablesOK' /\ SessionsOK' /\ WorkOK'
    <2>1. TablesOK'
      BY <1>0, <1>8 DEF Decide, TablesOK
    <2>2. PlanFor(CommandOf(p)) \in Plan
      BY <1>8, CommandType, PlanType DEF Decide
    <2>3. Reject("REFERENCE_NOT_FOUND", None) \in Plan
      BY DEF Reject, Plan, FailureCodes
    <2>4. SessionsOK'
      BY <1>0, <1>8, <2>2, <2>3 DEF Decide, SessionsOK
    <2>5. WorkOK'
      BY <1>0, <1>8 DEF Decide, WorkOK, SessionsOK, Procs
    <2> QED
      BY <2>1, <2>4, <2>5
  <1>9. ASSUME NEW p \in Procs, NEW row \in Row, row.status # "NONE",
               NEW events \in Seq(Event), pc[p] # "idle",
               Write(p, row, events), UNCHANGED << wallets, ledger >>
        PROVE  TablesOK' /\ SessionsOK' /\ WorkOK'
    BY <1>0, <1>9, WriteTypes DEF TablesOK
  <1>10. ASSUME NEW r \in Requests, CommitPending(r)
         PROVE  TablesOK' /\ SessionsOK' /\ WorkOK'
    <2> DEFINE expires == now[r] + TTL
               next == NextAttemptAt(now[r], expires, 1)
               row == PendingRow(CreatedAt(r), now[r], next, expires, 0)
    <2>1. r \in Procs /\ pc[r] # "idle"
      BY <1>10 DEF CommitPending, Committing, Procs
    <2>2. now[r] \in Nat /\ CreatedAt(r) \in Nat /\ expires \in Nat
      BY <2>1, CommitTypes, PolicyAssumption
    <2>3. row \in Row /\ row.status # "NONE"
      <3>1. next \in Nat
        BY <2>2, AttemptBounds
      <3>2. row \in Row
        BY <2>2, <3>1, RowTypes
      <3> QED
        BY <3>2 DEF PendingRow
    <2>4. << TxEvent("PendingReference", NoMoney) >> \in Seq(Event)
      BY RowTypes
    <2>5. Write(r, row, << TxEvent("PendingReference", NoMoney) >>) /\ UNCHANGED << wallets, ledger >>
      BY <1>10 DEF CommitPending
    <2> HIDE DEF row
    <2> QED
      BY <1>9, <2>1, <2>3, <2>4, <2>5
  <1>11. ASSUME NEW k \in Workers, Reschedule(k)
         PROVE  TablesOK' /\ SessionsOK' /\ WorkOK'
    <2> DEFINE row == wagers[work[k]]
               next == NextAttemptAt(now[k], row.expires, row.retries + 2)
    <2>1. k \in Procs /\ pc[k] # "idle" /\ k \notin Requests
      BY <1>11, ProcessAssumption DEF Reschedule, Committing, Procs
    <2>2. work[k] \in TxIds /\ row \in Row
      BY <1>0, <2>1 DEF WorkOK, TablesOK, TxIds
    <2>3. now[k] \in Nat /\ clock \in Nat /\ row.expires \in Nat /\ row.retries \in Nat
          /\ row.createdAt \in Nat
      BY <1>0, <2>1, <2>2 DEF SessionsOK, Row
    <2>4. next \in Nat
      BY <2>3, AttemptBounds
    <2>5. PendingRow(row.createdAt, clock, next, row.expires, row.retries + 1) \in Row
      <3>1. row.retries + 1 \in Nat
        BY <2>3
      <3> HIDE DEF row, next
      <3> QED
        BY <2>3, <2>4, <3>1, RowTypes
    <2>6. TablesOK'
      BY <1>0, <1>11, <2>2, <2>5 DEF Reschedule, TablesOK
    <2> QED
      BY <1>11, <2>1, <2>6, FinishTypes DEF Reschedule
  <1>12. ASSUME NEW p \in Procs, CommitReject(p)
         PROVE  TablesOK' /\ SessionsOK' /\ WorkOK'
    <2> DEFINE code == IF plan[p].verdict = "reject" THEN plan[p].code
                       ELSE InsufficientFundsCode(CommandOf(p).kind)
               row == SettledRow("REJECTED", code, NoMoney, NoMoney, plan[p].ref,
                                 CreatedAt(p), now[p])
    <2>1. pc[p] # "idle"
      BY <1>12 DEF CommitReject, Committing
    <2>2. code \in FailureCodes \cup {NoCode}
      BY <2>1, CommitTypes DEF InsufficientFundsCode, FailureCodes
    <2>3. row \in Row /\ row.status # "NONE"
      <3>1. "REJECTED" \in Statuses /\ NoMoney \in Balance
        BY DEF Statuses, Terminal, Balance
      <3>2. row \in Row
        BY <2>1, <2>2, <3>1, CommitTypes, RowTypes
      <3> QED
        BY <3>2 DEF SettledRow
    <2>4. << TxEvent("Rejected", NoMoney) >> \in Seq(Event)
      BY RowTypes
    <2>5. Write(p, row, << TxEvent("Rejected", NoMoney) >>) /\ UNCHANGED << wallets, ledger >>
      BY <1>12 DEF CommitReject, RejectedRow
    <2> HIDE DEF row
    <2> QED
      BY <1>9, <2>1, <2>3, <2>4, <2>5
  <1>13. ASSUME NEW p \in Procs, pc[p] # "idle", NEW b \in Balance, NEW a \in Balance
         PROVE  ProcessedRow(p, b, a) \in Row /\ ProcessedRow(p, b, a).status # "NONE"
    <2>1. SettledRow("PROCESSED", NoCode, b, a, plan[p].ref, CreatedAt(p), now[p]) \in Row
      BY <1>13, CommitTypes, RowTypes DEF Statuses, Terminal
    <2> QED
      BY <2>1 DEF ProcessedRow, SettledRow
  <1>14. ASSUME NEW p \in Procs, CommitLoss(p)
         PROVE  TablesOK' /\ SessionsOK' /\ WorkOK'
    <2> DEFINE b == copy[p].balance
               row == ProcessedRow(p, b, b)
    <2>1. pc[p] # "idle"
      BY <1>14 DEF CommitLoss, Committing
    <2>2. b \in Balance
      BY <2>1, CommitTypes DEF Balance
    <2>3. row \in Row /\ row.status # "NONE"
      BY <1>13, <2>1, <2>2
    <2>4. << TxEvent("Processed", b) >> \in Seq(Event)
      BY <2>2, RowTypes
    <2>5. Write(p, row, << TxEvent("Processed", b) >>) /\ UNCHANGED << wallets, ledger >>
      BY <1>14 DEF CommitLoss
    <2> HIDE DEF row, b
    <2> QED
      BY <1>9, <2>1, <2>3, <2>4, <2>5
  <1>15. ASSUME NEW p \in Procs, CommitMovement(p)
         PROVE  TablesOK' /\ SessionsOK' /\ WorkOK'
    <2> DEFINE w == WalletOf(p)
               before == copy[p].balance
               after == NewBalance(p)
               row == ProcessedRow(p, before, after)
               events == << TxEvent("Processed", after), BalanceChanged(copy[p].version + 1, after) >>
               entry == [tx |-> TxOf(p), direction |-> Direction(p),
                         amount |-> CommandOf(p).amount, before |-> before, after |-> after,
                         at |-> now[p]]
    <2>1. pc[p] = "commit" /\ Moves(p) /\ ~LacksFunds(p) /\ ErrorOf(p) = NoError
          /\ plan[p].verdict = "settle"
      BY <1>15 DEF CommitMovement, Committing
    <2>2. after \in Money /\ Direction(p) \in {"DEBIT", "CREDIT"}
      BY <2>1, BalanceInRange
    <2>3. before \in Money /\ copy[p].version \in Nat /\ now[p] \in Nat
          /\ CommandOf(p).amount \in Money
      BY <2>1, CommitTypes
    <2>4. w \in Wallets /\ TxOf(p) \in TxIds
      BY <2>1, CommandType DEF TxIds
    <2>5. row \in Row /\ row.status # "NONE"
      BY <1>13, <2>1, <2>2, <2>3 DEF Balance
    <2>6. events \in Seq(Event)
      <3>1. TxEvent("Processed", after) \in Event /\ BalanceChanged(copy[p].version + 1, after) \in Event
        BY <2>2, <2>3, RowTypes DEF Balance
      <3> QED
        BY <3>1
    <2>7. Write(p, row, events)
      BY <1>15 DEF CommitMovement, BalanceBefore, EventVersion
    <2>8. wallets' \in [Wallets -> Wallet]
      <3>1. [balance |-> after, version |-> copy[p].version + 1, updatedAt |-> now[p]] \in Wallet
        BY <2>2, <2>3 DEF Wallet
      <3>2. wallets' = [wallets EXCEPT ![w] =
                 [balance |-> after, version |-> copy[p].version + 1, updatedAt |-> now[p]]]
        BY <1>15 DEF CommitMovement
      <3> HIDE DEF after, w
      <3> QED
        BY <1>0, <3>1, <3>2 DEF TablesOK
    <2>9. ledger' \in [Wallets -> Seq(Entry)]
      <3>1. entry \in Entry
        BY <2>2, <2>3, <2>4 DEF Entry
      <3>2. ledger' = [ledger EXCEPT ![w] = Append(@, entry)]
        BY <1>15 DEF CommitMovement, BalanceBefore, EntryStamp
      <3> HIDE DEF entry, w
      <3> QED
        BY <1>0, <2>4, <3>1, <3>2 DEF TablesOK
    <2> HIDE DEF row, events
    <2>10. wagers' \in [TxIds -> Row] /\ outbox' \in [TxIds -> Seq(Event)] /\ SessionsOK' /\ WorkOK'
      BY <2>1, <2>5, <2>6, <2>7, WriteTypes
    <2> QED
      BY <2>8, <2>9, <2>10 DEF TablesOK
  <1>16. ASSUME NEW p \in Procs, CommitError(p)
         PROVE  TablesOK' /\ SessionsOK' /\ WorkOK'
    <2>1. TablesOK'
      BY <1>16, <1>db DEF CommitError
    <2>2. CASE p \in Requests
      <3>1. ErrorOf(p) \in Errors
        BY <1>16 DEF CommitError, ErrorOf, Errors
      <3> QED
        BY <1>16, <2>1, <2>2, <3>1, FinishTypes, RowTypes DEF CommitError
    <2>3. CASE p \notin Requests
      <3>1. EndTransaction(p) /\ pc' = [pc EXCEPT ![p] = "fail"] /\ UNCHANGED << work, reply, aborts >>
            /\ pc[p] = "commit"
        BY <1>16, <2>3 DEF CommitError
      <3>2. SessionsOK'
        BY <1>0, <3>1, RowTypes DEF SessionsOK, EndTransaction
      <3>3. WorkOK'
        BY <1>0, <2>3, <3>1 DEF WorkOK, SessionsOK, Procs
      <3> QED
        BY <2>1, <3>2, <3>3
    <2> QED
      BY <2>2, <2>3
  <1>17. ASSUME NEW k \in Workers, NEW t \in Requests, Claim(k, t)
         PROVE  TablesOK' /\ SessionsOK' /\ WorkOK'
    <2>1. TablesOK'
      BY <1>0, <1>17 DEF Claim, TablesOK
    <2>2. SessionsOK' /\ WorkOK'
      BY <1>0, <1>17, ProcessAssumption DEF Claim, SessionsOK, WorkOK, Procs
    <2> QED
      BY <2>1, <2>2
  <1>18. ASSUME NEW k \in Workers, FailPending(k)
         PROVE  TablesOK' /\ SessionsOK' /\ WorkOK'
    <2> DEFINE t == work[k]
               row == SettledRow("FAILED", "PROCESSING_FAILED", NoMoney, NoMoney, None,
                                 wagers[t].createdAt, clock)
    <2>1. k \in Procs /\ pc[k] # "idle" /\ k \notin Requests
      BY <1>18, ProcessAssumption DEF FailPending, Procs
    <2>2. t \in TxIds /\ wagers[t] \in Row /\ clock \in Nat
      BY <1>0, <2>1 DEF WorkOK, TablesOK, SessionsOK, TxIds
    <2>3. row \in Row
      <3>1. wagers[t].createdAt \in Nat
        BY <2>2 DEF Row
      <3>2. /\ "FAILED" \in Statuses /\ "PROCESSING_FAILED" \in FailureCodes
            /\ NoMoney \in Balance
        BY DEF Statuses, Terminal, FailureCodes, Balance
      <3> QED
        BY <2>2, <3>1, <3>2, RowTypes
    <2>4. wagers' = wagers \/ wagers' = [wagers EXCEPT ![t] = row]
      BY <1>18 DEF FailPending
    <2> HIDE DEF row, t
    <2>5. TablesOK'
      BY <1>0, <1>18, <2>3, <2>4 DEF FailPending, TablesOK
    <2> QED
      BY <1>18, <2>1, <2>5, FinishTypes DEF FailPending
  <1>19. ASSUME NEW p \in Procs, Abort(p)
         PROVE  TablesOK' /\ SessionsOK' /\ WorkOK'
    <2>1. TablesOK'
      BY <1>0, <1>19 DEF Abort, TablesOK
    <2>2. SessionsOK'
      BY <1>0, <1>19, RowTypes DEF Abort, EndTransaction, SessionsOK
    <2>3. WorkOK'
      BY <1>0, <1>19 DEF Abort, SessionsOK, WorkOK, Procs
    <2> QED
      BY <2>1, <2>2, <2>3
  <1>22. ASSUME NEW k \in Workers, FailAttempt(k)
         PROVE  TablesOK' /\ SessionsOK' /\ WorkOK'
    <2>1. TablesOK'
      BY <1>0, <1>22 DEF FailAttempt, TablesOK
    <2>2. SessionsOK'
      <3>1. /\ EndTransaction(k) /\ pc' = [pc EXCEPT ![k] = "fail"] /\ UNCHANGED << work, reply >>
            /\ aborts' = aborts + 1
        BY <1>22 DEF FailAttempt
      <3>2. aborts' \in Nat
        BY <1>0, <3>1 DEF SessionsOK
      <3>3. pc' \in [Procs -> {"idle", "insert", "lock", "decide", "commit", "fail", "done"}]
        BY <1>0, <3>1 DEF SessionsOK
      <3> QED
        BY <1>0, <3>1, <3>2, <3>3, RowTypes DEF SessionsOK, EndTransaction
    <2>3. WorkOK'
      BY <1>0, <1>22, ProcessAssumption DEF FailAttempt, SessionsOK, WorkOK, Procs
    <2> QED
      BY <2>1, <2>2, <2>3
  <1>20. CASE Tick
    BY <1>0, <1>20 DEF Tick, TablesOK, SessionsOK, WorkOK
  <1>21. CASE UNCHANGED vars
    BY <1>0, <1>21 DEF vars, TablesOK, SessionsOK, WorkOK
  <1> QED
    BY <1>1, <1>2, <1>4, <1>5, <1>6, <1>7, <1>8, <1>10, <1>11, <1>12, <1>14, <1>15,
       <1>16, <1>17, <1>18, <1>19, <1>20, <1>21, <1>22
    DEF Next, RequestStep, WorkerStep, Step, Quiescent

(* Every reachable state is well typed: no balance is ever negative or beyond
   the range of Money, and no row is committed in a status it cannot have. *)
THEOREM TypeCorrect == Spec => []TypeOK
  <1>1. Init => TypeInv
    BY RowTypes, ProcessAssumption DEF Init, TypeInv, TypeOK, WorkOK, Procs, TxIds
  <1>2. TypeInv /\ [Next]_vars => TypeInv'
    BY TypeStep
  <1>3. TypeInv => TypeOK
    BY DEF TypeInv
  <1> QED
    BY <1>1, <1>2, <1>3, PTL DEF Spec

-----------------------------------------------------------------------------
(***************************************************************************)
(* Serialised.                                                             *)
(***************************************************************************)
Inv == TypeInv /\ Serialised

(* The transaction of p ends: it keeps no lock, and nobody else moves. *)
Leaves(p) ==
    /\ EndTransaction(p)
    /\ \A q \in Procs \ {p} : pc'[q] = pc[q]
    /\ pc'[p] \in {"idle", "fail", "done"}
    /\ \A k \in Workers \ {p} : work'[k] = work[k]

(* A commit of p writes the row of its own transaction and, at most, the wallet
   it has locked, with stamps that are not in the future.                  *)
Commits(p) ==
    /\ \A t \in TxIds : t # TxOf(p) => wagers'[t] = wagers[t]
    /\ \A w \in Wallets : w # WalletOf(p) => wallets'[w] = wallets[w]
    /\ wagers'[TxOf(p)].updatedAt <= clock
    /\ \/ wallets' = wallets
       \/ /\ pc[p] = "commit"
          /\ wallets'[WalletOf(p)].version > 0
          /\ wallets'[WalletOf(p)].updatedAt <= clock
    /\ \/ p \in Requests /\ pc[p] = "commit" /\ pc'[p] = "done"
       \/ p \in Workers /\ pc[p] = "commit"
       \/ p \in Workers /\ pc[p] = "fail" /\ Unblocked(p) /\ StillPending(work[p])

-----------------------------------------------------------------------------
(* The transaction a process works on is nobody else's: a request writes a row
   that is not there yet, and a claimed row belongs to one retrier.        *)
LEMMA OwnRow ==
    ASSUME Inv, NEW p \in Procs, NEW k \in Workers, k # p,
           \/ p \in Requests /\ pc[p] # "done"
           \/ p \in Workers /\ pc[p] \in {"lock", "decide", "commit"}
           \/ p \in Workers /\ pc[p] = "fail" /\ Unblocked(p),
           pc[k] \in {"lock", "decide", "commit"}
    PROVE  work[k] # TxOf(p)
  <1>1. rowLock[work[k]] = k /\ wagers[work[k]].status = "PENDING_REFERENCE"
    BY DEF Inv, Serialised, LocksHeld, StillPending
  <1>2. work[k] \in Requests
    BY DEF Inv, TypeInv, WorkOK
  <1>3. CASE p \in Requests /\ pc[p] # "done"
    BY <1>1, <1>2, <1>3 DEF TxOf, Inv, Serialised, RowsHaveWallets, Present
  <1>4. CASE p \in Workers /\ pc[p] \in {"lock", "decide", "commit"}
    <2>1. rowLock[work[p]] = p
      BY <1>4 DEF Inv, Serialised, LocksHeld
    <2> QED
      BY <1>1, <1>4, <2>1, ProcessAssumption DEF TxOf
  <1>5. CASE p \in Workers /\ pc[p] = "fail" /\ Unblocked(p)
    <2>1. rowLock[work[p]] # k
      BY <1>5 DEF Unblocked, Blocks, Procs
    <2> QED
      BY <1>1, <1>5, <2>1, ProcessAssumption DEF TxOf
  <1> QED
    BY <1>3, <1>4, <1>5

(* A wallet somebody is working with exists. *)
LEMMA WalletThere ==
    ASSUME Inv, NEW p \in Procs, pc[p] \in {"lock", "decide", "commit"}
    PROVE  wallets[WalletOf(p)].version > 0
  <1>1. CASE p \in Requests
    BY <1>1 DEF Inv, Serialised, RowsHaveWallets, InFlight, WalletOf, CommandOf, TxOf
  <1>2. CASE p \notin Requests
    <2>1. p \in Workers
      BY <1>2 DEF Procs
    <2>2. work[p] \in Requests /\ wagers[work[p]].status = "PENDING_REFERENCE"
      BY <2>1 DEF Inv, TypeInv, WorkOK, Serialised, LocksHeld, StillPending
    <2> QED
      BY <1>2, <2>2 DEF Inv, Serialised, RowsHaveWallets, Present, WalletOf, CommandOf, TxOf
  <1> QED
    BY <1>1, <1>2

(* Two processes past lockWallet have different wallets. *)
LEMMA OwnWallet ==
    ASSUME Inv, NEW p \in Procs, NEW q \in Procs, p # q,
           pc[p] \in {"decide", "commit"}, pc[q] \in {"decide", "commit"}
    PROVE  WalletOf(p) # WalletOf(q)
  BY DEF Inv, Serialised, LocksHeld

(* A clash on a unique index is mutual. *)
LEMMA ClashSymmetric ==
    ASSUME NEW q, NEW r, Clash(q, r)
    PROVE  Clash(r, q)
  BY DEF Clash

(* When a transaction ends, everybody else's wallet and row stay theirs. *)
LEMMA LeaveKeeps ==
    ASSUME Inv, NEW p \in Procs, Leaves(p), Commits(p) \/ UNCHANGED << wallets, wagers >>,
           NEW q \in Procs, pc'[q] \in {"lock", "decide", "commit"}
    PROVE  /\ q # p /\ pc[q] = pc'[q]
           /\ WalletOf(q)' = WalletOf(q) /\ WalletOf(q) \in Wallets
           /\ q \in Workers => /\ work'[q] = work[q] /\ work[q] \in Requests
                               /\ wagers'[work[q]] = wagers[work[q]]
           /\ now'[q] = now[q] /\ copy'[q] = copy[q]
           /\ UpdatedAt(q)' = UpdatedAt(q)
  <1>1. q # p /\ pc[q] = pc'[q]
    BY DEF Leaves
  <1>2. q \in Workers => work'[q] = work[q] /\ work[q] \in Requests
    BY <1>1 DEF Leaves, Inv, TypeInv, WorkOK
  <1>3. q \in Workers => wagers'[work[q]] = wagers[work[q]]
    BY <1>1, <1>2, OwnRow DEF Commits, TxIds
  <1>4. WalletOf(q)' = WalletOf(q)
    BY <1>2 DEF WalletOf, CommandOf, TxOf, Procs
  <1>5. WalletOf(q) \in Wallets
    BY <1>1, CommandType DEF Inv
  <1>6. now'[q] = now[q] /\ copy'[q] = copy[q]
    BY <1>1 DEF Leaves, EndTransaction, Inv, TypeInv, TypeOK
  <1>7. q \in Requests => createdAt'[q] = createdAt[q]
    BY <1>1 DEF Leaves, EndTransaction, Inv, TypeInv, TypeOK
  <1>8. UpdatedAt(q)' = UpdatedAt(q)
    BY <1>2, <1>3, <1>7 DEF UpdatedAt, Procs
  <1> QED
    BY <1>1, <1>2, <1>3, <1>4, <1>5, <1>6, <1>8

(* The end of a transaction preserves every part of Serialised. *)
LEMMA LeaveSerialised ==
    ASSUME Inv, TypeInv', NEW p \in Procs, pc[p] # "done", Leaves(p),
           Commits(p) \/ UNCHANGED << wallets, wagers >>
    PROVE  Serialised'
  <1>0. TypeOK /\ WorkOK /\ TypeOK' /\ WorkOK'
    BY DEF Inv, TypeInv
  <1>1. LocksHeld'
    <2>1. \A q \in Procs : pc'[q] \in {"decide", "commit"} => walletLock'[WalletOf(q)'] = q
      <3> TAKE q \in Procs
      <3> HAVE pc'[q] \in {"decide", "commit"}
      <3>1. q # p /\ pc[q] = pc'[q] /\ WalletOf(q)' = WalletOf(q) /\ WalletOf(q) \in Wallets
        BY LeaveKeeps
      <3>2. walletLock[WalletOf(q)] = q
        BY <3>1 DEF Inv, Serialised, LocksHeld
      <3> QED
        BY <3>1, <3>2 DEF Leaves, EndTransaction
    <2>2. \A w \in Wallets, q \in Procs :
             walletLock'[w] = q => pc'[q] \in {"decide", "commit"} /\ WalletOf(q)' = w
      <3> TAKE w \in Wallets, q \in Procs
      <3> HAVE walletLock'[w] = q
      <3>1. walletLock[w] = q /\ q # p
        BY ProcessAssumption DEF Leaves, EndTransaction
      <3>2. pc[q] \in {"decide", "commit"} /\ WalletOf(q) = w
        BY <3>1 DEF Inv, Serialised, LocksHeld
      <3>3. pc'[q] = pc[q]
        BY <3>1 DEF Leaves
      <3> QED
        BY <3>2, <3>3, LeaveKeeps
    <2>3. \A k \in Workers : pc'[k] \in {"lock", "decide", "commit"} =>
             rowLock'[work'[k]] = k /\ StillPending(work[k])'
      <3> TAKE k \in Workers
      <3> HAVE pc'[k] \in {"lock", "decide", "commit"}
      <3>1. /\ k # p /\ pc[k] = pc'[k] /\ work'[k] = work[k] /\ work[k] \in Requests
            /\ wagers'[work[k]] = wagers[work[k]]
        BY LeaveKeeps DEF Procs
      <3>2. rowLock[work[k]] = k /\ StillPending(work[k])
        BY <3>1 DEF Inv, Serialised, LocksHeld
      <3> QED
        BY <3>1, <3>2 DEF Leaves, EndTransaction, StillPending
    <2>4. \A t \in Requests, k \in Workers :
             rowLock'[t] = k => pc'[k] \in {"lock", "decide", "commit"} /\ work'[k] = t
      <3> TAKE t \in Requests, k \in Workers
      <3> HAVE rowLock'[t] = k
      <3>1. rowLock[t] = k /\ k # p
        BY ProcessAssumption DEF Leaves, EndTransaction, Procs
      <3>2. pc[k] \in {"lock", "decide", "commit"} /\ work[k] = t
        BY <3>1 DEF Inv, Serialised, LocksHeld
      <3> QED
        BY <3>1, <3>2 DEF Leaves, Procs
    <2> QED
      BY <2>1, <2>2, <2>3, <2>4 DEF LocksHeld
  <1>p. /\ \A r \in Requests : Present(r)' => pc'[r] = "done" /\ (Present(r) \/ InFlight(r))
        /\ \A w \in Wallets : wallets[w].version > 0 => wallets'[w].version > 0
        /\ \A w \in Wallets : Present(w)' => Present(w)
    <2>1. \A w \in Wallets : wallets[w].version > 0 => wallets'[w].version > 0
      BY DEF Commits
    <2>2. CASE UNCHANGED << wallets, wagers >>
      <3>1. \A r \in Requests : Present(r)' => Present(r) /\ pc[r] = "done"
        BY <2>2 DEF Present, Inv, Serialised, RowsHaveWallets
      <3>2. \A r \in Requests : pc[r] = "done" => pc'[r] = "done"
        BY DEF Leaves, Procs
      <3> QED
        BY <2>1, <2>2, <3>1, <3>2 DEF Present
    <2>3. CASE Commits(p)
      <3>1. TxOf(p) \in Requests
        BY <1>0, <2>3 DEF Commits, TxOf, WorkOK
      <3>2. \A w \in Wallets : Present(w)' => Present(w)
        BY <2>3, <3>1, ProcessAssumption DEF Commits, TxIds, Present
      <3>3. ASSUME NEW r \in Requests, r # TxOf(p), Present(r)'
            PROVE  pc'[r] = "done" /\ Present(r)
        <4>1. Present(r)
          BY <2>3, <3>3 DEF Commits, TxIds, Present
        <4>2. pc[r] = "done"
          BY <4>1 DEF Inv, Serialised, RowsHaveWallets
        <4> QED
          BY <4>1, <4>2 DEF Leaves, Procs
      <3>4. pc'[TxOf(p)] = "done" /\ (Present(TxOf(p)) \/ InFlight(TxOf(p)))
        <4>1. CASE p \in Requests
          BY <2>3, <4>1, ProcessAssumption DEF Commits, TxOf, InFlight
        <4>2. CASE p \in Workers
          <5>1. StillPending(work[p]) /\ TxOf(p) = work[p]
            BY <2>3, <4>2, ProcessAssumption
            DEF Commits, TxOf, Inv, Serialised, LocksHeld
          <5>2. Present(work[p]) /\ pc[work[p]] = "done"
            BY <3>1, <5>1 DEF StillPending, Present, Inv, Serialised, RowsHaveWallets
          <5> QED
            BY <3>1, <4>2, <5>1, <5>2, ProcessAssumption DEF Leaves, Procs
        <4> QED
          BY <4>1, <4>2 DEF Procs
      <3> QED
        BY <2>1, <3>2, <3>3, <3>4
    <2> QED
      BY <2>2, <2>3
  <1>i. \A r \in Requests : InFlight(r)' => InFlight(r)
    BY DEF InFlight, Leaves, Procs
  <1>2. RowsHaveWallets'
    <2>1. \A r \in Requests : Command[r].wallet \in Wallets
      BY CommandAssumption DEF Commands
    <2> QED
      BY <1>p, <1>i, <2>1 DEF RowsHaveWallets, Inv, Serialised
  <1>3. CopyIsCurrent'
    <2> SUFFICES ASSUME NEW q \in Procs, pc'[q] \in {"decide", "commit"}
                 PROVE  copy'[q] = wallets'[WalletOf(q)']
      BY DEF CopyIsCurrent
    <2>1. /\ q # p /\ pc[q] = pc'[q] /\ WalletOf(q)' = WalletOf(q) /\ WalletOf(q) \in Wallets
          /\ copy'[q] = copy[q]
      BY LeaveKeeps
    <2>2. copy[q] = wallets[WalletOf(q)]
      BY <2>1 DEF Inv, Serialised, CopyIsCurrent
    <2>3. wallets'[WalletOf(q)] = wallets[WalletOf(q)]
      BY <2>1, OwnWallet DEF Commits
    <2> QED
      BY <2>1, <2>2, <2>3
  <1>4. ClockAhead'
    <2>0. clock' = clock /\ clock \in Nat
      BY <1>0 DEF Leaves, EndTransaction, TypeOK
    <2>1. \A w \in Wallets : wallets'[w].updatedAt <= clock'
      BY <2>0 DEF Commits, Inv, Serialised, ClockAhead
    <2>2. \A r \in Requests : wagers'[r].updatedAt <= clock'
      BY <2>0 DEF Commits, Inv, Serialised, ClockAhead, TxIds
    <2>3. \A r \in Requests : createdAt'[r] <= clock'
      BY <2>0 DEF Leaves, EndTransaction, Inv, Serialised, ClockAhead
    <2>4. ASSUME NEW q \in Procs, pc'[q] \in {"decide", "commit"}
          PROVE  /\ now'[q] <= clock' /\ UpdatedAt(q)' <= now'[q]
                 /\ wallets'[WalletOf(q)'].updatedAt <= now'[q]
      <3>1. /\ q # p /\ pc[q] = pc'[q] /\ WalletOf(q)' = WalletOf(q) /\ WalletOf(q) \in Wallets
            /\ now'[q] = now[q] /\ UpdatedAt(q)' = UpdatedAt(q)
        BY <2>4, LeaveKeeps
      <3>2. /\ now[q] <= clock /\ UpdatedAt(q) <= now[q]
            /\ wallets[WalletOf(q)].updatedAt <= now[q]
        BY <2>4, <3>1 DEF Inv, Serialised, ClockAhead
      <3>3. wallets'[WalletOf(q)] = wallets[WalletOf(q)]
        BY <2>4, <3>1, OwnWallet DEF Commits
      <3> QED
        BY <2>0, <3>1, <3>2, <3>3
    <2> QED
      BY <2>1, <2>2, <2>3, <2>4 DEF ClockAhead
  <1>5. ClashFree'
    BY <1>p, <1>i DEF ClashFree, Clash, Inv, Serialised
  <1> QED
    BY <1>1, <1>2, <1>3, <1>4, <1>5 DEF Serialised

(* Finish ends the transaction and leaves everybody else alone. *)
LEMMA FinishLeaves ==
    ASSUME TypeInv, NEW p \in Procs, NEW answer, Finish(p, answer)
    PROVE  Leaves(p) /\ (p \in Requests => pc'[p] = "done")
  BY DEF Finish, Leaves, TypeInv, TypeOK

(* What a committing process writes obeys Commits. *)
LEMMA WriteCommits ==
    ASSUME Inv, NEW p \in Procs, pc[p] = "commit", NEW row, row.updatedAt = now[p],
           NEW events, Write(p, row, events),
           \/ wallets' = wallets
           \/ wallets' = [wallets EXCEPT ![WalletOf(p)] =
                 [balance |-> NewBalance(p), version |-> copy[p].version + 1,
                  updatedAt |-> now[p]]]
    PROVE  Leaves(p) /\ Commits(p)
  <1>1. Leaves(p) /\ (p \in Requests => pc'[p] = "done")
    BY FinishLeaves DEF Write, Inv
  <1>2. /\ TxOf(p) \in Requests /\ WalletOf(p) \in Wallets
        /\ wagers \in [TxIds -> Row] /\ wallets \in [Wallets -> Wallet]
    BY CommandType DEF Inv, TypeInv, TypeOK
  <1>3. now[p] <= clock
    BY DEF Inv, Serialised, ClockAhead
  <1>4. /\ \A t \in TxIds : t # TxOf(p) => wagers'[t] = wagers[t]
        /\ wagers'[TxOf(p)] = row
    BY <1>2 DEF Write, TxIds
  <1>5. \A w \in Wallets : w # WalletOf(p) => wallets'[w] = wallets[w]
    BY <1>2
  <1>6. copy[p].version \in Nat
    BY CommitTypes DEF Inv
  <1>7. \/ wallets' = wallets
        \/ wallets'[WalletOf(p)].version > 0 /\ wallets'[WalletOf(p)].updatedAt <= clock
    <2>1. CASE wallets' = wallets
      BY <2>1
    <2>2. CASE wallets' = [wallets EXCEPT ![WalletOf(p)] =
                 [balance |-> NewBalance(p), version |-> copy[p].version + 1,
                  updatedAt |-> now[p]]]
      <3>1. wallets'[WalletOf(p)] = [balance |-> NewBalance(p), version |-> copy[p].version + 1,
                                     updatedAt |-> now[p]]
        BY <1>2, <2>2
      <3>2. /\ wallets'[WalletOf(p)].version = copy[p].version + 1
            /\ wallets'[WalletOf(p)].updatedAt = now[p]
        BY <3>1
      <3> QED
        BY <1>3, <1>6, <3>2
    <2> QED
      BY <2>1, <2>2
  <1> QED
    BY <1>1, <1>3, <1>4, <1>5, <1>7 DEF Commits, Procs

(* Serialised is inductive, action by action. *)
LEMMA SerialisedStep ==
    ASSUME Inv, [Next]_vars
    PROVE  Serialised'
  <1>t. TypeInv'
    BY TypeStep DEF Inv
  <1>0. TypeOK /\ WorkOK /\ LocksHeld /\ RowsHaveWallets /\ CopyIsCurrent /\ ClockAhead /\ ClashFree
    BY DEF Inv, TypeInv, Serialised
  <1>1. ASSUME NEW w \in Wallets, CreateWallet(w) PROVE Serialised'
    <2>0. /\ wallets[w] = NoWallet
          /\ wallets' = [wallets EXCEPT ![w] =
                           [balance |-> Opening[w], version |-> 1, updatedAt |-> clock]]
          /\ UNCHANGED << clock, walletLock, rowLock, pc, work, createdAt, now, copy >>
      BY <1>1 DEF CreateWallet
    <2>1. \A t \in Requests : wagers'[t] = wagers[t]
      BY <1>0, <1>1, ProcessAssumption DEF CreateWallet, TypeOK, TxIds
    <2>2. /\ wallets'[w].version = 1 /\ wallets'[w].updatedAt = clock
          /\ \A v \in Wallets \ {w} : wallets'[v] = wallets[v]
      BY <1>0, <2>0 DEF TypeOK
    <2>3. \A q \in Procs : WalletOf(q)' = WalletOf(q)
      BY <2>0 DEF WalletOf, CommandOf, TxOf
    <2>4. ASSUME NEW q \in Procs, pc[q] \in {"decide", "commit"}
          PROVE  /\ WalletOf(q) \in Wallets \ {w} /\ wallets'[WalletOf(q)] = wallets[WalletOf(q)]
                 /\ UpdatedAt(q)' = UpdatedAt(q)
      <3>1. wallets[WalletOf(q)].version > 0 /\ WalletOf(q) \in Wallets
        BY <2>4, WalletThere, CommandType DEF Inv
      <3>2. WalletOf(q) # w
        BY <2>0, <3>1 DEF NoWallet
      <3>3. q \notin Requests => work[q] \in Requests
        BY <1>0, <2>4 DEF WorkOK, Procs
      <3> QED
        BY <2>0, <2>1, <2>2, <3>1, <3>2, <3>3 DEF UpdatedAt
    <2>5. LocksHeld'
      <3>1. \A k \in Workers : pc[k] \in {"lock", "decide", "commit"} => StillPending(work[k])'
        BY <1>0, <2>0, <2>1 DEF LocksHeld, StillPending, WorkOK
      <3> QED
        BY <1>0, <2>0, <2>3, <3>1 DEF LocksHeld
    <2>6. RowsHaveWallets'
      <3>1. \A r \in Requests : /\ Present(r)' = Present(r) /\ InFlight(r)' = InFlight(r)
                                /\ Command[r].wallet \in Wallets
        BY <2>0, <2>1, CommandAssumption DEF Present, InFlight, Commands
      <3>2. \A v \in Wallets : wallets[v].version > 0 => wallets'[v].version > 0
        BY <2>2
      <3>3. \A v \in Wallets \ {w} : Present(v)' = Present(v)
        BY <1>0, <1>1 DEF CreateWallet, Present, TypeOK, TxIds
      <3>4. \A v \in Wallets : Present(v)' => wallets'[v].version > 0
        BY <1>0, <2>2, <3>2, <3>3 DEF RowsHaveWallets
      <3> QED
        BY <1>0, <2>0, <3>1, <3>2, <3>4 DEF RowsHaveWallets
    <2>7. CopyIsCurrent'
      BY <1>0, <2>0, <2>3, <2>4 DEF CopyIsCurrent
    <2>8. ClockAhead'
      <3>1. \A v \in Wallets : wallets'[v].updatedAt <= clock
        <4>1. clock \in Nat
          BY <1>0 DEF TypeOK
        <4>2. \A v \in Wallets : wallets[v].updatedAt <= clock
          BY <1>0 DEF ClockAhead
        <4> QED
          BY <2>2, <4>1, <4>2
      <3>2. \A q \in Procs : pc'[q] \in {"decide", "commit"} =>
               /\ now'[q] <= clock' /\ UpdatedAt(q)' <= now'[q]
               /\ wallets'[WalletOf(q)'].updatedAt <= now'[q]
        BY <1>0, <2>0, <2>3, <2>4 DEF ClockAhead
      <3> QED
        BY <1>0, <2>0, <2>1, <3>1, <3>2 DEF ClockAhead
    <2>9. ClashFree'
      BY <1>0, <2>0, <2>1 DEF ClashFree, Clash, Present, InFlight
    <2> QED
      BY <2>5, <2>6, <2>7, <2>8, <2>9 DEF Serialised
  <1>2. ASSUME NEW r \in Requests, Begin(r) PROVE Serialised'
    <2>0. /\ pc[r] = "idle" /\ r \in Procs /\ r \notin Workers
          /\ pc' = [pc EXCEPT ![r] = "insert"] /\ createdAt' = [createdAt EXCEPT ![r] = clock]
          /\ UNCHANGED << clock, wallets, wagers, walletLock, rowLock, work, now, copy >>
      BY <1>2, ProcessAssumption DEF Begin, Procs
    <2>1. /\ \A q \in Procs \ {r} : pc'[q] = pc[q]
          /\ pc'[r] = "insert"
          /\ createdAt'[r] = clock /\ \A q \in Requests \ {r} : createdAt'[q] = createdAt[q]
      BY <1>0, <2>0 DEF TypeOK
    <2>2. \A q \in Procs : WalletOf(q)' = WalletOf(q) /\ (q # r => UpdatedAt(q)' = UpdatedAt(q))
      BY <2>0, <2>1 DEF WalletOf, CommandOf, TxOf, UpdatedAt
    <2>3. \A q \in Requests : Present(q)' = Present(q) /\ InFlight(q)' = InFlight(q)
      BY <2>0, <2>1 DEF Present, InFlight, Procs
    <2>4. LocksHeld'
      BY <1>0, <2>0, <2>1, <2>2 DEF LocksHeld, StillPending, Procs
    <2>5. RowsHaveWallets'
      BY <1>0, <2>0, <2>1, <2>3 DEF RowsHaveWallets, Present, Procs
    <2>6. CopyIsCurrent'
      BY <1>0, <2>0, <2>1, <2>2 DEF CopyIsCurrent
    <2>7. ClockAhead'
      <3>1. clock \in Nat
        BY <1>0 DEF TypeOK
      <3> QED
        BY <1>0, <2>0, <2>1, <2>2, <3>1 DEF ClockAhead
    <2>8. ClashFree'
      BY <1>0, <2>3 DEF ClashFree, Clash
    <2> QED
      BY <2>4, <2>5, <2>6, <2>7, <2>8 DEF Serialised
  <1>3. ASSUME NEW r \in Requests, NEW e, pc[r] # "done", Refuse(r, e) PROVE Serialised'
    <2>1. r \in Procs
      BY DEF Procs
    <2>2. Leaves(r)
      BY <1>3, <2>1, FinishLeaves DEF Refuse, Inv
    <2> QED
      BY <1>t, <1>3, <2>1, <2>2, LeaveSerialised DEF Refuse, db
  <1>4. ASSUME NEW r \in Requests, RefuseInvalid(r) \/ RefuseDangling(r) \/ RefuseMismatch(r)
        PROVE  Serialised'
    BY <1>3, <1>4 DEF RefuseInvalid, RefuseDangling, RefuseMismatch
  <1>5. ASSUME NEW r \in Requests, Replay(r) PROVE Serialised'
    <2>1. r \in Procs
      BY DEF Procs
    <2>2. Leaves(r)
      BY <1>5, <2>1, FinishLeaves DEF Replay, Inv
    <2> QED
      BY <1>t, <1>5, <2>1, <2>2, LeaveSerialised DEF Replay, db
  <1>6. ASSUME NEW r \in Requests, Insert(r) PROVE Serialised'
    <2>0. /\ pc[r] = "insert" /\ r \in Procs /\ r \notin Workers
          /\ pc' = [pc EXCEPT ![r] = "lock"]
          /\ UNCHANGED << clock, wallets, wagers, walletLock, rowLock, work, createdAt, now, copy >>
      BY <1>6, ProcessAssumption DEF Insert, Procs
    <2>1. /\ \A q \in Procs \ {r} : pc'[q] = pc[q]
          /\ pc'[r] = "lock"
      BY <1>0, <2>0 DEF TypeOK
    <2>2. \A q \in Procs : WalletOf(q)' = WalletOf(q) /\ UpdatedAt(q)' = UpdatedAt(q)
      BY <2>0 DEF WalletOf, CommandOf, TxOf, UpdatedAt
    <2>3. /\ \A q \in Requests : Present(q)' = Present(q)
          /\ \A q \in Requests \ {r} : InFlight(q)' = InFlight(q)
      BY <2>0, <2>1 DEF Present, InFlight, Procs
    <2>4. LocksHeld'
      BY <1>0, <2>0, <2>1, <2>2 DEF LocksHeld, StillPending, Procs
    <2>5. RowsHaveWallets'
      <3>1. wallets[Command[r].wallet].version > 0
        BY <1>6 DEF Insert, WalletExists
      <3> QED
        BY <1>0, <2>0, <2>1, <2>3, <3>1 DEF RowsHaveWallets, Present, Procs
    <2>6. CopyIsCurrent'
      BY <1>0, <2>0, <2>1, <2>2 DEF CopyIsCurrent
    <2>7. ClockAhead'
      BY <1>0, <2>0, <2>1, <2>2 DEF ClockAhead
    <2>8. ClashFree'
      <3>1. \A q \in Requests : Clash(q, r) /\ (Present(q) \/ InFlight(q)) => q = r
        BY <1>6, <2>0 DEF Insert, Unblocked, Blocks, InsertBlocks, Procs
      <3> QED
        BY <1>0, <2>3, <3>1, ClashSymmetric DEF ClashFree, Clash
    <2> QED
      BY <2>4, <2>5, <2>6, <2>7, <2>8 DEF Serialised
  <1>7. ASSUME NEW p \in Procs, LockWallet(p) PROVE Serialised'
    <2> DEFINE w == WalletOf(p)
    <2>0. /\ pc[p] = "lock" /\ walletLock' = [walletLock EXCEPT ![w] = p]
          /\ pc' = [pc EXCEPT ![p] = "decide"]
          /\ copy' = [copy EXCEPT ![p] = wallets[w]] /\ now' = [now EXCEPT ![p] = clock]
          /\ UNCHANGED << clock, wallets, wagers, rowLock, work, createdAt >>
      BY <1>7 DEF LockWallet, ClockAfterLock
    <2>1. w \in Wallets /\ walletLock[w] = None
      <3>1. w \in Wallets
        BY <2>0, CommandType DEF Inv
      <3>2. \A q \in Procs : walletLock[w] # q
        BY <1>7, <2>0 DEF LockWallet, Unblocked, Blocks, WalletLockBlocks, Conflicts, WalletLockMode
      <3> QED
        BY <1>0, <3>1, <3>2 DEF TypeOK
    <2>2. \A q \in Procs : WalletOf(q)' = WalletOf(q) /\ UpdatedAt(q)' = UpdatedAt(q)
      BY <2>0 DEF WalletOf, CommandOf, TxOf, UpdatedAt
    <2> HIDE DEF w
    <2>3. /\ \A q \in Procs \ {p} : pc'[q] = pc[q] /\ copy'[q] = copy[q] /\ now'[q] = now[q]
          /\ pc'[p] = "decide" /\ copy'[p] = wallets[w] /\ now'[p] = clock
          /\ walletLock'[w] = p /\ \A v \in Wallets \ {w} : walletLock'[v] = walletLock[v]
      BY <1>0, <2>0, <2>1 DEF TypeOK
    <2>4. LocksHeld'
      <3>1. \A q \in Procs : pc'[q] \in {"decide", "commit"} => walletLock'[WalletOf(q)'] = q
        <4> TAKE q \in Procs
        <4> HAVE pc'[q] \in {"decide", "commit"}
        <4>1. CASE q = p
          BY <2>2, <2>3, <4>1 DEF w
        <4>2. CASE q # p
          <5>1. pc[q] \in {"decide", "commit"} /\ walletLock[WalletOf(q)] = q
            BY <1>0, <2>3, <4>2 DEF LocksHeld
          <5>2. WalletOf(q) \in Wallets
            BY <5>1, CommandType DEF Inv
          <5> QED
            BY <2>1, <2>2, <2>3, <5>1, <5>2, ProcessAssumption
        <4> QED
          BY <4>1, <4>2
      <3>2. \A v \in Wallets, q \in Procs :
               walletLock'[v] = q => pc'[q] \in {"decide", "commit"} /\ WalletOf(q)' = v
        <4> TAKE v \in Wallets, q \in Procs
        <4> HAVE walletLock'[v] = q
        <4>1. CASE v = w
          BY <2>2, <2>3, <4>1 DEF w
        <4>2. CASE v # w
          BY <1>0, <2>0, <2>2, <2>3, <4>2 DEF LocksHeld
        <4> QED
          BY <4>1, <4>2
      <3>3. \A k \in Workers : pc'[k] \in {"lock", "decide", "commit"} =>
               rowLock'[work'[k]] = k /\ StillPending(work[k])'
        BY <1>0, <2>0, <2>3 DEF LocksHeld, StillPending, Procs
      <3>4. \A t \in Requests, k \in Workers :
               rowLock'[t] = k => pc'[k] \in {"lock", "decide", "commit"} /\ work'[k] = t
        BY <1>0, <2>0, <2>3 DEF LocksHeld, Procs
      <3> QED
        BY <3>1, <3>2, <3>3, <3>4 DEF LocksHeld
    <2>5. \A q \in Requests : Present(q)' = Present(q) /\ InFlight(q)' = InFlight(q)
      BY <2>0, <2>3 DEF Present, InFlight, Procs
    <2>6. RowsHaveWallets'
      BY <1>0, <2>0, <2>3, <2>5 DEF RowsHaveWallets, Present, Procs
    <2>7. CopyIsCurrent'
      BY <1>0, <2>0, <2>2, <2>3 DEF CopyIsCurrent, w
    <2>8. ClockAhead'
      <3>1. UpdatedAt(p) <= clock
        <4>1. p \notin Requests => work[p] \in Requests
          BY <1>0, <2>0 DEF WorkOK, Procs
        <4> QED
          BY <1>0, <4>1 DEF UpdatedAt, ClockAhead
      <3>2. clock \in Nat /\ wallets[w].updatedAt <= clock
        BY <1>0, <2>1 DEF TypeOK, ClockAhead
      <3>3. \A q \in Procs : pc'[q] \in {"decide", "commit"} =>
               /\ now'[q] <= clock' /\ UpdatedAt(q)' <= now'[q]
               /\ wallets'[WalletOf(q)'].updatedAt <= now'[q]
        BY <1>0, <2>0, <2>2, <2>3, <3>1, <3>2 DEF ClockAhead, w
      <3> QED
        BY <1>0, <2>0, <3>3 DEF ClockAhead
    <2>9. ClashFree'
      BY <1>0, <2>5 DEF ClashFree, Clash
    <2> QED
      BY <2>4, <2>6, <2>7, <2>8, <2>9 DEF Serialised
  <1>8. ASSUME NEW p \in Procs, Decide(p) PROVE Serialised'
    <2>0. /\ pc[p] = "decide" /\ pc' = [pc EXCEPT ![p] = "commit"]
          /\ UNCHANGED << clock, wallets, wagers, walletLock, rowLock, work, createdAt, now, copy >>
      BY <1>8 DEF Decide
    <2>1. /\ \A q \in Procs \ {p} : pc'[q] = pc[q]
          /\ pc'[p] = "commit"
      BY <1>0, <2>0 DEF TypeOK
    <2>2. \A q \in Procs : WalletOf(q)' = WalletOf(q) /\ UpdatedAt(q)' = UpdatedAt(q)
      BY <2>0 DEF WalletOf, CommandOf, TxOf, UpdatedAt
    <2>3. \A q \in Requests : Present(q)' = Present(q) /\ InFlight(q)' = InFlight(q)
      BY <2>0, <2>1 DEF Present, InFlight, Procs
    <2>4. LocksHeld'
      BY <1>0, <2>0, <2>1, <2>2 DEF LocksHeld, StillPending, Procs
    <2>5. RowsHaveWallets'
      BY <1>0, <2>0, <2>1, <2>3 DEF RowsHaveWallets, Present, Procs
    <2>6. CopyIsCurrent'
      BY <1>0, <2>0, <2>1, <2>2 DEF CopyIsCurrent
    <2>7. ClockAhead'
      BY <1>0, <2>0, <2>1, <2>2 DEF ClockAhead
    <2>8. ClashFree'
      BY <1>0, <2>3 DEF ClashFree, Clash
    <2> QED
      BY <2>4, <2>5, <2>6, <2>7, <2>8 DEF Serialised
  <1>9. ASSUME NEW p \in Procs, pc[p] = "commit", Leaves(p), Commits(p) PROVE Serialised'
    BY <1>t, <1>9, LeaveSerialised
  <1>10. ASSUME NEW r \in Requests, CommitPending(r) PROVE Serialised'
    <2>1. r \in Procs /\ pc[r] = "commit" /\ wallets' = wallets
      BY <1>10 DEF CommitPending, Committing, Procs
    <2>2. PICK next, expires :
             Write(r, PendingRow(CreatedAt(r), now[r], next, expires, 0),
                   << TxEvent("PendingReference", NoMoney) >>)
      BY <1>10 DEF CommitPending
    <2>3. PendingRow(CreatedAt(r), now[r], next, expires, 0).updatedAt = now[r]
      BY DEF PendingRow
    <2> QED
      BY <1>9, <2>1, <2>2, <2>3, WriteCommits
  <1>11. ASSUME NEW k \in Workers, Reschedule(k) PROVE Serialised'
    <2>1. k \in Procs /\ pc[k] = "commit" /\ wallets' = wallets /\ work[k] \in Requests
      BY <1>0, <1>11 DEF Reschedule, Committing, Procs, WorkOK
    <2>2. TxOf(k) = work[k] /\ Leaves(k)
      BY <1>11, <2>1, FinishLeaves, ProcessAssumption DEF Reschedule, TxOf, Inv
    <2>3. PICK created, next, expires, retries :
             wagers' = [wagers EXCEPT ![work[k]] =
                          PendingRow(created, clock, next, expires, retries)]
      BY <1>11 DEF Reschedule
    <2>4. wagers'[work[k]].updatedAt = clock /\ \A t \in TxIds \ {work[k]} : wagers'[t] = wagers[t]
      BY <1>0, <2>1, <2>3 DEF PendingRow, TypeOK, TxIds
    <2>5. Commits(k)
      BY <1>0, <2>1, <2>2, <2>4 DEF Commits, TypeOK
    <2> QED
      BY <1>9, <2>1, <2>2, <2>5
  <1>12. ASSUME NEW p \in Procs, CommitReject(p) PROVE Serialised'
    <2>1. pc[p] = "commit" /\ wallets' = wallets
      BY <1>12 DEF CommitReject, Committing
    <2>2. PICK code : Write(p, SettledRow("REJECTED", code, NoMoney, NoMoney, plan[p].ref,
                                          CreatedAt(p), now[p]),
                            << TxEvent("Rejected", NoMoney) >>)
      BY <1>12 DEF CommitReject, RejectedRow
    <2>3. SettledRow("REJECTED", code, NoMoney, NoMoney, plan[p].ref,
                     CreatedAt(p), now[p]).updatedAt = now[p]
      BY DEF SettledRow
    <2> QED
      BY <1>9, <2>1, <2>2, <2>3, WriteCommits
  <1>13. ASSUME NEW p \in Procs, CommitLoss(p) PROVE Serialised'
    <2>1. pc[p] = "commit" /\ wallets' = wallets
      BY <1>13 DEF CommitLoss, Committing
    <2>2. PICK b : Write(p, ProcessedRow(p, b, b), << TxEvent("Processed", b) >>)
      BY <1>13 DEF CommitLoss
    <2>3. ProcessedRow(p, b, b).updatedAt = now[p]
      BY DEF ProcessedRow, SettledRow
    <2> QED
      BY <1>9, <2>1, <2>2, <2>3, WriteCommits
  <1>14. ASSUME NEW p \in Procs, CommitMovement(p) PROVE Serialised'
    <2>1. pc[p] = "commit"
      BY <1>14 DEF CommitMovement, Committing
    <2>2. wallets' = [wallets EXCEPT ![WalletOf(p)] =
             [balance |-> NewBalance(p), version |-> copy[p].version + 1, updatedAt |-> now[p]]]
      BY <1>14 DEF CommitMovement
    <2>3. PICK b, a, e : Write(p, ProcessedRow(p, b, a), e)
      BY <1>14 DEF CommitMovement
    <2>4. ProcessedRow(p, b, a).updatedAt = now[p]
      BY DEF ProcessedRow, SettledRow
    <2> QED
      BY <1>9, <2>1, <2>2, <2>3, <2>4, WriteCommits
  <1>15. ASSUME NEW p \in Procs, CommitError(p) PROVE Serialised'
    <2>1. pc[p] = "commit" /\ UNCHANGED << wallets, wagers >>
      BY <1>15 DEF CommitError, db
    <2>2. Leaves(p)
      <3>1. CASE p \in Requests
        BY <1>15, <3>1, FinishLeaves DEF CommitError, Inv
      <3>2. CASE p \notin Requests
        BY <1>0, <1>15, <3>2 DEF CommitError, Leaves, TypeOK
      <3> QED
        BY <3>1, <3>2
    <2> QED
      BY <1>t, <2>1, <2>2, LeaveSerialised
  <1>16. ASSUME NEW k \in Workers, NEW t \in Requests, Claim(k, t) PROVE Serialised'
    <2>0. /\ pc[k] = "idle" /\ k \in Procs /\ k \notin Requests
          /\ wagers[t].status = "PENDING_REFERENCE" /\ rowLock[t] = None
          /\ rowLock' = [rowLock EXCEPT ![t] = k] /\ work' = [work EXCEPT ![k] = t]
          /\ pc' = [pc EXCEPT ![k] = "lock"]
          /\ UNCHANGED << clock, wallets, wagers, walletLock, createdAt, now, copy >>
      BY <1>16, ProcessAssumption DEF Claim, Due, Procs
    <2>1. /\ \A q \in Procs \ {k} : pc'[q] = pc[q]
          /\ \A j \in Workers \ {k} : work'[j] = work[j]
          /\ pc'[k] = "lock" /\ work'[k] = t
          /\ rowLock'[t] = k /\ \A u \in Requests \ {t} : rowLock'[u] = rowLock[u]
      BY <1>0, <2>0 DEF TypeOK
    <2>2. \A q \in Procs \ {k} : WalletOf(q)' = WalletOf(q) /\ UpdatedAt(q)' = UpdatedAt(q)
      BY <2>0, <2>1 DEF WalletOf, CommandOf, TxOf, UpdatedAt, Procs
    <2>3. \A q \in Requests : Present(q)' = Present(q) /\ InFlight(q)' = InFlight(q)
      BY <2>0, <2>1 DEF Present, InFlight, Procs
    <2>4. LocksHeld'
      <3>1. \A q \in Procs : pc'[q] \in {"decide", "commit"} => walletLock'[WalletOf(q)'] = q
        BY <1>0, <2>0, <2>1, <2>2 DEF LocksHeld
      <3>2. \A v \in Wallets, q \in Procs :
               walletLock'[v] = q => pc'[q] \in {"decide", "commit"} /\ WalletOf(q)' = v
        BY <1>0, <2>0, <2>1, <2>2 DEF LocksHeld
      <3>3. \A j \in Workers : pc'[j] \in {"lock", "decide", "commit"} =>
               rowLock'[work'[j]] = j /\ StillPending(work[j])'
        <4> TAKE j \in Workers
        <4> HAVE pc'[j] \in {"lock", "decide", "commit"}
        <4>1. CASE j = k
          BY <2>0, <2>1, <4>1 DEF StillPending
        <4>2. CASE j # k
          <5>1. rowLock[work[j]] = j /\ StillPending(work[j]) /\ work[j] \in Requests
            BY <1>0, <2>1, <4>2 DEF LocksHeld, WorkOK, Procs
          <5>2. work[j] # t
            BY <2>0, <5>1, ProcessAssumption DEF Procs
          <5> QED
            BY <2>0, <2>1, <4>2, <5>1, <5>2 DEF StillPending
        <4> QED
          BY <4>1, <4>2
      <3>4. \A u \in Requests, j \in Workers :
               rowLock'[u] = j => pc'[j] \in {"lock", "decide", "commit"} /\ work'[j] = u
        <4> TAKE u \in Requests, j \in Workers
        <4> HAVE rowLock'[u] = j
        <4>1. CASE u = t
          BY <2>1, <4>1
        <4>2. CASE u # t
          <5>1. rowLock[u] = j
            BY <2>1, <4>2
          <5>2. pc[j] \in {"lock", "decide", "commit"} /\ work[j] = u
            BY <1>0, <5>1 DEF LocksHeld
          <5> QED
            BY <2>0, <2>1, <5>2 DEF Procs
        <4> QED
          BY <4>1, <4>2
      <3> QED
        BY <3>1, <3>2, <3>3, <3>4 DEF LocksHeld
    <2>5. RowsHaveWallets'
      BY <1>0, <2>0, <2>1, <2>3 DEF RowsHaveWallets, Present, Procs
    <2>6. CopyIsCurrent'
      BY <1>0, <2>0, <2>1, <2>2 DEF CopyIsCurrent
    <2>7. ClockAhead'
      BY <1>0, <2>0, <2>1, <2>2 DEF ClockAhead
    <2>8. ClashFree'
      BY <1>0, <2>3 DEF ClashFree, Clash
    <2> QED
      BY <2>4, <2>5, <2>6, <2>7, <2>8 DEF Serialised
  <1>17. ASSUME NEW k \in Workers, FailPending(k) PROVE Serialised'
    <2>1. /\ k \in Procs /\ pc[k] = "fail" /\ Unblocked(k) /\ wallets' = wallets
          /\ work[k] \in Requests
      BY <1>0, <1>17 DEF FailPending, Procs, WorkOK
    <2>2. TxOf(k) = work[k] /\ Leaves(k)
      BY <1>17, <2>1, FinishLeaves, ProcessAssumption DEF FailPending, TxOf, Inv
    <2>3. CASE ~StillPending(work[k])
      <3>1. wagers' = wagers
        BY <1>17, <2>3 DEF FailPending
      <3> QED
        BY <1>t, <2>1, <2>2, <3>1, LeaveSerialised
    <2>4. CASE StillPending(work[k])
      <3>1. PICK created : wagers' = [wagers EXCEPT ![work[k]] =
               SettledRow("FAILED", "PROCESSING_FAILED", NoMoney, NoMoney, None, created, clock)]
        BY <1>17, <2>4 DEF FailPending
      <3>2. wagers'[work[k]].updatedAt = clock /\ \A t \in TxIds \ {work[k]} : wagers'[t] = wagers[t]
        BY <1>0, <2>1, <3>1 DEF SettledRow, TypeOK, TxIds
      <3>3. Commits(k)
        BY <1>0, <2>1, <2>2, <2>4, <3>2 DEF Commits, TypeOK
      <3> QED
        BY <1>t, <2>1, <2>2, <3>3, LeaveSerialised
    <2> QED
      BY <2>3, <2>4
  <1>18. ASSUME NEW p \in Procs, Abort(p) \/ FailAttempt(p) PROVE Serialised'
    <2>1. Leaves(p) /\ pc[p] # "done" /\ UNCHANGED << wallets, wagers >>
      BY <1>0, <1>18 DEF Abort, FailAttempt, Leaves, TypeOK
    <2> QED
      BY <1>t, <2>1, LeaveSerialised
  <1>19. CASE Tick
    <2>0. /\ clock' = clock + 1 /\ clock \in Nat
          /\ UNCHANGED << wallets, wagers, walletLock, rowLock, pc, work, createdAt, now, copy >>
      BY <1>0, <1>19 DEF Tick, TypeOK
    <2>1. \A q \in Procs : WalletOf(q)' = WalletOf(q) /\ UpdatedAt(q)' = UpdatedAt(q)
      BY <2>0 DEF WalletOf, CommandOf, TxOf, UpdatedAt
    <2>2. LocksHeld' /\ RowsHaveWallets' /\ CopyIsCurrent'
      BY <1>0, <2>0, <2>1 DEF LocksHeld, StillPending, RowsHaveWallets, Present, InFlight,
                              CopyIsCurrent
    <2>3. ClockAhead'
      <3>1. /\ \A w \in Wallets : wallets[w].updatedAt \in Nat
            /\ \A r \in Requests : wagers[r].updatedAt \in Nat /\ createdAt[r] \in Nat
            /\ \A p \in Procs : now[p] \in Nat
        BY <1>0 DEF TypeOK, Wallet, Row, TxIds
      <3>2. \A n \in Nat : n <= clock => n <= clock'
        BY <2>0
      <3> QED
        BY <1>0, <2>0, <2>1, <3>1, <3>2 DEF ClockAhead
    <2>4. ClashFree'
      BY <1>0, <2>0 DEF ClashFree, Clash, Present, InFlight
    <2> QED
      BY <2>2, <2>3, <2>4 DEF Serialised
  <1>20. CASE UNCHANGED vars
    <2>1. \A q \in Procs : WalletOf(q)' = WalletOf(q) /\ UpdatedAt(q)' = UpdatedAt(q)
      BY <1>20 DEF vars, WalletOf, CommandOf, TxOf, UpdatedAt
    <2>2. LocksHeld' /\ RowsHaveWallets' /\ CopyIsCurrent'
      BY <1>0, <1>20, <2>1 DEF vars, LocksHeld, StillPending, RowsHaveWallets, Present, InFlight,
                               CopyIsCurrent
    <2>3. ClockAhead' /\ ClashFree'
      BY <1>0, <1>20, <2>1 DEF vars, ClockAhead, ClashFree, Clash, Present, InFlight
    <2> QED
      BY <2>2, <2>3 DEF Serialised
  <1> QED
    BY <1>1, <1>2, <1>4, <1>5, <1>6, <1>7, <1>8, <1>10, <1>11, <1>12, <1>13, <1>14, <1>15,
       <1>16, <1>17, <1>18, <1>19, <1>20
    DEF Next, RequestStep, WorkerStep, Step, Quiescent, Procs

-----------------------------------------------------------------------------
(* The invariant holds before anything is submitted. *)
LEMMA InvInit == Init => Inv
  <1> SUFFICES ASSUME Init PROVE Inv
    OBVIOUS
  <1>1. TypeInv
    BY RowTypes, ProcessAssumption DEF Init, TypeInv, TypeOK, WorkOK, Procs, TxIds
  <1>2. LocksHeld
    BY ProcessAssumption DEF Init, LocksHeld, Procs
  <1>3. RowsHaveWallets
    BY DEF Init, RowsHaveWallets, Present, NoRow, SettledRow, InFlight, TxIds, Procs
  <1>4. CopyIsCurrent
    BY DEF Init, CopyIsCurrent
  <1>5. ClockAhead
    BY DEF Init, ClockAhead, NoRow, SettledRow, NoWallet, TxIds
  <1>6. ClashFree
    BY DEF Init, ClashFree, Present, NoRow, SettledRow, InFlight, TxIds, Procs
  <1> QED
    BY <1>1, <1>2, <1>3, <1>4, <1>5, <1>6 DEF Inv, Serialised

(* The invariant behind the theorems of this module holds in every state. *)
LEMMA InvAlways == Spec => []Inv
  <1>1. Inv /\ [Next]_vars => Inv'
    BY TypeStep, SerialisedStep DEF Inv
  <1> QED
    BY <1>1, InvInit, PTL DEF Spec

(* Row locks and unique indexes serialise the transactions: a wallet and a
   waiting row belong to one process at a time, what it read stays current
   until it commits, and no clashing rows are ever under way.              *)
THEOREM SerialisedCorrect == Spec => []Serialised
  <1>1. Inv => Serialised
    BY DEF Inv
  <1> QED
    BY <1>1, InvAlways, PTL

(* No version check fails and no time runs backwards: ErrConcurrentUpdate and
   ErrInvalidTimestamp are never returned by Process or by a retrier.      *)
THEOREM NoLostRaceCorrect == Spec => []NoLostRace
  <1>1. Inv => NoLostRace
    <2> SUFFICES ASSUME Inv, NEW p \in Procs, pc[p] = "commit"
                 PROVE  ErrorOf(p) \in {NoError, "INVALID_MONEY"}
      BY DEF NoLostRace
    <2>1. /\ UpdatedAt(p) <= now[p] /\ copy[p] = wallets[WalletOf(p)]
          /\ wallets[WalletOf(p)].updatedAt <= now[p]
      BY DEF Inv, Serialised, ClockAhead, CopyIsCurrent
    <2>2. /\ UpdatedAt(p) \in Nat /\ now[p] \in Nat /\ copy[p].updatedAt \in Nat
      BY CommitTypes DEF Inv, Wallet
    <2>3. ~(now[p] < UpdatedAt(p)) /\ ~(now[p] < copy[p].updatedAt)
      BY <2>1, <2>2
    <2> QED
      BY <2>1, <2>3 DEF ErrorOf, StaleTransaction, StaleWallet, LostUpdate
  <1> QED
    BY <1>1, InvAlways, PTL

(* What is submitted several times is applied once. *)
THEOREM AppliedOnceCorrect == Spec => []AppliedOnce
  <1>1. Inv => AppliedOnce
    BY DEF Inv, Serialised, ClashFree, AppliedOnce
  <1> QED
    BY <1>1, InvAlways, PTL

(* No set of transactions waits on itself, whatever is submitted: the waits
   go from insert and fail to lock and from lock to the holder of the
   wallet, who waits for nobody.                                           *)
THEOREM NoLockCycleCorrect == Spec => []NoLockCycle
  <1>1. Inv => NoLockCycle
    <2> SUFFICES ASSUME Inv, NEW S \in SUBSET Procs, S # {}
                 PROVE  \E p \in S : \A q \in S : ~Blocks(q, p)
      BY DEF NoLockCycle
    <2>0. ~Conflicts(WalletLockMode, "KEY SHARE")
      BY DEF Conflicts, WalletLockMode
    <2>1. CASE \E p \in S : pc[p] \notin {"insert", "lock", "fail"}
      BY <2>1 DEF Blocks
    <2>2. CASE /\ \A p \in S : pc[p] \in {"insert", "lock", "fail"}
               /\ \E p \in S : pc[p] = "lock"
      <3>1. PICK p \in S : pc[p] = "lock"
        BY <2>2
      <3>2. ASSUME NEW q \in S PROVE ~Blocks(q, p)
        <4>1. WalletOf(p) \in Wallets /\ q \in Procs /\ pc[q] \notin {"decide", "commit"}
          BY <2>2, <3>1, CommandType DEF Inv
        <4>2. walletLock[WalletOf(p)] # q
          BY <4>1 DEF Inv, Serialised, LocksHeld
        <4> QED
          BY <2>0, <3>1, <4>2 DEF Blocks, WalletLockBlocks
      <3> QED
        BY <3>2
    <2>3. CASE \A p \in S : pc[p] \in {"insert", "fail"}
      <3>1. PICK p \in S : TRUE
        OBVIOUS
      <3>2. ASSUME NEW q \in S PROVE ~Blocks(q, p)
        <4>1. CASE pc[p] = "insert"
          BY <2>0, <2>3, <4>1 DEF Blocks, InsertBlocks, ForeignKeyBlocks, InFlight
        <4>2. CASE pc[p] = "fail"
          <5>1. p \in Workers /\ work[p] \in Requests
            BY <4>2 DEF Inv, TypeInv, WorkOK, Procs
          <5>2. rowLock[work[p]] \in Workers \cup {None} /\ q \in Procs /\ q # None
            BY <5>1, ProcessAssumption DEF Inv, TypeInv, TypeOK
          <5>3. ASSUME rowLock[work[p]] = q PROVE FALSE
            <6>1. q \in Workers
              BY <5>2, <5>3
            <6>2. pc[q] \in {"lock", "decide", "commit"}
              BY <5>1, <5>3, <6>1 DEF Inv, Serialised, LocksHeld
            <6> QED
              BY <2>3, <6>2
          <5> QED
            BY <4>2, <5>3 DEF Blocks
        <4> QED
          BY <2>3, <4>1, <4>2
      <3> QED
        BY <3>2
    <2> QED
      BY <2>1, <2>2, <2>3
  <1> QED
    BY <1>1, InvAlways, PTL

-----------------------------------------------------------------------------
(* A row that a step changes was not there or was still waiting. *)
LEMMA RowStep ==
    ASSUME Inv, [Next]_vars, NEW t \in TxIds, wagers[t].status \in Terminal
    PROVE  wagers'[t] = wagers[t]
  <1>0. TypeOK /\ WorkOK /\ Serialised /\ TypeInv
    BY DEF Inv, TypeInv
  <1>p. Present(t) /\ ~StillPending(t)
    BY DEF Present, StillPending, Terminal
  <1>1. ASSUME NEW w \in Wallets, CreateWallet(w) PROVE wagers'[t] = wagers[t]
    <2>1. ~Present(w)
      BY <1>0, <1>1 DEF CreateWallet, Serialised, RowsHaveWallets, NoWallet
    <2> QED
      BY <1>0, <1>p, <1>1, <2>1 DEF CreateWallet, TypeOK
  <1>2. ASSUME NEW p \in Procs, pc[p] = "commit", NEW row,
               wagers' = [wagers EXCEPT ![TxOf(p)] = row]
        PROVE  wagers'[t] = wagers[t]
    <2>1. CASE p \in Requests
      BY <1>0, <1>p, <1>2, <2>1 DEF TxOf, Serialised, RowsHaveWallets, TypeOK
    <2>2. CASE p \in Workers /\ p \notin Requests
      BY <1>0, <1>p, <1>2, <2>2 DEF TxOf, Serialised, LocksHeld, TypeOK
    <2> QED
      BY <2>1, <2>2 DEF Procs
  <1>3. ASSUME NEW p \in Procs, CommitReject(p) \/ CommitLoss(p) \/ CommitMovement(p)
        PROVE  wagers'[t] = wagers[t]
    <2>1. pc[p] = "commit"
      BY <1>3 DEF CommitReject, CommitLoss, CommitMovement, Committing
    <2>2. \E row : wagers' = [wagers EXCEPT ![TxOf(p)] = row]
      <3>1. CASE CommitReject(p)
        BY <3>1 DEF CommitReject, Write
      <3>2. CASE CommitLoss(p)
        BY <3>2 DEF CommitLoss, Write
      <3>3. CASE CommitMovement(p)
        BY <3>3 DEF CommitMovement, Write
      <3> QED
        BY <1>3, <3>1, <3>2, <3>3
    <2> QED
      BY <1>2, <2>1, <2>2
  <1>9. ASSUME NEW r \in Requests, CommitPending(r) PROVE wagers'[t] = wagers[t]
    BY <1>2, <1>9 DEF CommitPending, Committing, Write, Procs
  <1>10. ASSUME NEW k \in Workers, Reschedule(k) PROVE wagers'[t] = wagers[t]
    <2>1. pc[k] = "commit" /\ k \in Procs /\ TxOf(k) = work[k]
      BY <1>10, ProcessAssumption DEF Reschedule, Committing, Procs, TxOf
    <2>2. \E row : wagers' = [wagers EXCEPT ![work[k]] = row]
      BY <1>10 DEF Reschedule
    <2> QED
      BY <1>2, <2>1, <2>2
  <1>4. ASSUME NEW k \in Workers, FailPending(k) PROVE wagers'[t] = wagers[t]
    BY <1>0, <1>p, <1>4 DEF FailPending, TypeOK
  <1>5. ASSUME NEW r \in Requests,
               \/ Begin(r) \/ RefuseInvalid(r) \/ Replay(r) \/ Insert(r)
               \/ RefuseDangling(r) \/ RefuseMismatch(r)
        PROVE  wagers'[t] = wagers[t]
    BY <1>5 DEF Begin, RefuseInvalid, Replay, Insert, RefuseDangling, RefuseMismatch, Refuse, db
  <1>6. ASSUME NEW p \in Procs,
               \/ LockWallet(p) \/ Decide(p) \/ CommitError(p)
               \/ Abort(p) \/ FailAttempt(p)
        PROVE  wagers'[t] = wagers[t]
    BY <1>6 DEF LockWallet, Decide, CommitError, Abort, FailAttempt, db
  <1>7. ASSUME NEW k \in Workers, NEW u \in Requests, Claim(k, u) PROVE wagers'[t] = wagers[t]
    BY <1>7 DEF Claim
  <1>8. CASE Tick \/ UNCHANGED vars
    BY <1>8 DEF Tick, vars
  <1> QED
    BY <1>1, <1>3, <1>4, <1>5, <1>6, <1>7, <1>8, <1>9, <1>10
    DEF Next, RequestStep, WorkerStep, Step, Quiescent, Procs

(* A transaction that has been processed, rejected or failed stays as it is. *)
THEOREM TerminalRowsKeptCorrect == Spec => TerminalRowsKept
  <1>1. Inv /\ [Next]_vars =>
           [\A t \in TxIds : wagers[t].status \in Terminal => wagers'[t] = wagers[t]]_vars
    BY RowStep
  <1> QED
    BY <1>1, InvAlways, PTL DEF Spec, TerminalRowsKept

-----------------------------------------------------------------------------
(* What LedgerExplainsWallet says of one wallet, given its entries. *)
Explains(entries, wallet, opened) ==
    /\ \A i \in 1 .. Len(entries) :
          /\ entries[i].before = IF i = 1 THEN 0 ELSE entries[i - 1].after
          /\ entries[i].after = IF entries[i].direction = "DEBIT"
                                THEN entries[i].before - entries[i].amount
                                ELSE entries[i].before + entries[i].amount
    /\ wallet.balance = IF Len(entries) = 0 THEN 0 ELSE entries[Len(entries)].after
    /\ IF wallet = NoWallet THEN Len(entries) = 0
       ELSE wallet.version = 1 + Len(entries) - opened

(* LedgerExplainsWallet, stated for the ledger and the row of one wallet. *)
LEMMA ExplainsAll ==
    LedgerExplainsWallet <=> \A w \in Wallets : Explains(ledger[w], wallets[w], Opened(w))
  BY DEF LedgerExplainsWallet, Explains, Count

(* Money moves only when a wallet is created and when a movement commits. *)
LEMMA MoneyMoves ==
    ASSUME [Next]_vars
    PROVE  \/ UNCHANGED << wallets, ledger >>
           \/ \E w \in Wallets : CreateWallet(w)
           \/ \E p \in Procs : CommitMovement(p)
  <1> DEFINE Still == UNCHANGED << wallets, ledger >>
  <1>1. ASSUME NEW r \in Requests,
               \/ Begin(r) \/ RefuseInvalid(r) \/ Replay(r) \/ Insert(r)
               \/ RefuseDangling(r) \/ RefuseMismatch(r) \/ CommitPending(r)
        PROVE  Still
    BY <1>1 DEF Begin, RefuseInvalid, Replay, Insert, RefuseDangling, RefuseMismatch,
                CommitPending, Refuse, db
  <1>2. ASSUME NEW k \in Workers, Reschedule(k) \/ FailPending(k)
        PROVE  Still
    BY <1>2 DEF Reschedule, FailPending
  <1>6. ASSUME NEW k \in Workers, NEW t \in Requests, Claim(k, t)
        PROVE  Still
    BY <1>6 DEF Claim
  <1>3. ASSUME NEW p \in Procs,
               \/ LockWallet(p) \/ Decide(p) \/ CommitReject(p) \/ CommitLoss(p)
               \/ CommitError(p) \/ Abort(p) \/ FailAttempt(p)
        PROVE  Still
    BY <1>3 DEF LockWallet, Decide, CommitReject, CommitLoss, CommitError, Abort, FailAttempt, db
  <1>4. CASE Tick \/ UNCHANGED vars
    BY <1>4 DEF Tick, vars
  <1>5. ASSUME ~\E w \in Wallets : CreateWallet(w), ~\E p \in Procs : CommitMovement(p)
        PROVE  Still
    BY <1>1, <1>2, <1>3, <1>4, <1>5, <1>6
    DEF Next, RequestStep, WorkerStep, Step, Quiescent, Procs
  <1> QED
    BY <1>5

(* Every step keeps ledger, balance and version in agreement. *)
LEMMA LedgerStep ==
    ASSUME Inv, LedgerExplainsWallet, [Next]_vars
    PROVE  LedgerExplainsWallet'
  <1>0. /\ wallets \in [Wallets -> Wallet] /\ ledger \in [Wallets -> Seq(Entry)] /\ clock \in Nat
        /\ Opening \in [Wallets -> Money]
    BY WalletAssumption DEF Inv, TypeInv, TypeOK
  <1> DEFINE Ok(w) == Explains(ledger'[w], wallets'[w], Opened(w))
  <1>1. \A w \in Wallets : Explains(ledger[w], wallets[w], Opened(w))
    BY ExplainsAll
  <1> SUFFICES \A w \in Wallets : Ok(w)
    BY ExplainsAll DEF LedgerExplainsWallet, Explains, Count, Opened
  <1>2. ASSUME NEW w \in Wallets, wallets'[w] = wallets[w], ledger'[w] = ledger[w]
        PROVE  Ok(w)
    BY <1>1, <1>2
  <1> HIDE DEF Ok
  <1>3. CASE UNCHANGED << wallets, ledger >>
    BY <1>2, <1>3
  <1>4. ASSUME NEW w \in Wallets, CreateWallet(w) PROVE \A v \in Wallets : Ok(v)
    <2>1. \A v \in Wallets \ {w} : Ok(v)
      BY <1>0, <1>2, <1>4 DEF CreateWallet
    <2>2. Len(ledger[w]) = 0 /\ Opening[w] \in Money
      BY <1>0, <1>1, <1>4 DEF CreateWallet, Explains
    <2>3. /\ wallets'[w].balance = Opening[w] /\ wallets'[w].version = 1
          /\ wallets'[w] # NoWallet
      BY <1>0, <1>4 DEF CreateWallet, NoWallet
    <2>4. CASE Opening[w] = 0
      <3>1. ledger'[w] = ledger[w]
        BY <1>4, <2>4 DEF CreateWallet
      <3> QED
        <4>1. Opened(w) = 0 /\ Len(ledger'[w]) = 0
          BY <2>2, <2>4, <3>1 DEF Opened
        <4>2. Ok(w)
          BY <2>3, <2>4, <4>1 DEF Ok, Explains
        <4> QED
          BY <2>1, <4>2
    <2>5. CASE Opening[w] # 0
      <3> DEFINE e == [tx |-> w, direction |-> "CREDIT", amount |-> Opening[w],
                       before |-> 0, after |-> Opening[w], at |-> clock]
      <3>1. ledger'[w] = << e >>
        BY <1>0, <1>4, <2>5 DEF CreateWallet, OpeningEntry
      <3>2. /\ e.before = 0 /\ e.after = Opening[w] /\ e.amount = Opening[w]
            /\ e.direction = "CREDIT"
        OBVIOUS
      <3> HIDE DEF e
      <3>3. Len(ledger'[w]) = 1 /\ ledger'[w][1] = e
        BY <3>1
      <3>4. Opening[w] \in Int
        BY <2>2, MoneyAssumption DEF Money
      <3> QED
        <4>1. Opened(w) = 1
          BY <2>5 DEF Opened
        <4>2. Ok(w)
          BY <2>3, <3>2, <3>3, <3>4, <4>1 DEF Ok, Explains
        <4> QED
          BY <2>1, <4>2
    <2> QED
      BY <2>4, <2>5
  <1>5. ASSUME NEW p \in Procs, CommitMovement(p) PROVE \A v \in Wallets : Ok(v)
    <2> DEFINE w == WalletOf(p)
               e == [tx |-> TxOf(p), direction |-> Direction(p),
                     amount |-> CommandOf(p).amount, before |-> copy[p].balance,
                     after |-> NewBalance(p), at |-> now[p]]
               n == Len(ledger[w])
    <2>1. /\ pc[p] = "commit" /\ Moves(p) /\ ~LacksFunds(p) /\ ErrorOf(p) = NoError
          /\ plan[p].verdict = "settle"
      BY <1>5 DEF CommitMovement, Committing
    <2>2. w \in Wallets /\ NewBalance(p) \in Money /\ Direction(p) \in {"DEBIT", "CREDIT"}
      BY <2>1, CommandType, BalanceInRange DEF Inv
    <2>3. /\ copy[p] = wallets[w] /\ wallets[w].version > 0
          /\ copy[p].balance \in Money /\ copy[p].version \in Nat /\ CommandOf(p).amount \in Money
      BY <2>1, WalletThere, CommitTypes DEF Inv, Serialised, CopyIsCurrent
    <2>4. /\ ledger' = [ledger EXCEPT ![w] = Append(@, e)]
          /\ wallets' = [wallets EXCEPT ![w] =
                 [balance |-> NewBalance(p), version |-> copy[p].version + 1, updatedAt |-> now[p]]]
      BY <1>5 DEF CommitMovement, BalanceBefore, EntryStamp
    <2>5. /\ e.before = copy[p].balance /\ e.after = NewBalance(p)
          /\ e.amount = CommandOf(p).amount /\ e.direction = Direction(p)
      OBVIOUS
    <2> HIDE DEF w, e
    <2>6. /\ wallets'[w].balance = e.after /\ wallets'[w].version = copy[p].version + 1
      BY <1>0, <2>2, <2>4, <2>5
    <2>7. wallets'[w] # NoWallet
      BY <2>3, <2>6 DEF NoWallet
    <2>8. \A v \in Wallets \ {w} : Ok(v)
      BY <1>0, <1>2, <2>4
    <2>9. ledger[w] \in Seq(Entry) /\ n \in Nat
      BY <1>0, <2>2
    <2>10. /\ Len(ledger'[w]) = n + 1 /\ ledger'[w][n + 1] = e
           /\ \A i \in 1 .. n : ledger'[w][i] = ledger[w][i]
      <3>1. ledger'[w] = Append(ledger[w], e)
        BY <1>0, <2>2, <2>4
      <3> QED
        BY <2>9, <3>1
    <2>11. e.before = wallets[w].balance
      BY <2>3, <2>5
    <2>12. e.after = IF e.direction = "DEBIT" THEN e.before - e.amount ELSE e.before + e.amount
      BY <2>5 DEF NewBalance
    <2>13. wallets[w] # NoWallet /\ wallets[w].version = 1 + n - Opened(w) /\ Opened(w) \in {0, 1}
      <3>1. Explains(ledger[w], wallets[w], Opened(w))
        BY <1>1, <2>2
      <3>2. wallets[w] # NoWallet
        BY <2>3 DEF NoWallet
      <3>3. Opened(w) \in {0, 1}
        BY DEF Opened
      <3> QED
        BY <3>1, <3>2, <3>3 DEF Explains, n
    <2> HIDE DEF n
    <2>14. Ok(w)
      <3>1. ASSUME NEW i \in 1 .. n + 1
            PROVE  LET d == ledger'[w][i] IN
                   /\ d.before = IF i = 1 THEN 0 ELSE ledger'[w][i - 1].after
                   /\ d.after = IF d.direction = "DEBIT" THEN d.before - d.amount
                                                          ELSE d.before + d.amount
        <4>1. CASE i \in 1 .. n
          <5>1. ledger'[w][i] = ledger[w][i] /\ (i # 1 => ledger'[w][i - 1] = ledger[w][i - 1])
            BY <2>9, <2>10, <4>1
          <5> QED
            BY <1>1, <2>2, <4>1, <5>1 DEF Explains, n
        <4>2. CASE i = n + 1
          <5>1. wallets[w].balance = IF n = 0 THEN 0 ELSE ledger[w][n].after
            BY <1>1, <2>2 DEF Explains, n
          <5>2. e.before = IF i = 1 THEN 0 ELSE ledger'[w][i - 1].after
            BY <2>9, <2>10, <2>11, <4>2, <5>1
          <5> QED
            BY <2>10, <2>12, <4>2, <5>2
        <4> QED
          BY <2>9, <4>1, <4>2
      <3>2. wallets'[w].version = 1 + (n + 1) - Opened(w)
        BY <2>3, <2>6, <2>9, <2>13
      <3> QED
        BY <2>6, <2>7, <2>9, <2>10, <3>1, <3>2 DEF Ok, Explains, Opened
    <2> QED
      BY <2>8, <2>14
  <1> QED
    BY <1>3, <1>4, <1>5, MoneyMoves

(* Every balance is the sum of its ledger, entry by entry, and the version of
   a wallet counts its movements: what Reconcile recomputes is what is
   stored.                                                                 *)
THEOREM LedgerCorrect == Spec => []LedgerExplainsWallet
  <1>1. Init => LedgerExplainsWallet
    BY DEF Init, LedgerExplainsWallet, Count, NoWallet
  <1>2. Inv /\ LedgerExplainsWallet /\ [Next]_vars => LedgerExplainsWallet'
    BY LedgerStep
  <1> QED
    BY <1>1, <1>2, InvAlways, PTL DEF Spec

-----------------------------------------------------------------------------
(* What LedgerInTimeOrder says of one wallet. *)
InTimeOrder(entries, updated) ==
    \A i \in 1 .. Len(entries) :
        /\ i > 1 => entries[i - 1].at <= entries[i].at
        /\ entries[i].at <= updated

(* Every step keeps the stamps of the ledger in order: a movement is stamped
   with a time read under the wallet lock.                                 *)
LEMMA TimeOrderStep ==
    ASSUME Inv, LedgerExplainsWallet, LedgerInTimeOrder, [Next]_vars
    PROVE  LedgerInTimeOrder'
  <1>0. wallets \in [Wallets -> Wallet] /\ ledger \in [Wallets -> Seq(Entry)] /\ clock \in Nat
    BY DEF Inv, TypeInv, TypeOK
  <1>1. \A w \in Wallets : InTimeOrder(ledger[w], wallets[w].updatedAt)
    BY DEF LedgerInTimeOrder, InTimeOrder, Count
  <1> DEFINE Ok(w) == InTimeOrder(ledger'[w], wallets'[w].updatedAt)
  <1> SUFFICES \A w \in Wallets : Ok(w)
    BY DEF LedgerInTimeOrder, InTimeOrder, Count
  <1>2. ASSUME NEW w \in Wallets, wallets'[w] = wallets[w], ledger'[w] = ledger[w]
        PROVE  Ok(w)
    BY <1>1, <1>2
  <1> HIDE DEF Ok
  <1>3. CASE UNCHANGED << wallets, ledger >>
    BY <1>2, <1>3
  <1>4. ASSUME NEW w \in Wallets, CreateWallet(w) PROVE \A v \in Wallets : Ok(v)
    <2>1. \A v \in Wallets \ {w} : Ok(v)
      BY <1>0, <1>2, <1>4 DEF CreateWallet
    <2>2. Len(ledger[w]) = 0 /\ wallets'[w].updatedAt = clock
      BY <1>0, <1>4 DEF CreateWallet, LedgerExplainsWallet, Count
    <2>3. CASE Opening[w] = 0
      <3>1. ledger'[w] = ledger[w]
        BY <1>4, <2>3 DEF CreateWallet
      <3> QED
        BY <2>1, <2>2, <3>1 DEF Ok, InTimeOrder
    <2>4. CASE Opening[w] # 0
      <3>1. ledger'[w] = << OpeningEntry(w) >>
        BY <1>0, <1>4, <2>4 DEF CreateWallet
      <3>2. OpeningEntry(w).at = clock
        BY DEF OpeningEntry
      <3>3. Len(ledger'[w]) = 1 /\ ledger'[w][1].at = clock
        BY <3>1, <3>2
      <3> QED
        BY <1>0, <2>1, <2>2, <3>3 DEF Ok, InTimeOrder
    <2> QED
      BY <2>3, <2>4
  <1>5. ASSUME NEW p \in Procs, CommitMovement(p) PROVE \A v \in Wallets : Ok(v)
    <2> DEFINE w == WalletOf(p)
               e == [tx |-> TxOf(p), direction |-> Direction(p),
                     amount |-> CommandOf(p).amount, before |-> copy[p].balance,
                     after |-> NewBalance(p), at |-> now[p]]
               n == Len(ledger[w])
    <2>1. pc[p] = "commit" /\ w \in Wallets
      BY <1>5, CommandType DEF CommitMovement, Committing, Inv
    <2>2. wallets[w].updatedAt <= now[p] /\ now[p] \in Nat /\ wallets[w].updatedAt \in Nat
      BY <1>0, <2>1, CommitTypes DEF Inv, Serialised, ClockAhead, Wallet
    <2>3. /\ ledger' = [ledger EXCEPT ![w] = Append(@, e)]
          /\ wallets' = [wallets EXCEPT ![w] =
                 [balance |-> NewBalance(p), version |-> copy[p].version + 1, updatedAt |-> now[p]]]
      BY <1>5 DEF CommitMovement, BalanceBefore, EntryStamp
    <2>4. e.at = now[p]
      OBVIOUS
    <2> HIDE DEF w, e
    <2>5. wallets'[w].updatedAt = now[p] /\ ledger'[w] = Append(ledger[w], e)
      BY <1>0, <2>1, <2>3
    <2>6. \A v \in Wallets \ {w} : Ok(v)
      BY <1>0, <1>2, <2>3
    <2>7. /\ n \in Nat /\ Len(ledger'[w]) = n + 1 /\ ledger'[w][n + 1] = e
          /\ \A i \in 1 .. n : ledger'[w][i] = ledger[w][i]
      BY <1>0, <2>1, <2>5
    <2>8. \A i \in 1 .. n : ledger[w][i].at \in Nat /\ ledger[w][i].at <= wallets[w].updatedAt
      <3>1. \A i \in 1 .. n : ledger[w][i] \in Entry
        BY <1>0, <2>1
      <3> QED
        BY <1>1, <2>1, <3>1 DEF InTimeOrder, Entry
    <2>9. \A i \in 1 .. n : i > 1 => ledger[w][i - 1].at <= ledger[w][i].at
      BY <1>1, <2>1 DEF InTimeOrder
    <2> HIDE DEF n
    <2>10. ASSUME NEW i \in 1 .. n + 1
           PROVE  /\ i > 1 => ledger'[w][i - 1].at <= ledger'[w][i].at
                  /\ ledger'[w][i].at <= now[p]
      <3>1. CASE i \in 1 .. n
        <4>1. i > 1 => i - 1 \in 1 .. n
          BY <2>7, <3>1
        <4> QED
          <5>1. ledger'[w][i] = ledger[w][i] /\ (i > 1 => ledger'[w][i - 1] = ledger[w][i - 1])
            BY <2>7, <3>1, <4>1
          <5>2. ledger'[w][i].at <= now[p]
            BY <2>2, <2>8, <3>1, <5>1
          <5> QED
            BY <2>9, <3>1, <5>1, <5>2
      <3>2. CASE i = n + 1
        <4>1. i > 1 => i - 1 = n /\ n \in 1 .. n
          BY <2>7, <3>2
        <4> QED
          <5>1. ledger'[w][i].at = now[p]
            BY <2>4, <2>7, <3>2
          <5>2. ASSUME i > 1 PROVE ledger'[w][i - 1].at <= now[p]
            <6>1. ledger'[w][i - 1] = ledger[w][n]
              BY <2>7, <4>1, <5>2
            <6>2. ledger[w][n].at \in Nat /\ ledger[w][n].at <= wallets[w].updatedAt
              BY <2>8, <4>1, <5>2
            <6> QED
              BY <2>2, <6>1, <6>2
          <5> QED
            BY <2>2, <5>1, <5>2
      <3> QED
        BY <2>7, <3>1, <3>2
    <2>11. Ok(w)
      BY <2>5, <2>7, <2>10 DEF Ok, InTimeOrder
    <2> QED
      BY <2>6, <2>11
  <1> QED
    BY <1>3, <1>4, <1>5, MoneyMoves

(* The ledger of a wallet is stamped in the order of its commits and never later
   than the wallet: clock.Now is asked under the wallet lock, so that keyset
   pages by created_at see the movements in order.                         *)
THEOREM LedgerTimesCorrect == Spec => []LedgerInTimeOrder
  <1>1. Init => LedgerInTimeOrder
    BY DEF Init, LedgerInTimeOrder, Count
  <1>2. Inv /\ LedgerExplainsWallet /\ LedgerInTimeOrder /\ [Next]_vars => LedgerInTimeOrder'
    BY TimeOrderStep
  <1> QED
    BY <1>1, <1>2, InvAlways, LedgerCorrect, PTL DEF Spec
=============================================================================

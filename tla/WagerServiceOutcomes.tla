------------------------ MODULE WagerServiceOutcomes ------------------------
(***************************************************************************)
(* Proofs that what a process decides under the wallet lock still holds    *)
(* when it commits, and of what follows from it: reversals undo exactly    *)
(* one movement each, every stored row can be loaded again, a reference is *)
(* reported missing only after the wait, replies stay true and the outbox  *)
(* tells what happened to every request.                                   *)
(***************************************************************************)
EXTENDS WagerServiceSafety

DecisionInv == Inv /\ DecisionsStand /\ RowsLoadable

(* What a committing process may write for its transaction. *)
RowOf(p, row) ==
    \/ /\ plan[p].verdict = "wait"
       /\ \E stamp, next, expires, retries :
             /\ stamp \in {now[p], clock}
             /\ row = PendingRow(CreatedAt(p), stamp, next, expires, retries)
    \/ /\ plan[p].verdict \in {"reject", "settle"}
       /\ row = RejectedRow(p, IF plan[p].verdict = "reject" THEN plan[p].code
                               ELSE InsufficientFundsCode(CommandOf(p).kind))
    \/ /\ plan[p].verdict = "settle"
       /\ \E before, after \in Money :
             /\ row = ProcessedRow(p, before, after)
             /\ after - before = Signed(Direction(p), CommandOf(p).amount)

(* p commits a row of its own transaction. *)
CommitsRow(p) ==
    /\ pc[p] = "commit" /\ pc'[p] # "commit"
    /\ \E row : RowOf(p, row) /\ wagers' = [wagers EXCEPT ![TxOf(p)] = row]

-----------------------------------------------------------------------------
(* Every way the rows of requests change. *)
LEMMA RowsChange ==
    ASSUME Inv, [Next]_vars
    PROVE  \/ \A t \in Requests : wagers'[t] = wagers[t]
           \/ \E p \in Procs : CommitsRow(p)
           \/ \E k \in Workers : FailPending(k) /\ StillPending(work[k])
  <1> DEFINE Still == \A t \in Requests : wagers'[t] = wagers[t]
  <1>0. TypeInv /\ TypeOK /\ Serialised
    BY DEF Inv, TypeInv
  <1>1. ASSUME NEW w \in Wallets, CreateWallet(w) PROVE Still
    BY <1>0, <1>1, ProcessAssumption DEF CreateWallet, TypeOK, TxIds
  <1>2. ASSUME NEW r \in Requests,
               \/ Begin(r) \/ RefuseInvalid(r) \/ Replay(r) \/ Insert(r)
               \/ RefuseDangling(r) \/ RefuseMismatch(r)
        PROVE  Still
    BY <1>2 DEF Begin, RefuseInvalid, Replay, Insert, RefuseDangling, RefuseMismatch, Refuse, db
  <1>3. ASSUME NEW p \in Procs,
               \/ LockWallet(p) \/ Decide(p) \/ CommitError(p)
               \/ Abort(p) \/ FailAttempt(p)
        PROVE  Still
    BY <1>3 DEF LockWallet, Decide, CommitError, Abort, FailAttempt, db
  <1>4. ASSUME NEW k \in Workers, NEW t \in Requests, Claim(k, t) PROVE Still
    BY <1>4 DEF Claim
  <1>5. CASE Tick \/ UNCHANGED vars
    BY <1>5 DEF Tick, vars
  <1>6. ASSUME NEW k \in Workers, FailPending(k), ~StillPending(work[k]) PROVE Still
    BY <1>6 DEF FailPending
  <1>7. ASSUME NEW p \in Procs, NEW answer, pc[p] = "commit", Finish(p, answer)
        PROVE  pc'[p] # "commit"
    BY <1>0, <1>7 DEF Finish, TypeOK
  <1>8. ASSUME NEW r \in Requests, CommitPending(r) PROVE CommitsRow(r)
    <2>1. pc[r] = "commit" /\ plan[r].verdict = "wait" /\ r \in Procs
      BY <1>8 DEF CommitPending, Committing, Procs
    <2>2. PICK next, expires :
             Write(r, PendingRow(CreatedAt(r), now[r], next, expires, 0),
                   << TxEvent("PendingReference", NoMoney) >>)
      BY <1>8 DEF CommitPending
    <2>3. RowOf(r, PendingRow(CreatedAt(r), now[r], next, expires, 0))
      BY <2>1 DEF RowOf
    <2> QED
      BY <1>7, <2>1, <2>2, <2>3 DEF CommitsRow, Write
  <1>9. ASSUME NEW k \in Workers, Reschedule(k) PROVE CommitsRow(k)
    <2>1. /\ pc[k] = "commit" /\ plan[k].verdict = "wait" /\ k \in Procs
          /\ TxOf(k) = work[k] /\ CreatedAt(k) = wagers[work[k]].createdAt
      BY <1>9, ProcessAssumption DEF Reschedule, Committing, Procs, TxOf, CreatedAt
    <2>2. PICK next, expires, retries :
             wagers' = [wagers EXCEPT ![work[k]] =
                          PendingRow(wagers[work[k]].createdAt, clock, next, expires, retries)]
      BY <1>9 DEF Reschedule
    <2>3. RowOf(k, PendingRow(CreatedAt(k), clock, next, expires, retries))
      BY <2>1 DEF RowOf
    <2>4. Finish(k, NoReply)
      BY <1>9 DEF Reschedule
    <2> QED
      BY <1>7, <2>1, <2>2, <2>3, <2>4 DEF CommitsRow
  <1>10. ASSUME NEW p \in Procs, CommitReject(p) PROVE CommitsRow(p)
    <2> DEFINE code == IF plan[p].verdict = "reject" THEN plan[p].code
                       ELSE InsufficientFundsCode(CommandOf(p).kind)
    <2>1. pc[p] = "commit" /\ plan[p].verdict \in {"reject", "settle"}
      BY <1>10 DEF CommitReject, Committing
    <2>2. Write(p, RejectedRow(p, code), << TxEvent("Rejected", NoMoney) >>)
      BY <1>10 DEF CommitReject
    <2>3. RowOf(p, RejectedRow(p, code))
      BY <2>1 DEF RowOf
    <2> QED
      BY <1>7, <2>1, <2>2, <2>3 DEF CommitsRow, Write
  <1>11. ASSUME NEW p \in Procs, CommitLoss(p) PROVE CommitsRow(p)
    <2> DEFINE b == copy[p].balance
    <2>1. /\ pc[p] = "commit" /\ plan[p].verdict = "settle" /\ Direction(p) = "NONE"
          /\ Write(p, ProcessedRow(p, b, b), << TxEvent("Processed", b) >>)
      BY <1>11 DEF CommitLoss, Committing, Moves
    <2>2. b \in Money
      BY <1>0, <2>1, CommitTypes
    <2>3. b - b = Signed(Direction(p), CommandOf(p).amount)
      BY <2>1, <2>2 DEF Signed, Money
    <2>4. RowOf(p, ProcessedRow(p, b, b))
      BY <2>1, <2>2, <2>3 DEF RowOf
    <2> QED
      BY <1>7, <2>1, <2>4 DEF CommitsRow, Write
  <1>12. ASSUME NEW p \in Procs, CommitMovement(p) PROVE CommitsRow(p)
    <2> DEFINE b == copy[p].balance
               a == NewBalance(p)
    <2>1. /\ pc[p] = "commit" /\ plan[p].verdict = "settle" /\ Moves(p)
          /\ ~LacksFunds(p) /\ ErrorOf(p) = NoError
      BY <1>12 DEF CommitMovement, Committing
    <2>2. PICK events : Write(p, ProcessedRow(p, b, a), events)
      BY <1>12 DEF CommitMovement, BalanceBefore
    <2>3. /\ b \in Money /\ a \in Money /\ CommandOf(p).amount \in Money
          /\ Direction(p) \in {"DEBIT", "CREDIT"}
      BY <1>0, <2>1, CommitTypes, BalanceInRange
    <2>4. a - b = Signed(Direction(p), CommandOf(p).amount)
      BY <2>3 DEF Signed, NewBalance, Money
    <2>5. RowOf(p, ProcessedRow(p, b, a))
      BY <2>1, <2>3, <2>4 DEF RowOf
    <2> QED
      BY <1>7, <2>1, <2>2, <2>5 DEF CommitsRow, Write
  <1>13. ASSUME ~\E p \in Procs : CommitsRow(p),
                ~\E k \in Workers : FailPending(k) /\ StillPending(work[k])
         PROVE  Still
    BY <1>1, <1>2, <1>3, <1>4, <1>5, <1>6, <1>8, <1>9, <1>10, <1>11, <1>12, <1>13
    DEF Next, RequestStep, WorkerStep, Step, Quiescent, Procs
  <1> QED
    BY <1>13

(* A row of a request that becomes PROCESSED was settled by a committing
   process, which writes no other row.                                     *)
LEMMA NewlyProcessed ==
    ASSUME Inv, [Next]_vars, NEW x \in Requests,
           wagers'[x] # wagers[x], wagers'[x].status = "PROCESSED"
    PROVE  \E p \in Procs :
             /\ pc[p] = "commit" /\ pc'[p] # "commit" /\ TxOf(p) = x
             /\ plan[p].verdict = "settle" /\ wagers'[x].ref = plan[p].ref
             /\ wagers'[x].after - wagers'[x].before = Signed(Direction(p), CommandOf(p).amount)
             /\ \A y \in Requests \ {x} : wagers'[y] = wagers[y]
  <1>0. wagers \in [TxIds -> Row] /\ x \in TxIds /\ Requests \subseteq TxIds
    BY DEF Inv, TypeInv, TypeOK, TxIds
  <1>1. CASE \E k \in Workers : FailPending(k) /\ StillPending(work[k])
    <2>1. PICK k \in Workers : FailPending(k) /\ StillPending(work[k])
      BY <1>1
    <2>2. PICK created : wagers' = [wagers EXCEPT ![work[k]] =
             SettledRow("FAILED", "PROCESSING_FAILED", NoMoney, NoMoney, None, created, clock)]
      BY <2>1 DEF FailPending
    <2>3. wagers'[x] = wagers[x] \/ wagers'[x].status = "FAILED"
      BY <1>0, <2>2 DEF SettledRow
    <2> QED
      BY <2>3
  <1>2. CASE \E p \in Procs : CommitsRow(p)
    <2>1. PICK p \in Procs : CommitsRow(p)
      BY <1>2
    <2>2. PICK row : RowOf(p, row) /\ wagers' = [wagers EXCEPT ![TxOf(p)] = row]
      BY <2>1 DEF CommitsRow
    <2>3. TxOf(p) = x /\ wagers'[x] = row /\ \A y \in Requests \ {x} : wagers'[y] = wagers[y]
      BY <1>0, <2>2
    <2>4. PICK before \in Money, after \in Money :
             /\ plan[p].verdict = "settle" /\ row = ProcessedRow(p, before, after)
             /\ after - before = Signed(Direction(p), CommandOf(p).amount)
      <3>1. \A c, s, n, e, i : PendingRow(c, s, n, e, i).status # "PROCESSED"
        BY DEF PendingRow
      <3>2. \A code : RejectedRow(p, code).status # "PROCESSED"
        BY DEF RejectedRow, SettledRow
      <3> QED
        BY <2>2, <2>3, <3>1, <3>2 DEF RowOf
    <2>5. row.ref = plan[p].ref /\ row.before = before /\ row.after = after
      BY <2>4 DEF ProcessedRow, SettledRow
    <2> QED
      BY <2>1, <2>3, <2>4, <2>5 DEF CommitsRow
  <1> QED
    BY <1>1, <1>2, RowsChange

(* A row appears by the commit of its own request. *)
LEMMA NewlyPresent ==
    ASSUME Inv, [Next]_vars, NEW x \in Requests, Present(x)', ~Present(x)
    PROVE  pc[x] = "commit"
  <1>0. /\ wagers \in [TxIds -> Row] /\ x \in TxIds /\ wagers'[x] # wagers[x]
    BY DEF Inv, TypeInv, TypeOK, TxIds, Present
  <1>1. CASE \E k \in Workers : FailPending(k) /\ StillPending(work[k])
    <2>1. PICK k \in Workers : FailPending(k) /\ StillPending(work[k])
      BY <1>1
    <2>2. work[k] = x
      BY <1>0, <2>1 DEF FailPending
    <2> QED
      BY <2>1, <2>2 DEF StillPending, Present
  <1>2. CASE \E p \in Procs : CommitsRow(p)
    <2>1. PICK p \in Procs : CommitsRow(p)
      BY <1>2
    <2>2. TxOf(p) = x /\ pc[p] = "commit"
      BY <1>0, <2>1 DEF CommitsRow
    <2>3. CASE p \in Requests
      BY <2>2, <2>3 DEF TxOf
    <2>4. CASE p \notin Requests
      <3>1. p \in Workers /\ StillPending(work[p]) /\ work[p] = x
        BY <2>2, <2>4 DEF Procs, TxOf, Inv, Serialised, LocksHeld
      <3> QED
        BY <3>1 DEF StillPending, Present
    <2> QED
      BY <2>3, <2>4
  <1> QED
    BY <1>0, <1>1, <1>2, RowsChange

(* A process that comes to commit has just decided, and one that stays there
   keeps its plan, its time and its command.                               *)
LEMMA StillCommitting ==
    ASSUME Inv, [Next]_vars, NEW q \in Procs, pc'[q] = "commit"
    PROVE  \/ Decide(q)
           \/ /\ pc[q] = "commit" /\ plan'[q] = plan[q] /\ now'[q] = now[q]
              /\ TxOf(q)' = TxOf(q)
  <1>0. /\ pc \in [Procs -> {"idle", "insert", "lock", "decide", "commit", "fail", "done"}]
        /\ plan \in [Procs -> Plan] /\ now \in [Procs -> Nat]
        /\ work \in [Workers -> Requests \cup {None}]
    BY DEF Inv, TypeInv, TypeOK
  <1> DEFINE Kept == /\ pc[q] = "commit" /\ plan'[q] = plan[q] /\ now'[q] = now[q]
                     /\ TxOf(q)' = TxOf(q)
  <1>1. ASSUME NEW p \in Procs, NEW answer, Finish(p, answer) PROVE Kept
    <2>1. q # p
      BY <1>0, <1>1 DEF Finish
    <2> QED
      BY <1>0, <1>1, <2>1 DEF Finish, EndTransaction, TxOf, Procs
  <1>2. ASSUME NEW p \in Procs, EndTransaction(p), NEW x, x # "commit",
               pc' = [pc EXCEPT ![p] = x],
               \A k \in Workers : k # p => work'[k] = work[k]
        PROVE  Kept
    <2>1. q # p
      BY <1>0, <1>2
    <2> QED
      BY <1>0, <1>2, <2>1 DEF EndTransaction, TxOf, Procs
  <1>3. ASSUME NEW w \in Wallets, CreateWallet(w) PROVE Kept
    BY <1>3 DEF CreateWallet, TxOf
  <1>4. ASSUME NEW r \in Requests, Begin(r) \/ Insert(r) PROVE Kept
    BY <1>0, <1>4 DEF Begin, Insert, TxOf, Procs
  <1>5. ASSUME NEW r \in Requests,
               \/ RefuseInvalid(r) \/ Replay(r) \/ RefuseDangling(r) \/ RefuseMismatch(r)
               \/ CommitPending(r)
        PROVE  Kept
    <2>1. \E answer : Finish(r, answer)
      BY <1>5 DEF RefuseInvalid, Replay, RefuseDangling, RefuseMismatch, Refuse,
                  CommitPending, Write
    <2> QED
      BY <1>1, <2>1 DEF Procs
  <1>6. ASSUME NEW k \in Workers, Reschedule(k) \/ FailPending(k) PROVE Kept
    <2>1. \E answer : Finish(k, answer)
      BY <1>6 DEF Reschedule, FailPending
    <2> QED
      BY <1>1, <2>1 DEF Procs
  <1>7. ASSUME NEW k \in Workers, NEW t \in Requests, Claim(k, t) PROVE Kept
    BY <1>0, <1>7 DEF Claim, TxOf, Procs
  <1>8. ASSUME NEW p \in Procs, LockWallet(p) PROVE Kept
    BY <1>0, <1>8 DEF LockWallet, TxOf
  <1>9. ASSUME NEW p \in Procs, Decide(p) PROVE Decide(q) \/ Kept
    BY <1>0, <1>9 DEF Decide, TxOf
  <1>10. ASSUME NEW p \in Procs, CommitReject(p) \/ CommitLoss(p) \/ CommitMovement(p) PROVE Kept
    <2>1. \E answer : Finish(p, answer)
      BY <1>10 DEF CommitReject, CommitLoss, CommitMovement, Write
    <2> QED
      BY <1>1, <2>1
  <1>11. ASSUME NEW p \in Procs, CommitError(p) PROVE Kept
    <2>1. CASE p \in Requests
      BY <1>1, <1>11, <2>1 DEF CommitError
    <2>2. CASE p \notin Requests
      BY <1>2, <1>11, <2>2 DEF CommitError
    <2> QED
      BY <2>1, <2>2
  <1>12. ASSUME NEW p \in Procs, Abort(p) \/ FailAttempt(p) PROVE Kept
    BY <1>2, <1>12 DEF Abort, FailAttempt
  <1>13. CASE Tick \/ UNCHANGED vars
    BY <1>13 DEF Tick, vars, TxOf
  <1>14. ASSUME ~Decide(q) PROVE Kept
    BY <1>3, <1>4, <1>5, <1>6, <1>7, <1>8, <1>9, <1>10, <1>11, <1>12, <1>13, <1>14
    DEF Next, RequestStep, WorkerStep, Step, Quiescent, Procs
  <1> QED
    BY <1>14

-----------------------------------------------------------------------------
(* What PlansStand says of one plan for the command c. *)
Stands(c, pl) ==
    /\ pl.verdict = "settle" =>
          IF c.ref = NoRef THEN pl.ref = None
          ELSE /\ pl.ref \in Requests /\ Processed(pl.ref)
               /\ ValidateReference(c, Command[pl.ref]) = NoCode
               /\ RequiresReference(c.kind) => ~HasProcessedDirectReversal(pl.ref)
    /\ pl.verdict = "reject" =>
          /\ pl.code # NoCode /\ c.ref # NoRef
          /\ pl.ref # None => AllowedReferenceType(c.kind, KindOf(pl.ref))
    /\ pl.verdict = "wait" => c.ref # NoRef

(* PlansStand, stated with the standing of one plan. *)
LEMMA StandsAll ==
    PlansStand <=> \A p \in Procs : pc[p] = "commit" => Stands(CommandOf(p), plan[p])
  BY DEF PlansStand, Stands

(* What a reference that passed validateReference has in common with the command. *)
LEMMA FitsMeans ==
    ASSUME NEW c, NEW r, ValidateReference(c, r) = NoCode
    PROVE  /\ c.wallet = r.wallet /\ AllowedReferenceType(c.kind, r.kind)
           /\ RequiresReference(c.kind) => c.amount = r.amount
  BY DEF ValidateReference, SameDeal, SameAmount, NoCode

(* What resolveReference and settle conclude holds at that moment. *)
LEMMA PlanForStands ==
    ASSUME NEW c
    PROVE  Stands(c, PlanFor(c))
  <1> DEFINE found == FindByExternal(c.provider, c.ref)
             u == CHOOSE x \in found : TRUE
  <1>1. CASE c.ref = NoRef
    <2>1. PlanFor(c) = Settle(None)
      BY <1>1 DEF PlanFor
    <2>2. /\ Settle(None).verdict = "settle" /\ Settle(None).ref = None
      BY DEF Settle
    <2> QED
      BY <1>1, <2>1, <2>2 DEF Stands
  <1>2. /\ Wait.verdict = "wait"
        /\ \A d, v : Reject(d, v).verdict = "reject" /\ Reject(d, v).code = d /\ Reject(d, v).ref = v
        /\ \A v : Settle(v).verdict = "settle" /\ Settle(v).ref = v
    BY DEF Wait, Reject, Settle
  <1>3. CASE c.ref # NoRef /\ found = {}
    <2>1. PlanFor(c) = Wait
      BY <1>3 DEF PlanFor
    <2> QED
      BY <1>2, <1>3, <2>1 DEF Stands
  <1>4. CASE c.ref # NoRef /\ found # {}
    <2>1. PlanFor(c) = PlanWith(c, u)
      BY <1>4 DEF PlanFor
    <2>2. u \in Requests
      BY <1>4 DEF FindByExternal
    <2> HIDE DEF u
    <2> DEFINE code == ValidateReference(c, Command[u])
    <2>3. CASE wagers[u].status = "PENDING_REFERENCE"
      <3>1. PlanWith(c, u) = Wait
        BY <2>3 DEF PlanWith
      <3> QED
        BY <1>2, <1>4, <2>1, <3>1 DEF Stands
    <2>4. CASE wagers[u].status \notin {"PENDING_REFERENCE", "PROCESSED"}
      <3>1. PlanWith(c, u) = Reject("REFERENCE_NOT_PROCESSABLE", None)
        BY <2>4 DEF PlanWith
      <3> QED
        BY <1>2, <1>4, <2>1, <3>1 DEF Stands, NoCode
    <2>5. CASE wagers[u].status = "PROCESSED" /\ code # NoCode
      <3>1. PlanWith(c, u) = Reject(code, None)
        BY <2>5 DEF PlanWith
      <3> QED
        BY <1>2, <1>4, <2>1, <2>5, <3>1 DEF Stands
    <2>6. CASE /\ wagers[u].status = "PROCESSED" /\ code = NoCode
               /\ RequiresReference(c.kind) /\ HasProcessedDirectReversal(u)
      <3>1. PlanWith(c, u) = Reject("DUPLICATE_REVERSAL", u)
        BY <2>6 DEF PlanWith
      <3>2. AllowedReferenceType(c.kind, KindOf(u))
        BY <2>2, <2>6, FitsMeans, ProcessAssumption DEF KindOf, Procs
      <3> QED
        BY <1>2, <1>4, <2>1, <3>1, <3>2 DEF Stands, NoCode
    <2>7. CASE /\ wagers[u].status = "PROCESSED" /\ code = NoCode
               /\ ~(RequiresReference(c.kind) /\ HasProcessedDirectReversal(u))
      <3>1. PlanWith(c, u) = Settle(u)
        BY <2>7 DEF PlanWith
      <3> QED
        BY <1>2, <1>4, <2>1, <2>2, <2>7, <3>1 DEF Stands, Processed
    <2> QED
      BY <2>3, <2>4, <2>5, <2>6, <2>7
  <1> QED
    BY <1>1, <1>3, <1>4

(* The command of a process in a transaction is well formed. *)
LEMMA ValidCommand ==
    ASSUME DecisionInv, NEW p \in Procs, pc[p] \in {"lock", "decide", "commit"}
    PROVE  ValidExternalWager(CommandOf(p))
  <1>1. CASE p \in Requests
    BY <1>1 DEF DecisionInv, DecisionsStand, CommandsValid, CommandOf, TxOf
  <1>2. CASE p \notin Requests
    <2>1. /\ p \in Workers /\ work[p] \in Requests /\ StillPending(work[p])
      BY <1>2 DEF Procs, DecisionInv, Inv, TypeInv, WorkOK, Serialised, LocksHeld
    <2> QED
      BY <1>2, <2>1
      DEF DecisionInv, DecisionsStand, CommandsValid, CommandOf, TxOf, StillPending, Present
  <1> QED
    BY <1>1, <1>2

(* A plan keeps standing while its owner has the wallet: whoever could reverse
   the same reference would have to hold the same wallet.                  *)
LEMMA PlanKeepsStanding ==
    ASSUME DecisionInv, [Next]_vars, NEW q \in Procs, pc[q] = "commit", pc'[q] = "commit",
           plan'[q] = plan[q], TxOf(q)' = TxOf(q)
    PROVE  Stands(CommandOf(q), plan[q])'
  <1> DEFINE c == CommandOf(q)
             u == plan[q].ref
  <1>0. Inv /\ PlansStand
    BY DEF DecisionInv, DecisionsStand
  <1>1. Stands(c, plan[q])
    BY <1>0, StandsAll
  <1>2. CommandOf(q)' = c
    BY DEF CommandOf
  <1>3. ASSUME u \in Requests, Processed(u)
        PROVE  Processed(u)'
    <2>1. wagers'[u] = wagers[u]
      BY <1>0, <1>3, RowStep DEF Processed, Terminal, TxIds
    <2> QED
      BY <1>3, <2>1 DEF Processed
  <1>4. ASSUME u \in Requests, ValidateReference(c, Command[u]) = NoCode,
               RequiresReference(c.kind), ~HasProcessedDirectReversal(u),
               HasProcessedDirectReversal(u)'
        PROVE  FALSE
    <2>1. PICK x \in Requests : /\ wagers'[x].ref = u /\ wagers'[x].status = "PROCESSED"
                                /\ Command[x].kind \in {"REFUND", "ROLLBACK"}
      BY <1>4 DEF HasProcessedDirectReversal
    <2>2. wagers'[x] # wagers[x]
      BY <1>4, <2>1 DEF HasProcessedDirectReversal
    <2>3. PICK p \in Procs : /\ pc[p] = "commit" /\ pc'[p] # "commit" /\ TxOf(p) = x
                             /\ plan[p].verdict = "settle" /\ wagers'[x].ref = plan[p].ref
      BY <1>0, <2>1, <2>2, NewlyProcessed
    <2>4. CommandOf(p) = Command[x] /\ p # q
      BY <2>3 DEF CommandOf
    <2>5. Command[x].ref # NoRef
      BY <2>1, <2>3, <2>4, ValidCommand
      DEF ValidExternalWager, ValidExternalReference, RequiresReference
    <2>6. ValidateReference(Command[x], Command[u]) = NoCode
      BY <1>0, <2>1, <2>3, <2>4, <2>5, StandsAll DEF Stands
    <2>7. WalletOf(p) = WalletOf(q)
      BY <1>4, <2>4, <2>6, FitsMeans DEF WalletOf
    <2> QED
      BY <1>0, <2>3, <2>4, <2>7, OwnWallet
  <1> QED
    BY <1>1, <1>2, <1>3, <1>4 DEF Stands

-----------------------------------------------------------------------------
(* A request is in a transaction only if it was, or has just begun one. *)
LEMMA StillBusy ==
    ASSUME Inv, [Next]_vars, NEW r \in Requests, pc'[r] \notin {"idle", "done"}
    PROVE  pc[r] \notin {"idle", "done"} \/ ValidExternalWager(Command[r])
  <1>0. /\ pc \in [Procs -> {"idle", "insert", "lock", "decide", "commit", "fail", "done"}]
        /\ r \in Procs /\ Requests \cap Workers = {}
    BY ProcessAssumption DEF Inv, TypeInv, TypeOK, Procs
  <1> DEFINE Busy == pc[r] \notin {"idle", "done"}
  <1>1. ASSUME NEW p \in Procs, NEW answer, Finish(p, answer) PROVE Busy
    BY <1>0, <1>1 DEF Finish
  <1>2. ASSUME NEW s \in Requests, Begin(s) PROVE Busy \/ ValidExternalWager(Command[r])
    BY <1>0, <1>2 DEF Begin
  <1>3. ASSUME NEW s \in Requests, Insert(s) PROVE Busy
    BY <1>0, <1>3 DEF Insert
  <1>4. ASSUME NEW s \in Requests,
               \/ RefuseInvalid(s) \/ Replay(s) \/ RefuseDangling(s) \/ RefuseMismatch(s)
               \/ CommitPending(s)
        PROVE  Busy
    <2>1. \E answer : Finish(s, answer)
      BY <1>4 DEF RefuseInvalid, Replay, RefuseDangling, RefuseMismatch, Refuse,
                  CommitPending, Write
    <2> QED
      BY <1>1, <2>1 DEF Procs
  <1>5. ASSUME NEW k \in Workers, Reschedule(k) \/ FailPending(k) PROVE Busy
    <2>1. \E answer : Finish(k, answer)
      BY <1>5 DEF Reschedule, FailPending
    <2> QED
      BY <1>1, <2>1 DEF Procs
  <1>6. ASSUME NEW k \in Workers, NEW t \in Requests, Claim(k, t) PROVE Busy
    BY <1>0, <1>6 DEF Claim
  <1>7. ASSUME NEW p \in Procs, LockWallet(p) \/ Decide(p) PROVE Busy
    BY <1>0, <1>7 DEF LockWallet, Decide
  <1>8. ASSUME NEW p \in Procs, CommitReject(p) \/ CommitLoss(p) \/ CommitMovement(p) PROVE Busy
    <2>1. \E answer : Finish(p, answer)
      BY <1>8 DEF CommitReject, CommitLoss, CommitMovement, Write
    <2> QED
      BY <1>1, <2>1
  <1>9. ASSUME NEW p \in Procs, CommitError(p) PROVE Busy
    <2>1. CASE p \in Requests
      BY <1>1, <1>9, <2>1 DEF CommitError
    <2>2. CASE p \notin Requests
      BY <1>0, <1>9, <2>2 DEF CommitError
    <2> QED
      BY <2>1, <2>2
  <1>10. ASSUME NEW p \in Procs, Abort(p) \/ FailAttempt(p) PROVE Busy
    BY <1>0, <1>10 DEF Abort, FailAttempt
  <1>11. CASE (\E w \in Wallets : CreateWallet(w)) \/ Tick \/ UNCHANGED vars
    BY <1>11 DEF CreateWallet, Tick, vars
  <1>12. ASSUME ~ValidExternalWager(Command[r]) PROVE Busy
    BY <1>2, <1>3, <1>4, <1>5, <1>6, <1>7, <1>8, <1>9, <1>10, <1>11, <1>12
    DEF Next, RequestStep, WorkerStep, Step, Quiescent, Procs
  <1> QED
    BY <1>12

(* Every step keeps stored and running commands well formed. *)
LEMMA CommandsStep ==
    ASSUME DecisionInv, [Next]_vars
    PROVE  CommandsValid'
  <1> SUFFICES ASSUME NEW r \in Requests, Present(r)' \/ pc'[r] \notin {"idle", "done"}
               PROVE  ValidExternalWager(Command[r])
    BY DEF CommandsValid
  <1>1. Inv /\ CommandsValid
    BY DEF DecisionInv, DecisionsStand
  <1>2. CASE Present(r)'
    BY <1>1, <1>2, NewlyPresent DEF CommandsValid
  <1>3. CASE pc'[r] \notin {"idle", "done"}
    BY <1>1, <1>3, StillBusy DEF CommandsValid
  <1> QED
    BY <1>2, <1>3

(* Every step keeps what the other transactions decided true: the wallet lock
   keeps those away that could reverse the same reference. *)
LEMMA PlansStep ==
    ASSUME DecisionInv, [Next]_vars
    PROVE  PlansStand'
  <1> SUFFICES ASSUME NEW q \in Procs, pc'[q] = "commit"
               PROVE  Stands(CommandOf(q), plan[q])'
    BY StandsAll DEF PlansStand, Stands
  <1>0. Inv
    BY DEF DecisionInv
  <1>1. CASE pc[q] = "commit" /\ plan'[q] = plan[q] /\ TxOf(q)' = TxOf(q)
    BY <1>1, PlanKeepsStanding
  <1>2. CASE Decide(q)
    <2>1. /\ pc[q] = "decide" /\ wagers' = wagers /\ work' = work
          /\ plan' = [plan EXCEPT ![q] =
                        IF q \in Workers /\ Expired(now[q], wagers[work[q]].expires)
                        THEN Reject("REFERENCE_NOT_FOUND", None)
                        ELSE PlanFor(CommandOf(q))]
      BY <1>2 DEF Decide
    <2>2. plan \in [Procs -> Plan] /\ CommandOf(q)' = CommandOf(q)
      BY <1>0, <2>1 DEF Inv, TypeInv, TypeOK, CommandOf, TxOf
    <2>3. ASSUME Stands(CommandOf(q), plan'[q]) PROVE Stands(CommandOf(q), plan[q])'
      BY <2>1, <2>2, <2>3 DEF Stands, Processed, HasProcessedDirectReversal
    <2>4. CASE q \in Workers /\ Expired(now[q], wagers[work[q]].expires)
      <3>1. plan'[q] = Reject("REFERENCE_NOT_FOUND", None)
        BY <2>1, <2>2, <2>4
      <3>2. work[q] \in Requests /\ StillPending(work[q]) /\ q \notin Requests
        BY <1>0, <2>1, <2>4, ProcessAssumption DEF Inv, TypeInv, WorkOK, Serialised, LocksHeld
      <3>3. CommandOf(q).ref # NoRef
        <4>1. Rehydrates(work[q])
          BY <3>2 DEF DecisionInv, RowsLoadable, TxIds, StillPending, Present
        <4> QED
          BY <3>2, <4>1 DEF Rehydrates, RehydratedExternal, PendingReferenceState, StillPending,
                            CommandOf, TxOf
      <3>4. /\ plan'[q].verdict = "reject" /\ plan'[q].code = "REFERENCE_NOT_FOUND"
            /\ plan'[q].ref = None
        BY <3>1 DEF Reject
      <3> QED
        BY <2>3, <3>3, <3>4 DEF Stands, NoCode
    <2>5. CASE ~(q \in Workers /\ Expired(now[q], wagers[work[q]].expires))
      <3>1. plan'[q] = PlanFor(CommandOf(q))
        BY <2>1, <2>2, <2>5
      <3> QED
        BY <2>3, <3>1, PlanForStands
    <2> QED
      BY <2>4, <2>5
  <1> QED
    BY <1>0, <1>1, <1>2, StillCommitting

(* Every step keeps the processed rows true to their kind, amount and reference. *)
LEMMA RowsStep ==
    ASSUME DecisionInv, [Next]_vars
    PROVE  RowsStand'
  <1>0. Inv /\ PlansStand /\ RowsStand
    BY DEF DecisionInv, DecisionsStand
  <1>1. \A x \in Requests : Processed(x) => wagers'[x] = wagers[x]
    BY <1>0, RowStep DEF Processed, Terminal, TxIds
  <1>2. ASSUME NEW x \in Requests, Processed(x)', wagers'[x] # wagers[x]
        PROVE  \E p \in Procs :
                 /\ pc[p] = "commit" /\ pc'[p] # "commit" /\ TxOf(p) = x
                 /\ plan[p].verdict = "settle" /\ wagers'[x].ref = plan[p].ref
                 /\ wagers'[x].after - wagers'[x].before = Signed(Direction(p), CommandOf(p).amount)
                 /\ \A y \in Requests \ {x} : wagers'[y] = wagers[y]
                 /\ RequiresReference(Command[x].kind) =>
                      /\ plan[p].ref \in Requests /\ Processed(plan[p].ref)
                      /\ ValidateReference(Command[x], Command[plan[p].ref]) = NoCode
                      /\ ~HasProcessedDirectReversal(plan[p].ref)
    <2>1. PICK p \in Procs :
             /\ pc[p] = "commit" /\ pc'[p] # "commit" /\ TxOf(p) = x
             /\ plan[p].verdict = "settle" /\ wagers'[x].ref = plan[p].ref
             /\ wagers'[x].after - wagers'[x].before = Signed(Direction(p), CommandOf(p).amount)
             /\ \A y \in Requests \ {x} : wagers'[y] = wagers[y]
      BY <1>0, <1>2, NewlyProcessed DEF Processed
    <2>2. CommandOf(p) = Command[x] /\ Stands(Command[x], plan[p])
      BY <1>0, <2>1, StandsAll DEF CommandOf
    <2>3. RequiresReference(Command[x].kind) => Command[x].ref # NoRef
      BY <2>1, <2>2, ValidCommand DEF ValidExternalWager, ValidExternalReference
    <2> QED
      BY <2>1, <2>2, <2>3 DEF Stands
  <1> SUFFICES ASSUME NEW t \in Requests, Processed(t)'
               PROVE  /\ Delta(t)' = Signed(MovementDirection(Command[t].kind, KindOf(wagers'[t].ref)),
                                            Command[t].amount)
                      /\ RequiresReference(Command[t].kind) =>
                           /\ wagers'[t].ref \in Requests /\ Processed(wagers'[t].ref)
                           /\ ValidateReference(Command[t], Command[wagers'[t].ref]) = NoCode
                           /\ \A x \in Requests :
                                (/\ Processed(x)' /\ wagers'[x].ref = wagers'[t].ref
                                 /\ RequiresReference(Command[x].kind)) => x = t
    BY <1>1 DEF RowsStand, Processed
  <1>3. CASE wagers'[t] = wagers[t]
    <2>1. Processed(t) /\ Delta(t)' = Delta(t)
      BY <1>3 DEF Processed, Delta
    <2>2. ASSUME RequiresReference(Command[t].kind), NEW x \in Requests, Processed(x)',
                 wagers'[x].ref = wagers'[t].ref, RequiresReference(Command[x].kind)
          PROVE  x = t
      <3>1. CASE wagers'[x] = wagers[x]
        BY <1>0, <1>3, <2>1, <2>2, <3>1 DEF RowsStand, Processed
      <3>2. CASE wagers'[x] # wagers[x]
        <4>1. ~HasProcessedDirectReversal(wagers'[x].ref)
          BY <1>2, <2>2, <3>2
        <4> QED
          BY <1>3, <2>1, <2>2, <4>1 DEF HasProcessedDirectReversal, Processed, RequiresReference
      <3> QED
        BY <3>1, <3>2
    <2> QED
      BY <1>0, <1>3, <2>1, <2>2 DEF RowsStand
  <1>4. CASE wagers'[t] # wagers[t]
    <2>1. PICK p \in Procs :
             /\ TxOf(p) = t /\ wagers'[t].ref = plan[p].ref
             /\ wagers'[t].after - wagers'[t].before = Signed(Direction(p), CommandOf(p).amount)
             /\ \A y \in Requests \ {t} : wagers'[y] = wagers[y]
             /\ RequiresReference(Command[t].kind) =>
                  /\ plan[p].ref \in Requests /\ Processed(plan[p].ref)
                  /\ ValidateReference(Command[t], Command[plan[p].ref]) = NoCode
                  /\ ~HasProcessedDirectReversal(plan[p].ref)
      BY <1>2, <1>4
    <2>2. Delta(t)' = Signed(MovementDirection(Command[t].kind, KindOf(wagers'[t].ref)),
                             Command[t].amount)
      BY <2>1 DEF Delta, Direction, CommandOf
    <2>3. ASSUME RequiresReference(Command[t].kind), NEW x \in Requests, Processed(x)',
                 wagers'[x].ref = wagers'[t].ref, RequiresReference(Command[x].kind), x # t
          PROVE  FALSE
      BY <2>1, <2>3 DEF HasProcessedDirectReversal, Processed, RequiresReference
    <2> QED
      BY <2>1, <2>2, <2>3
  <1> QED
    BY <1>3, <1>4

-----------------------------------------------------------------------------
(* A row a committing process writes can be loaded. *)
LEMMA WrittenRowLoads ==
    ASSUME DecisionInv, NEW p \in Procs, pc[p] = "commit", NEW row, RowOf(p, row)
    PROVE  row.createdAt <= row.updatedAt /\ RehydratedExternal(CommandOf(p), row)
  <1> DEFINE c == CommandOf(p)
  <1>0. Inv /\ PlansStand /\ TypeInv /\ clock \in Nat
    BY DEF DecisionInv, DecisionsStand, Inv, TypeInv, TypeOK
  <1>1. ValidWagerAmount(c) /\ ValidExternalReference(c)
    BY ValidCommand DEF ValidExternalWager
  <1>2. Stands(c, plan[p])
    BY <1>0, StandsAll
  <1>3. CreatedAt(p) \in Nat /\ now[p] \in Nat /\ UpdatedAt(p) \in Nat
    BY <1>0, CommitTypes
  <1>4. CreatedAt(p) <= now[p] /\ now[p] <= clock
    <2>1. UpdatedAt(p) <= now[p] /\ now[p] <= clock
      BY <1>0 DEF Inv, Serialised, ClockAhead
    <2>2. CreatedAt(p) <= UpdatedAt(p)
      <3>1. CASE p \in Requests
        BY <1>3, <3>1 DEF CreatedAt, UpdatedAt
      <3>2. CASE p \notin Requests
        <4>1. work[p] \in Requests /\ StillPending(work[p])
          BY <1>0, <3>2 DEF Procs, Inv, TypeInv, WorkOK, Serialised, LocksHeld
        <4>2. Rehydrates(work[p])
          BY <4>1 DEF DecisionInv, RowsLoadable, TxIds, StillPending, Present
        <4> QED
          BY <3>2, <4>2 DEF Rehydrates, CreatedAt, UpdatedAt
      <3> QED
        BY <3>1, <3>2
    <2> QED
      BY <1>3, <2>1, <2>2
  <1>5. ASSUME NEW st, NEW cd, NEW b, NEW a, row = SettledRow(st, cd, b, a, plan[p].ref, CreatedAt(p), now[p])
        PROVE  /\ row.status = st /\ row.code = cd /\ row.before = b /\ row.after = a
               /\ row.ref = plan[p].ref /\ row.createdAt = CreatedAt(p) /\ row.updatedAt = now[p]
    BY <1>5 DEF SettledRow
  <1>6. ASSUME plan[p].verdict = "wait",
               NEW stamp \in {now[p], clock}, NEW next, NEW expires, NEW retries,
               row = PendingRow(CreatedAt(p), stamp, next, expires, retries)
        PROVE  row.createdAt <= row.updatedAt /\ RehydratedExternal(c, row)
    <2>1. /\ row.status = "PENDING_REFERENCE" /\ row.code = NoCode /\ row.before = NoMoney
          /\ row.after = NoMoney /\ row.ref = None
          /\ row.createdAt = CreatedAt(p) /\ row.updatedAt = stamp
      BY <1>6 DEF PendingRow
    <2>2. row.createdAt <= row.updatedAt
      BY <1>0, <1>3, <1>4, <1>6, <2>1
    <2>3. PendingReferenceState(c, row)
      BY <1>2, <1>6, <2>1 DEF PendingReferenceState, Stands
    <2> QED
      BY <1>1, <2>1, <2>2, <2>3 DEF RehydratedExternal, PersistedReference
  <1>7. ASSUME plan[p].verdict \in {"reject", "settle"}
        PROVE  plan[p].ref # None => c.ref # NoRef /\ AllowedReferenceType(c.kind, KindOf(plan[p].ref))
    <2>1. CASE plan[p].verdict = "reject"
      BY <1>2, <2>1 DEF Stands
    <2>2. CASE plan[p].verdict = "settle"
      BY <1>2, <2>2, FitsMeans DEF Stands, KindOf
    <2> QED
      BY <1>7, <2>1, <2>2
  <1>8. ASSUME plan[p].verdict \in {"reject", "settle"},
               row = RejectedRow(p, IF plan[p].verdict = "reject" THEN plan[p].code
                                    ELSE InsufficientFundsCode(c.kind))
        PROVE  row.createdAt <= row.updatedAt /\ RehydratedExternal(c, row)
    <2> DEFINE code == IF plan[p].verdict = "reject" THEN plan[p].code
                       ELSE InsufficientFundsCode(c.kind)
    <2>1. code # NoCode
      BY <1>2, <1>8 DEF Stands, InsufficientFundsCode, NoCode
    <2>2. /\ row.status = "REJECTED" /\ row.code = code /\ row.before = NoMoney
          /\ row.after = NoMoney /\ row.ref = plan[p].ref
          /\ row.createdAt = CreatedAt(p) /\ row.updatedAt = now[p]
      BY <1>5, <1>8 DEF RejectedRow
    <2> QED
      BY <1>1, <1>4, <1>7, <1>8, <2>1, <2>2
      DEF RehydratedExternal, PersistedReference, FailureState
  <1>9. ASSUME plan[p].verdict = "settle", NEW before \in Money, NEW after \in Money,
               row = ProcessedRow(p, before, after),
               after - before = Signed(Direction(p), c.amount)
        PROVE  row.createdAt <= row.updatedAt /\ RehydratedExternal(c, row)
    <2>1. /\ row.status = "PROCESSED" /\ row.code = NoCode /\ row.before = before
          /\ row.after = after /\ row.ref = plan[p].ref
          /\ row.createdAt = CreatedAt(p) /\ row.updatedAt = now[p]
      BY <1>5, <1>9 DEF ProcessedRow
    <2>2. before >= 0 /\ after >= 0 /\ before \in Int /\ after \in Int
      BY <1>9, MoneyAssumption DEF Money
    <2>3. c.ref # NoRef => plan[p].ref # None
      BY <1>2, <1>9, ProcessAssumption DEF Stands, Procs
    <2>4. c.kind = "LOSS" => before = after
      <3>1. c.kind = "LOSS" => Direction(p) = "NONE"
        BY DEF Direction, MovementDirection
      <3>2. Signed("NONE", c.amount) = 0
        BY DEF Signed
      <3> QED
        BY <1>9, <2>2, <3>1, <3>2
    <2> QED
      BY <1>1, <1>4, <1>7, <1>9, <2>1, <2>2, <2>3, <2>4
      DEF RehydratedExternal, PersistedReference, ProcessedState
  <1> QED
    BY <1>6, <1>8, <1>9 DEF RowOf

(* Every step leaves only rows that a later load accepts. *)
LEMMA LoadableStep ==
    ASSUME DecisionInv, [Next]_vars
    PROVE  RowsLoadable'
  <1>0. /\ Inv /\ RowsLoadable /\ wagers \in [TxIds -> Row] /\ clock \in Nat
        /\ Requests \subseteq TxIds /\ Wallets \subseteq TxIds /\ Requests \cap Wallets = {}
    BY ProcessAssumption DEF DecisionInv, Inv, TypeInv, TypeOK, TxIds
  <1> SUFFICES ASSUME NEW t \in TxIds, Present(t)' PROVE Rehydrates(t)'
    BY DEF RowsLoadable
  <1>1. CASE wagers'[t] = wagers[t]
    <2>1. Rehydrates(t)
      BY <1>0, <1>1 DEF RowsLoadable, Present
    <2> QED
      BY <1>1, <2>1 DEF Rehydrates, RehydratedOpening
  <1>2. CASE wagers'[t] # wagers[t] /\ t \in Requests
    <2>1. CASE \E p \in Procs : CommitsRow(p)
      <3>1. PICK p \in Procs : CommitsRow(p)
        BY <2>1
      <3>2. PICK row : RowOf(p, row) /\ wagers' = [wagers EXCEPT ![TxOf(p)] = row]
        BY <3>1 DEF CommitsRow
      <3>3. TxOf(p) = t /\ wagers'[t] = row /\ CommandOf(p) = Command[t]
        BY <1>0, <1>2, <3>2 DEF CommandOf
      <3>4. row.createdAt <= row.updatedAt /\ RehydratedExternal(CommandOf(p), row)
        BY <3>1, <3>2, WrittenRowLoads DEF CommitsRow
      <3> QED
        BY <1>0, <1>2, <3>3, <3>4 DEF Rehydrates
    <2>2. CASE \E k \in Workers : FailPending(k) /\ StillPending(work[k])
      <3>1. PICK k \in Workers : FailPending(k) /\ StillPending(work[k])
        BY <2>2
      <3>2. /\ work[k] = t
            /\ wagers'[t] = SettledRow("FAILED", "PROCESSING_FAILED", NoMoney, NoMoney, None,
                                       wagers[t].createdAt, clock)
        BY <1>0, <1>2, <3>1 DEF FailPending
      <3>3. Rehydrates(t)
        BY <1>0, <3>1, <3>2 DEF RowsLoadable, Present, StillPending
      <3>4. /\ wagers[t].updatedAt <= clock /\ wagers[t].updatedAt \in Nat
            /\ wagers[t].createdAt \in Nat
        BY <1>0, <1>2 DEF Inv, Serialised, ClockAhead, Row
      <3>5. /\ wagers'[t].status = "FAILED" /\ wagers'[t].code = "PROCESSING_FAILED"
            /\ wagers'[t].before = NoMoney /\ wagers'[t].after = NoMoney /\ wagers'[t].ref = None
            /\ wagers'[t].createdAt = wagers[t].createdAt /\ wagers'[t].updatedAt = clock
        BY <3>2 DEF SettledRow
      <3>6. wagers'[t].createdAt <= wagers'[t].updatedAt
        BY <1>0, <3>3, <3>4, <3>5 DEF Rehydrates
      <3>7. RehydratedExternal(Command[t], wagers'[t])
        BY <1>2, <3>3, <3>5
        DEF Rehydrates, RehydratedExternal, PersistedReference, FailureState, NoCode
      <3> QED
        BY <1>0, <1>2, <3>6, <3>7 DEF Rehydrates
    <2> QED
      BY <1>0, <1>2, <2>1, <2>2, RowsChange
  <1>3. CASE wagers'[t] # wagers[t] /\ t \in Wallets
    <2>1. wagers[t].status \notin Terminal
      BY <1>0, <1>3, RowStep
    <2>2. ASSUME ~CreateWallet(t) PROVE FALSE
      <3>1. ASSUME NEW w \in Wallets, CreateWallet(w) PROVE FALSE
        <4>1. w # t
          BY <2>2, <3>1
        <4> QED
          BY <1>0, <1>3, <3>1, <4>1 DEF CreateWallet
      <3>2. ASSUME NEW p \in Procs, pc[p] = "commit", NEW row,
                   wagers' = [wagers EXCEPT ![TxOf(p)] = row]
            PROVE  FALSE
        <4>1. TxOf(p) \in Requests
          BY <1>0, <3>2, CommandType DEF Inv
        <4> QED
          BY <1>0, <1>3, <3>2, <4>1
      <3>3. ASSUME NEW r \in Requests, CommitPending(r) PROVE FALSE
        BY <3>2, <3>3 DEF CommitPending, Committing, Write, Procs
      <3>4. ASSUME NEW k \in Workers, Reschedule(k) PROVE FALSE
        <4>1. pc[k] = "commit" /\ k \in Procs /\ TxOf(k) = work[k]
          BY <3>4, ProcessAssumption DEF Reschedule, Committing, Procs, TxOf
        <4>2. \E row : wagers' = [wagers EXCEPT ![work[k]] = row]
          BY <3>4 DEF Reschedule
        <4> QED
          BY <3>2, <4>1, <4>2
      <3>5. ASSUME NEW p \in Procs, CommitReject(p) PROVE FALSE
        BY <3>2, <3>5 DEF CommitReject, Committing, Write
      <3>6. ASSUME NEW p \in Procs, CommitLoss(p) PROVE FALSE
        BY <3>2, <3>6 DEF CommitLoss, Committing, Write
      <3>7. ASSUME NEW p \in Procs, CommitMovement(p) PROVE FALSE
        BY <3>2, <3>7 DEF CommitMovement, Committing, Write
      <3>8. ASSUME NEW k \in Workers, FailPending(k) PROVE FALSE
        <4>1. work[k] \in Requests
          BY <1>0, <3>8 DEF FailPending, Inv, TypeInv, WorkOK
        <4> QED
          BY <1>0, <1>3, <3>8, <4>1 DEF FailPending
      <3>9. ASSUME NEW r \in Requests,
                   \/ Begin(r) \/ RefuseInvalid(r) \/ Replay(r) \/ Insert(r)
                   \/ RefuseDangling(r) \/ RefuseMismatch(r)
            PROVE  FALSE
        BY <1>3, <3>9 DEF Begin, RefuseInvalid, Replay, Insert, RefuseDangling, RefuseMismatch,
                          Refuse, db
      <3>10. ASSUME NEW p \in Procs,
                   \/ LockWallet(p) \/ Decide(p) \/ CommitError(p)
                   \/ Abort(p) \/ FailAttempt(p)
             PROVE  FALSE
        BY <1>3, <3>10 DEF LockWallet, Decide, CommitError, Abort, FailAttempt, db
      <3>11. ASSUME NEW k \in Workers, NEW u \in Requests, Claim(k, u) PROVE FALSE
        BY <1>3, <3>11 DEF Claim
      <3>12. CASE Tick \/ UNCHANGED vars
        BY <1>3, <3>12 DEF Tick, vars
      <3> QED
        BY <3>1, <3>3, <3>4, <3>5, <3>6, <3>7, <3>8, <3>9, <3>10, <3>11, <3>12
        DEF Next, RequestStep, WorkerStep, Step, Quiescent, Procs
    <2>3. wagers'[t] = OpeningRow(t) /\ Opening[t] # 0 /\ Opening[t] \in Money
      BY <1>0, <1>3, <2>2, WalletAssumption DEF CreateWallet
    <2>4. /\ wagers'[t].status = "PROCESSED" /\ wagers'[t].code = NoCode
          /\ wagers'[t].ref = None /\ wagers'[t].before = 0 /\ wagers'[t].after = Opening[t]
          /\ wagers'[t].createdAt = clock /\ wagers'[t].updatedAt = clock
      BY <2>3 DEF OpeningRow, SettledRow
    <2>5. Opening[t] > 0 /\ clock <= clock
      BY <1>0, <2>3, MoneyAssumption DEF Money
    <2> QED
      BY <1>0, <1>3, <2>4, <2>5 DEF Rehydrates, RehydratedOpening
  <1> QED
    BY <1>1, <1>2, <1>3 DEF TxIds

-----------------------------------------------------------------------------
(* The invariant behind the theorems of this module holds in every state. *)
LEMMA DecisionAlways == Spec => []DecisionInv
  <1>1. Init => DecisionInv
    <2> SUFFICES ASSUME Init PROVE DecisionInv
      OBVIOUS
    <2>1. \A t \in TxIds : wagers[t].status = "NONE"
      BY DEF Init, NoRow, SettledRow
    <2>2. \A p \in Procs : pc[p] = "idle"
      BY DEF Init
    <2>3. CommandsValid /\ PlansStand /\ RowsStand /\ RowsLoadable
      BY <2>1, <2>2 DEF CommandsValid, PlansStand, RowsStand, RowsLoadable, Present, Processed,
                        TxIds, Procs
    <2> QED
      BY <2>3, InvInit DEF DecisionInv, DecisionsStand
  <1>2. DecisionInv /\ [Next]_vars => DecisionInv'
    <2> SUFFICES ASSUME DecisionInv, [Next]_vars PROVE DecisionInv'
      OBVIOUS
    <2>1. Inv'
      BY TypeStep, SerialisedStep DEF DecisionInv, Inv
    <2> QED
      BY <2>1, CommandsStep, PlansStep, RowsStep, LoadableStep DEF DecisionInv, DecisionsStand
  <1> QED
    BY <1>1, <1>2, PTL DEF Spec

(* What a process decided under the wallet lock still holds when it commits,
   and every processed row moved its wallet as its kind says.              *)
THEOREM DecisionsCorrect == Spec => []DecisionsStand
  <1>1. DecisionInv => DecisionsStand
    BY DEF DecisionInv
  <1> QED
    BY <1>1, DecisionAlways, PTL

(* Every stored transaction can be loaded again by scanWager. *)
THEOREM RowsLoadableCorrect == Spec => []RowsLoadable
  <1>1. DecisionInv => RowsLoadable
    BY DEF DecisionInv
  <1> QED
    BY <1>1, DecisionAlways, PTL

(* A processed REFUND or ROLLBACK and what it reverses net to zero in one
   wallet, and nothing is reversed twice, whatever is submitted and in
   whatever order the transactions run.                                    *)
THEOREM ReversalsCorrect == Spec => []ReversalsNetToZero
  <1>1. DecisionInv => ReversalsNetToZero
    <2> SUFFICES ASSUME DecisionInv, NEW t \in Requests, Processed(t),
                        RequiresReference(Command[t].kind)
                 PROVE  /\ wagers[t].ref \in Requests /\ Processed(wagers[t].ref)
                        /\ Command[wagers[t].ref].wallet = Command[t].wallet
                        /\ Delta(t) + Delta(wagers[t].ref) = 0
                        /\ \A u \in Requests :
                             (/\ Processed(u) /\ wagers[u].ref = wagers[t].ref
                              /\ RequiresReference(Command[u].kind)) => u = t
      BY DEF ReversalsNetToZero
    <2> DEFINE u == wagers[t].ref
               c == Command[t]
               d == Command[u]
    <2>1. RowsStand
      BY DEF DecisionInv, DecisionsStand
    <2>2. /\ u \in Requests /\ Processed(u) /\ ValidateReference(c, d) = NoCode
          /\ Delta(t) = Signed(MovementDirection(c.kind, KindOf(u)), c.amount)
          /\ Delta(u) = Signed(MovementDirection(d.kind, KindOf(wagers[u].ref)), d.amount)
      BY <2>1 DEF RowsStand
    <2>3. c.wallet = d.wallet /\ AllowedReferenceType(c.kind, d.kind) /\ c.amount = d.amount
      BY <2>2, FitsMeans
    <2>4. KindOf(u) = d.kind /\ c.amount \in Int
      <3>1. u # None
        BY <2>2, ProcessAssumption DEF Procs
      <3>2. c.amount \in Money
        BY CommandAssumption DEF Commands
      <3> QED
        BY <3>1, <3>2, MoneyAssumption DEF KindOf, Money
    <2> HIDE DEF u, c, d
    <2>5. \/ d.kind = "BET" /\ c.kind \in {"REFUND", "ROLLBACK"}
          \/ d.kind \in {"WIN", "REFUND"} /\ c.kind = "ROLLBACK"
      <3>1. c.kind \in {"REFUND", "ROLLBACK"}
        BY DEF RequiresReference, c
      <3> QED
        BY <2>3, <3>1 DEF AllowedReferenceType
    <2>6. CASE d.kind = "BET" /\ c.kind \in {"REFUND", "ROLLBACK"}
      <3>1. /\ MovementDirection(c.kind, d.kind) = "CREDIT"
            /\ MovementDirection(d.kind, KindOf(wagers[u].ref)) = "DEBIT"
        BY <2>6 DEF MovementDirection
      <3>2. Delta(t) = c.amount /\ Delta(u) = -c.amount
        BY <2>2, <2>3, <2>4, <3>1 DEF Signed
      <3> QED
        BY <2>1, <2>2, <2>3, <2>4, <3>2 DEF RowsStand, u, c, d
    <2>7. CASE d.kind \in {"WIN", "REFUND"} /\ c.kind = "ROLLBACK"
      <3>1. /\ MovementDirection(c.kind, d.kind) = "DEBIT"
            /\ MovementDirection(d.kind, KindOf(wagers[u].ref)) = "CREDIT"
        BY <2>7 DEF MovementDirection
      <3>2. Delta(t) = -c.amount /\ Delta(u) = c.amount
        BY <2>2, <2>3, <2>4, <3>1 DEF Signed
      <3> QED
        BY <2>1, <2>2, <2>3, <2>4, <3>2 DEF RowsStand, u, c, d
    <2> QED
      BY <2>5, <2>6, <2>7
  <1> QED
    BY <1>1, DecisionAlways, PTL

-----------------------------------------------------------------------------
(* Every way the rows and the events of requests change, action by action. *)
LEMMA RowActions ==
    ASSUME Inv, [Next]_vars
    PROVE  \/ \A t \in Requests : wagers'[t] = wagers[t] /\ outbox'[t] = outbox[t]
           \/ \E r \in Requests : CommitPending(r)
           \/ \E k \in Workers : Reschedule(k) \/ (FailPending(k) /\ StillPending(work[k]))
           \/ \E p \in Procs : CommitReject(p) \/ CommitLoss(p) \/ CommitMovement(p)
  <1> DEFINE Still == \A t \in Requests : wagers'[t] = wagers[t] /\ outbox'[t] = outbox[t]
  <1>1. ASSUME NEW w \in Wallets, CreateWallet(w) PROVE Still
    BY <1>1, ProcessAssumption DEF CreateWallet, Inv, TypeInv, TypeOK, TxIds
  <1>2. ASSUME NEW r \in Requests,
               \/ Begin(r) \/ RefuseInvalid(r) \/ Replay(r) \/ Insert(r)
               \/ RefuseDangling(r) \/ RefuseMismatch(r)
        PROVE  Still
    BY <1>2 DEF Begin, RefuseInvalid, Replay, Insert, RefuseDangling, RefuseMismatch, Refuse, db
  <1>3. ASSUME NEW p \in Procs,
               \/ LockWallet(p) \/ Decide(p) \/ CommitError(p)
               \/ Abort(p) \/ FailAttempt(p)
        PROVE  Still
    BY <1>3 DEF LockWallet, Decide, CommitError, Abort, FailAttempt, db
  <1>4. ASSUME NEW k \in Workers, NEW t \in Requests, Claim(k, t) PROVE Still
    BY <1>4 DEF Claim
  <1>5. CASE Tick \/ UNCHANGED vars
    BY <1>5 DEF Tick, vars
  <1>6. ASSUME NEW k \in Workers, FailPending(k), ~StillPending(work[k]) PROVE Still
    BY <1>6 DEF FailPending
  <1>7. ASSUME ~Still
        PROVE  \/ \E r \in Requests : CommitPending(r)
               \/ \E k \in Workers : Reschedule(k) \/ (FailPending(k) /\ StillPending(work[k]))
               \/ \E p \in Procs : CommitReject(p) \/ CommitLoss(p) \/ CommitMovement(p)
    BY <1>1, <1>2, <1>3, <1>4, <1>5, <1>6, <1>7
    DEF Next, RequestStep, WorkerStep, Step, Quiescent, Procs
  <1> QED
    BY <1>7

(* While a retrier decides and commits, nobody else writes its row. *)
LEMMA ClaimedRowKept ==
    ASSUME Inv, [Next]_vars, NEW k \in Workers, pc[k] = "commit", pc'[k] = "commit"
    PROVE  wagers'[work[k]] = wagers[work[k]]
  <1>0. work[k] \in Requests /\ k \in Procs /\ wagers \in [TxIds -> Row]
    BY DEF Inv, TypeInv, TypeOK, WorkOK, Procs
  <1>1. ASSUME NEW p \in Procs, CommitsRow(p) PROVE wagers'[work[k]] = wagers[work[k]]
    <2>1. p # k /\ pc[p] = "commit"
      BY <1>1 DEF CommitsRow
    <2>2. work[k] # TxOf(p)
      BY <2>1, OwnRow DEF Procs
    <2> QED
      BY <1>0, <1>1, <2>2 DEF CommitsRow, TxIds
  <1>2. ASSUME NEW j \in Workers, FailPending(j) PROVE wagers'[work[k]] = wagers[work[k]]
    <2>1. j # k /\ j \in Procs /\ pc[j] = "fail" /\ Unblocked(j)
      BY <1>2 DEF FailPending, Procs
    <2>2. work[k] # TxOf(j) /\ TxOf(j) = work[j]
      BY <2>1, OwnRow, ProcessAssumption DEF TxOf
    <2> QED
      BY <1>0, <1>2, <2>2 DEF FailPending, TxIds
  <1> QED
    BY <1>0, <1>1, <1>2, RowsChange

(* The expiration of a wait is at least a TTL after the row was created, and a
   retrier that gives up has found it passed.                              *)
WaitsTimed ==
    /\ \A t \in Requests : wagers[t].status = "PENDING_REFERENCE" =>
          wagers[t].expires >= wagers[t].createdAt + TTL
    /\ \A p \in Procs : pc[p] = "commit" /\ plan[p].code = "REFERENCE_NOT_FOUND" =>
          p \in Workers /\ now[p] >= wagers[work[p]].expires

(* processNew and resolveReference never say that a reference was not found. *)
LEMMA PlanForKeepsLooking ==
    ASSUME NEW c
    PROVE  PlanFor(c).code # "REFERENCE_NOT_FOUND"
  <1> DEFINE found == FindByExternal(c.provider, c.ref)
             u == CHOOSE x \in found : TRUE
  <1>1. Wait.code = NoCode /\ (\A d, v : Reject(d, v).code = d) /\ \A v : Settle(v).code = NoCode
    BY DEF Wait, Reject, Settle
  <1>2. ValidateReference(c, Command[u]) # "REFERENCE_NOT_FOUND"
    BY DEF ValidateReference, NoCode
  <1> HIDE DEF u
  <1>3. PlanWith(c, u).code # "REFERENCE_NOT_FOUND"
    BY <1>1, <1>2 DEF PlanWith, NoCode
  <1> QED
    BY <1>1, <1>3 DEF PlanFor, NoCode, u

(* Both halves of WaitsTimed survive every step. *)
LEMMA WaitsStep ==
    ASSUME Inv, WaitsTimed, [Next]_vars
    PROVE  WaitsTimed'
  <1>0. /\ wagers \in [TxIds -> Row] /\ Requests \subseteq TxIds /\ TTL \in Nat /\ clock \in Nat
        /\ TypeInv
    BY PolicyAssumption DEF Inv, TypeInv, TypeOK, TxIds
  <1>1. ASSUME NEW t \in Requests, wagers'[t].status = "PENDING_REFERENCE"
        PROVE  wagers'[t].expires >= wagers'[t].createdAt + TTL
    <2> DEFINE Timed(row) == row.expires >= row.createdAt + TTL
    <2>0. CASE wagers'[t] = wagers[t]
      BY <1>1, <2>0 DEF WaitsTimed
    <2>1. ASSUME NEW r \in Requests, CommitPending(r), wagers'[t] # wagers[t] PROVE Timed(wagers'[t])
      <3>1. /\ pc[r] = "commit" /\ TxOf(r) = r /\ r \in Procs /\ CreatedAt(r) = UpdatedAt(r)
        BY <2>1 DEF CommitPending, Committing, TxOf, Procs, CreatedAt, UpdatedAt
      <3>2. PICK next : wagers' = [wagers EXCEPT ![r] =
                          PendingRow(CreatedAt(r), now[r], next, now[r] + TTL, 0)]
        BY <2>1, <3>1 DEF CommitPending, Write
      <3>3. wagers'[t] = PendingRow(CreatedAt(r), now[r], next, now[r] + TTL, 0)
        BY <1>0, <2>1, <3>2
      <3>4. wagers'[t].createdAt = CreatedAt(r) /\ wagers'[t].expires = now[r] + TTL
        BY <3>3 DEF PendingRow
      <3>5. UpdatedAt(r) <= now[r] /\ UpdatedAt(r) \in Nat /\ now[r] \in Nat
        BY <1>0, <3>1, CommitTypes DEF Inv, Serialised, ClockAhead
      <3> QED
        BY <1>0, <3>1, <3>4, <3>5
    <2>2. ASSUME NEW k \in Workers, Reschedule(k), wagers'[t] # wagers[t] PROVE Timed(wagers'[t])
      <3>1. pc[k] = "commit" /\ work[k] = t
        BY <1>0, <2>2 DEF Reschedule, Committing
      <3>2. PICK next, retries : wagers'[t] =
               PendingRow(wagers[t].createdAt, clock, next, wagers[t].expires, retries)
        BY <1>0, <2>2, <3>1 DEF Reschedule
      <3>3. wagers'[t].createdAt = wagers[t].createdAt /\ wagers'[t].expires = wagers[t].expires
        BY <3>2 DEF PendingRow
      <3>4. StillPending(t)
        BY <3>1 DEF Inv, Serialised, LocksHeld
      <3> QED
        BY <3>3, <3>4 DEF WaitsTimed, StillPending
    <2>3. ASSUME NEW k \in Workers, FailPending(k), StillPending(work[k])
          PROVE  wagers'[t] = wagers[t] \/ wagers'[t].status = "FAILED"
      BY <1>0, <2>3 DEF FailPending, SettledRow
    <2>4. ASSUME NEW p \in Procs, CommitReject(p) \/ CommitLoss(p) \/ CommitMovement(p)
          PROVE  wagers'[t] = wagers[t] \/ wagers'[t].status \in {"REJECTED", "PROCESSED"}
      <3>1. CASE CommitReject(p)
        BY <1>0, <3>1 DEF CommitReject, Write, RejectedRow, SettledRow
      <3>2. CASE CommitLoss(p)
        BY <1>0, <3>2 DEF CommitLoss, Write, ProcessedRow, SettledRow
      <3>3. CASE CommitMovement(p)
        BY <1>0, <3>3 DEF CommitMovement, Write, ProcessedRow, SettledRow
      <3> QED
        BY <2>4, <3>1, <3>2, <3>3
    <2> QED
      BY <1>1, <2>0, <2>1, <2>2, <2>3, <2>4, RowActions
  <1>2. ASSUME NEW p \in Procs, pc'[p] = "commit", plan'[p].code = "REFERENCE_NOT_FOUND"
        PROVE  p \in Workers /\ now'[p] >= wagers'[work'[p]].expires
    <2>1. CASE Decide(p)
      <3>1. /\ UNCHANGED << wagers, work, now >> /\ plan \in [Procs -> Plan]
            /\ plan' = [plan EXCEPT ![p] =
                  IF p \in Workers /\ Expired(now[p], wagers[work[p]].expires)
                  THEN Reject("REFERENCE_NOT_FOUND", None)
                  ELSE PlanFor(CommandOf(p))]
        BY <1>0, <2>1 DEF Decide, TypeInv, TypeOK
      <3>2. p \in Workers /\ Expired(now[p], wagers[work[p]].expires)
        BY <1>2, <3>1, PlanForKeepsLooking
      <3> QED
        BY <3>1, <3>2 DEF Expired
    <2>2. CASE /\ pc[p] = "commit" /\ plan'[p] = plan[p] /\ now'[p] = now[p] /\ TxOf(p)' = TxOf(p)
      <3>1. p \in Workers /\ now[p] >= wagers[work[p]].expires
        BY <1>2, <2>2 DEF WaitsTimed
      <3>2. work'[p] = work[p]
        BY <2>2, <3>1, ProcessAssumption DEF TxOf
      <3> QED
        BY <1>2, <2>2, <3>1, <3>2, ClaimedRowKept
    <2> QED
      BY <1>2, <2>1, <2>2, StillCommitting
  <1> QED
    BY <1>1, <1>2 DEF WaitsTimed

(* The rejection of a retrier that gave up is stamped after the TTL. *)
LEMMA NotFoundStep ==
    ASSUME Inv, WaitsTimed, NotFoundAfterTTL, [Next]_vars
    PROVE  NotFoundAfterTTL'
  <1>0. /\ wagers \in [TxIds -> Row] /\ Requests \subseteq TxIds /\ TTL \in Nat /\ TypeInv
    BY PolicyAssumption DEF Inv, TypeInv, TypeOK, TxIds
  <1> SUFFICES ASSUME NEW t \in Requests, wagers'[t].code = "REFERENCE_NOT_FOUND"
               PROVE  wagers'[t].updatedAt >= wagers'[t].createdAt + TTL
    BY DEF NotFoundAfterTTL
  <1>1. CASE wagers'[t] = wagers[t]
    BY <1>1 DEF NotFoundAfterTTL
  <1>2. ASSUME NEW r \in Requests, CommitPending(r)
        PROVE  wagers'[t] = wagers[t] \/ wagers'[t].code = NoCode
    BY <1>0, <1>2 DEF CommitPending, Write, PendingRow
  <1>3. ASSUME NEW k \in Workers, Reschedule(k)
        PROVE  wagers'[t] = wagers[t] \/ wagers'[t].code = NoCode
    BY <1>0, <1>3 DEF Reschedule, PendingRow
  <1>4. ASSUME NEW k \in Workers, FailPending(k), StillPending(work[k])
        PROVE  wagers'[t] = wagers[t] \/ wagers'[t].code = "PROCESSING_FAILED"
    BY <1>0, <1>4 DEF FailPending, SettledRow
  <1>5. ASSUME NEW p \in Procs, CommitLoss(p) \/ CommitMovement(p)
        PROVE  wagers'[t] = wagers[t] \/ wagers'[t].code = NoCode
    <2>1. CASE CommitLoss(p)
      BY <1>0, <2>1 DEF CommitLoss, Write, ProcessedRow, SettledRow
    <2>2. CASE CommitMovement(p)
      BY <1>0, <2>2 DEF CommitMovement, Write, ProcessedRow, SettledRow
    <2> QED
      BY <1>5, <2>1, <2>2
  <1>6. ASSUME NEW p \in Procs, CommitReject(p), wagers'[t] # wagers[t]
        PROVE  wagers'[t].updatedAt >= wagers'[t].createdAt + TTL
    <2> DEFINE code == IF plan[p].verdict = "reject" THEN plan[p].code
                       ELSE InsufficientFundsCode(CommandOf(p).kind)
    <2>1. pc[p] = "commit" /\ wagers' = [wagers EXCEPT ![TxOf(p)] = RejectedRow(p, code)]
      BY <1>6 DEF CommitReject, Committing, Write
    <2>2. TxOf(p) = t /\ wagers'[t] = RejectedRow(p, code)
      BY <1>0, <1>6, <2>1
    <2>3. /\ wagers'[t].code = code /\ wagers'[t].updatedAt = now[p]
          /\ wagers'[t].createdAt = CreatedAt(p)
      BY <2>2 DEF RejectedRow, SettledRow
    <2>4. plan[p].code = "REFERENCE_NOT_FOUND"
      BY <2>3 DEF InsufficientFundsCode
    <2>5. p \in Workers /\ now[p] >= wagers[work[p]].expires
      BY <2>1, <2>4 DEF WaitsTimed
    <2>6. /\ p \notin Requests /\ work[p] = t /\ CreatedAt(p) = wagers[t].createdAt
          /\ wagers[t].status = "PENDING_REFERENCE"
      BY <2>1, <2>2, <2>5, ProcessAssumption
      DEF TxOf, CreatedAt, Inv, Serialised, LocksHeld, StillPending
    <2>7. wagers[t].expires >= wagers[t].createdAt + TTL
      BY <2>6 DEF WaitsTimed
    <2>8. wagers[t].expires \in Nat /\ wagers[t].createdAt \in Nat /\ now[p] \in Nat
      BY <1>0, <2>1, CommitTypes DEF Row
    <2> QED
      BY <1>0, <2>3, <2>5, <2>6, <2>7, <2>8
  <1> QED
    BY <1>1, <1>2, <1>3, <1>4, <1>5, <1>6, RowActions DEF NoCode

(* REFERENCE_NOT_FOUND is never said before the TTL of the wait is over, however
   often the retry is rescheduled, aborted or taken up by another retrier. *)
THEOREM NotFoundCorrect == Spec => []NotFoundAfterTTL
  <1>1. Init => WaitsTimed /\ NotFoundAfterTTL
    <2> SUFFICES ASSUME Init PROVE WaitsTimed /\ NotFoundAfterTTL
      OBVIOUS
    <2>1. \A t \in Requests : wagers[t].status = "NONE" /\ wagers[t].code = NoCode
      BY DEF Init, NoRow, SettledRow, TxIds
    <2>2. \A p \in Procs : pc[p] = "idle"
      BY DEF Init
    <2> QED
      BY <2>1, <2>2 DEF WaitsTimed, NotFoundAfterTTL, NoCode
  <1>2. Inv /\ WaitsTimed /\ NotFoundAfterTTL /\ [Next]_vars => (WaitsTimed /\ NotFoundAfterTTL)'
    BY WaitsStep, NotFoundStep
  <1> QED
    BY <1>1, <1>2, InvAlways, PTL DEF Spec

-----------------------------------------------------------------------------
(* A stored row stays, whatever else becomes of it. *)
LEMMA PresentKept ==
    ASSUME Inv, [Next]_vars, NEW t \in Requests, Present(t)
    PROVE  Present(t)'
  <1>0. /\ wagers \in [TxIds -> Row] /\ t \in TxIds
    BY DEF Inv, TypeInv, TypeOK, TxIds
  <1>1. ASSUME NEW p \in Procs, NEW row, RowOf(p, row) PROVE row.status # "NONE"
    BY <1>1 DEF RowOf, PendingRow, RejectedRow, ProcessedRow, SettledRow
  <1>2. ASSUME NEW p \in Procs, CommitsRow(p) PROVE Present(t)'
    <2>1. PICK row : RowOf(p, row) /\ wagers' = [wagers EXCEPT ![TxOf(p)] = row]
      BY <1>2 DEF CommitsRow
    <2>2. wagers'[t] = wagers[t] \/ wagers'[t] = row
      BY <1>0, <2>1
    <2> QED
      BY <1>1, <2>1, <2>2 DEF Present
  <1>3. ASSUME NEW k \in Workers, FailPending(k), StillPending(work[k]) PROVE Present(t)'
    <2>1. wagers'[t] = wagers[t] \/ wagers'[t].status = "FAILED"
      BY <1>0, <1>3 DEF FailPending, SettledRow
    <2> QED
      BY <2>1 DEF Present
  <1>4. CASE \A u \in Requests : wagers'[u] = wagers[u]
    BY <1>4 DEF Present
  <1> QED
    BY <1>2, <1>3, <1>4, RowsChange

(* What a caller of Process is told: an error, the row stored for its key, or
   the row it has just written.                                            *)
LEMMA NewReply ==
    ASSUME Inv, [Next]_vars, NEW r \in Requests, reply'[r] # reply[r]
    PROVE  \/ reply'[r].status = "ERROR"
           \/ /\ wagers' = wagers /\ FindByKey(Command[r]) # {}
              /\ \E u \in FindByKey(Command[r]) :
                    SamePayload(u, r) /\ reply'[r] = ResultOf(wagers[u], TRUE)
           \/ Present(r)' /\ reply'[r] = ResultOf(wagers'[r], FALSE)
  <1>0. /\ reply \in [Requests -> Reply] /\ wagers \in [TxIds -> Row] /\ r \in TxIds
        /\ Requests \cap Workers = {} /\ Inv /\ TypeInv
    BY ProcessAssumption DEF Inv, TypeInv, TypeOK, TxIds
  <1> DEFINE Goal == \/ reply'[r].status = "ERROR"
                     \/ /\ wagers' = wagers /\ FindByKey(Command[r]) # {}
                        /\ \E u \in FindByKey(Command[r]) :
                              SamePayload(u, r) /\ reply'[r] = ResultOf(wagers[u], TRUE)
                     \/ Present(r)' /\ reply'[r] = ResultOf(wagers'[r], FALSE)
  <1>1. ASSUME NEW p \in Procs, NEW answer, Finish(p, answer) PROVE p = r /\ reply'[r] = answer
    BY <1>0, <1>1 DEF Finish
  <1>2. ASSUME NEW e PROVE ErrorReply(e).status = "ERROR"
    BY DEF ErrorReply
  <1>3. ASSUME NEW s \in Requests, RefuseInvalid(s) \/ RefuseDangling(s) \/ RefuseMismatch(s)
        PROVE  Goal
    <2>1. PICK e : Finish(s, ErrorReply(e))
      BY <1>3 DEF RefuseInvalid, RefuseDangling, RefuseMismatch, Refuse
    <2> QED
      BY <1>1, <1>2, <2>1 DEF Procs
  <1>4. ASSUME NEW s \in Requests, Replay(s) PROVE Goal
    <2>1. s = r /\ reply'[r] = Existing(r) /\ wagers' = wagers
      BY <1>1, <1>4 DEF Replay, Procs, db
    <2> DEFINE found == FindByKey(Command[r])
               u == CHOOSE x \in found : TRUE
    <2>2. CASE found = {}
      BY <1>2, <2>1, <2>2 DEF Existing
    <2>3. CASE found # {}
      <3>1. u \in found
        BY <2>3
      <3>2. CASE SamePayload(u, r)
        BY <2>1, <2>3, <3>1, <3>2 DEF Existing
      <3>3. CASE ~SamePayload(u, r)
        BY <1>2, <2>1, <2>3, <3>3 DEF Existing
      <3> QED
        BY <3>2, <3>3
    <2> QED
      BY <2>2, <2>3
  <1>5. ASSUME NEW p \in Procs, NEW row, NEW events, Write(p, row, events), row.status # "NONE"
        PROVE  Goal
    <2>1. p = r /\ reply'[r] = ResultOf(row, FALSE) /\ TxOf(p) = r
      BY <1>1, <1>5 DEF Write, TxOf
    <2>2. wagers'[r] = row
      BY <1>0, <1>5, <2>1 DEF Write
    <2> QED
      BY <1>5, <2>1, <2>2 DEF Present
  <1> HIDE DEF Goal
  <1>6. ASSUME NEW s \in Requests, CommitPending(s) PROVE Goal
    <2>1. PICK row, events : Write(s, row, events) /\ row.status # "NONE"
      <3>1. \A c, u, n, e, i : PendingRow(c, u, n, e, i).status # "NONE"
        BY DEF PendingRow
      <3> QED
        BY <1>6, <3>1 DEF CommitPending
    <2> QED
      BY <1>5, <2>1 DEF Procs
  <1>7. ASSUME NEW p \in Procs, CommitReject(p) \/ CommitLoss(p) \/ CommitMovement(p) PROVE Goal
    <2>1. PICK row, events : Write(p, row, events) /\ row.status # "NONE"
      <3>1. \A code, before, after : /\ RejectedRow(p, code).status # "NONE"
                                     /\ ProcessedRow(p, before, after).status # "NONE"
        BY DEF RejectedRow, ProcessedRow, SettledRow
      <3> QED
        BY <1>7, <3>1 DEF CommitReject, CommitLoss, CommitMovement
    <2> QED
      BY <1>5, <2>1
  <1>8. ASSUME NEW p \in Procs, CommitError(p) PROVE Goal
    BY <1>1, <1>2, <1>8 DEF CommitError, Goal
  <1>9. ASSUME NEW k \in Workers, Reschedule(k) \/ FailPending(k) PROVE FALSE
    BY <1>0, <1>1, <1>9 DEF Reschedule, FailPending, Procs
  <1>10. ASSUME reply' = reply PROVE FALSE
    BY <1>10
  <1>11. Goal
    BY <1>3, <1>4, <1>6, <1>7, <1>8, <1>9, <1>10
    DEF Next, RequestStep, WorkerStep, Step, Quiescent, Procs, CreateWallet, Begin, Insert, LockWallet,
        Decide, Claim, Abort, FailAttempt, Tick, vars
  <1> QED
    BY <1>11 DEF Goal

(* Every step keeps the answers that were given true. *)
LEMMA RepliesStep ==
    ASSUME Inv, RepliesKept, [Next]_vars
    PROVE  RepliesKept'
  <1> DEFINE Backed(r, u, answer, rows) ==
        /\ Command[u].key = Command[r].key
        /\ PayloadHash(Command[u]) = PayloadHash(Command[r])
        /\ answer.status \in Terminal => ResultOf(rows[u], answer.replay) = answer
  <1> SUFFICES ASSUME NEW r \in Requests, reply'[r].status \in Statuses
               PROVE  \E u \in Requests : Present(u)' /\ Backed(r, u, reply'[r], wagers')
    BY DEF RepliesKept
  <1>0. \A row, b : ResultOf(row, b).status = row.status /\ ResultOf(row, b).replay = b
    BY DEF ResultOf
  <1>1. CASE reply'[r] = reply[r]
    <2>1. PICK u \in Requests : Present(u) /\ Backed(r, u, reply[r], wagers)
      BY <1>1 DEF RepliesKept
    <2>2. Present(u)'
      BY <2>1, PresentKept
    <2>3. reply[r].status \in Terminal => wagers'[u] = wagers[u]
      <3>1. reply[r].status \in Terminal => wagers[u].status \in Terminal
        BY <1>0, <2>1
      <3> QED
        BY <3>1, RowStep DEF TxIds
    <2> QED
      BY <1>1, <2>1, <2>2, <2>3
  <1>2. CASE reply'[r] # reply[r]
    <2>1. reply'[r].status # "ERROR"
      BY DEF Statuses, Terminal
    <2>2. CASE /\ wagers' = wagers
               /\ \E u \in FindByKey(Command[r]) :
                     SamePayload(u, r) /\ reply'[r] = ResultOf(wagers[u], TRUE)
      <3>1. PICK u \in FindByKey(Command[r]) :
               SamePayload(u, r) /\ reply'[r] = ResultOf(wagers[u], TRUE)
        BY <2>2
      <3>2. u \in Requests /\ Present(u) /\ Command[u].key = Command[r].key
        BY <3>1 DEF FindByKey
      <3>3. Present(u)'
        BY <3>2, PresentKept
      <3>4. ResultOf(wagers'[u], reply'[r].replay) = reply'[r]
        BY <1>0, <2>2, <3>1
      <3>5. Backed(r, u, reply'[r], wagers')
        BY <3>1, <3>2, <3>4 DEF SamePayload
      <3> QED
        BY <3>2, <3>3, <3>5
    <2>3. CASE Present(r)' /\ reply'[r] = ResultOf(wagers'[r], FALSE)
      <3>0. reply'[r].replay = FALSE
        BY <2>3 DEF ResultOf
      <3>1. ResultOf(wagers'[r], reply'[r].replay) = reply'[r]
        BY <2>3, <3>0
      <3>2. Backed(r, r, reply'[r], wagers')
        BY <3>1
      <3> QED
        BY <2>3, <3>2
    <2> QED
      BY <1>2, <2>1, <2>2, <2>3, NewReply
  <1> QED
    BY <1>1, <1>2

(* An answer that was given is kept: the row of its key and payload is there for
   good, and a terminal answer is what that row will say for ever.         *)
THEOREM RepliesCorrect == Spec => []RepliesKept
  <1>1. Init => RepliesKept
    BY DEF Init, RepliesKept, NoReply, Statuses, Terminal
  <1>2. Inv /\ RepliesKept /\ [Next]_vars => RepliesKept'
    BY RepliesStep
  <1> QED
    BY <1>1, <1>2, InvAlways, PTL DEF Spec

-----------------------------------------------------------------------------
(* The entries of a transaction in the ledger of its wallet. *)
Moved(t) == {i \in 1 .. Count(Command[t].wallet) : ledger[Command[t].wallet][i].tx = t}

(* Membership in OutcomeEvents, case by case. *)
Tells(t, events) ==
    LET w == Command[t].wallet
        row == wagers[t]
    IN  \/ /\ row.status = "PROCESSED" /\ Moved(t) = {}
           /\ events = << TxEvent("Processed", row.after) >>
        \/ /\ row.status = "PROCESSED"
           /\ \E i \in Moved(t) :
                 events = << TxEvent("Processed", row.after),
                             BalanceChanged(1 + i - Opened(w), ledger[w][i].after) >>
        \/ row.status = "REJECTED" /\ events = << TxEvent("Rejected", NoMoney) >>
        \/ row.status \in {"NONE", "PENDING_REFERENCE", "FAILED"} /\ events = << >>

Waited == << TxEvent("PendingReference", NoMoney) >>

(* What OutboxTellsOutcome says of one transaction. *)
ToldOf(t) ==
    \/ wagers[t].status \notin {"PENDING_REFERENCE", "FAILED"} /\ Tells(t, outbox[t])
    \/ /\ Present(t) /\ Command[t].ref # NoRef
       /\ \E e : Tells(t, e) /\ outbox[t] = Waited \o e

(* Only a processed request has moved a wallet. *)
MoversProcessed ==
    \A w \in Wallets : \A i \in 1 .. Count(w) :
        ledger[w][i].tx \in Requests => Processed(ledger[w][i].tx)

(* Tells says which event lists OutcomeEvents holds, without building the set. *)
LEMMA TellsIsOutcome ==
    ASSUME TypeInv, NEW t \in Requests, NEW e
    PROVE  e \in OutcomeEvents(t) <=> Tells(t, e)
  <1>1. wagers[t].status \in {"NONE", "PENDING_REFERENCE", "PROCESSED", "REJECTED", "FAILED"}
    BY DEF TypeInv, TypeOK, TxIds, Row, Statuses, Terminal
  <1>2. CASE wagers[t].status = "PROCESSED"
    <2>1. CASE Moved(t) = {}
      <3>1. OutcomeEvents(t) = {<< TxEvent("Processed", wagers[t].after) >>}
        BY <1>2, <2>1 DEF OutcomeEvents, Moved
      <3> QED
        BY <1>2, <2>1, <3>1 DEF Tells
    <2>2. CASE Moved(t) # {}
      <3>1. OutcomeEvents(t) =
              {<< TxEvent("Processed", wagers[t].after),
                  BalanceChanged(1 + i - Opened(Command[t].wallet),
                                 ledger[Command[t].wallet][i].after) >> : i \in Moved(t)}
        BY <1>2, <2>2 DEF OutcomeEvents, Moved
      <3> HIDE DEF Moved, OutcomeEvents
      <3> QED
        BY <1>2, <2>2, <3>1 DEF Tells
    <2> QED
      BY <2>1, <2>2
  <1>3. CASE wagers[t].status = "REJECTED"
    BY <1>3 DEF OutcomeEvents, Tells
  <1>4. CASE wagers[t].status \in {"NONE", "PENDING_REFERENCE", "FAILED"}
    BY <1>4 DEF OutcomeEvents, Tells
  <1> QED
    BY <1>1, <1>2, <1>3, <1>4

(* OutboxTellsOutcome, request by request. *)
LEMMA ToldAll ==
    ASSUME TypeInv
    PROVE  OutboxTellsOutcome <=> \A t \in Requests : ToldOf(t)
  <1> SUFFICES ASSUME NEW t \in Requests
               PROVE  ToldOf(t) <=>
                        \/ /\ wagers[t].status \notin {"PENDING_REFERENCE", "FAILED"}
                           /\ outbox[t] \in OutcomeEvents(t)
                        \/ /\ Present(t) /\ Command[t].ref # NoRef
                           /\ outbox[t] \in {Waited \o e : e \in OutcomeEvents(t)}
    BY DEF OutboxTellsOutcome, Waited
  <1>1. \A e : e \in OutcomeEvents(t) <=> Tells(t, e)
    BY TellsIsOutcome
  <1>2. outbox[t] \in {Waited \o e : e \in OutcomeEvents(t)} <=>
          \E e \in OutcomeEvents(t) : outbox[t] = Waited \o e
    OBVIOUS
  <1> QED
    BY <1>1, <1>2, Zenon DEF ToldOf

(* Before a process commits, its transaction has said nothing, or that it waits. *)
LEMMA ToldBefore ==
    ASSUME Inv, NEW p \in Procs, pc[p] = "commit", ToldOf(TxOf(p))
    PROVE  \/ wagers[TxOf(p)].status = "NONE" /\ outbox[TxOf(p)] = << >>
           \/ /\ wagers[TxOf(p)].status = "PENDING_REFERENCE" /\ Command[TxOf(p)].ref # NoRef
              /\ outbox[TxOf(p)] = Waited
  <1> DEFINE t == TxOf(p)
  <1>1. CASE p \in Requests
    <2>1. wagers[t].status = "NONE"
      BY <1>1 DEF TxOf, Inv, Serialised, RowsHaveWallets, Present
    <2> QED
      BY <2>1 DEF ToldOf, Tells, Present
  <1>2. CASE p \notin Requests
    <2>1. wagers[t].status = "PENDING_REFERENCE"
      BY <1>2 DEF TxOf, Procs, Inv, Serialised, LocksHeld, StillPending
    <2>2. Command[t].ref # NoRef /\ outbox[t] = Waited \o << >>
      BY <2>1, Zenon DEF ToldOf, Tells
    <2>3. Waited \o << >> = Waited
      BY DEF Waited
    <2> QED
      BY <2>1, <2>2, <2>3
  <1> QED
    BY <1>1, <1>2

(* A terminal row goes with the events of its outcome. *)
LEMMA ToldWritten ==
    ASSUME Inv, NEW p \in Procs, pc[p] = "commit", ToldOf(TxOf(p)),
           NEW t \in Requests, t = TxOf(p),
           wagers'[t].status \in {"PROCESSED", "REJECTED"},
           NEW e \in Seq(Event), Tells(t, e)', outbox'[t] = outbox[t] \o e
    PROVE  ToldOf(t)'
  <1>1. CASE outbox[t] = << >>
    <2>1. outbox'[t] = e
      BY <1>1
    <2> QED
      BY <2>1 DEF ToldOf
  <1>2. CASE outbox[t] = Waited /\ Command[t].ref # NoRef
    <2>1. outbox'[t] = Waited \o e
      BY <1>2
    <2> QED
      BY <1>2, <2>1, Zenon DEF ToldOf, Present
  <1> QED
    BY <1>1, <1>2, ToldBefore

(* The entries of a stored transaction stay where they are, and no other
   process adds one.                                                       *)
LEMMA MovedKept ==
    ASSUME Inv, [Next]_vars, NEW t \in Requests, Present(t), wagers'[t] = wagers[t]
    PROVE  /\ Moved(t)' = Moved(t)
           /\ \A i \in Moved(t) : ledger'[Command[t].wallet][i] = ledger[Command[t].wallet][i]
  <1> DEFINE w == Command[t].wallet
  <1>0. /\ w \in Wallets /\ wallets[w].version > 0 /\ ledger \in [Wallets -> Seq(Entry)]
        /\ wagers \in [TxIds -> Row] /\ t \in TxIds
    BY CommandAssumption DEF Commands, Inv, TypeInv, TypeOK, Serialised, RowsHaveWallets, TxIds
  <1>1. CASE ledger'[w] = ledger[w]
    BY <1>1 DEF Moved, Count
  <1>2. ASSUME NEW v \in Wallets, CreateWallet(v) PROVE ledger'[w] = ledger[w]
    <2>1. v # w
      BY <1>0, <1>2 DEF CreateWallet, NoWallet
    <2> QED
      BY <1>0, <1>2, <2>1 DEF CreateWallet
  <1>3. ASSUME NEW p \in Procs, CommitMovement(p), ledger'[w] # ledger[w]
        PROVE  /\ Moved(t)' = Moved(t)
               /\ \A i \in Moved(t) : ledger'[w][i] = ledger[w][i]
    <2> DEFINE e == [tx |-> TxOf(p), direction |-> Direction(p),
                     amount |-> CommandOf(p).amount, before |-> BalanceBefore(p),
                     after |-> NewBalance(p), at |-> EntryStamp(p)]
               n == Len(ledger[w])
    <2>1. pc[p] = "commit" /\ ledger' = [ledger EXCEPT ![WalletOf(p)] = Append(@, e)]
      BY <1>3 DEF CommitMovement, Committing
    <2>2. e.tx = TxOf(p)
      OBVIOUS
    <2> HIDE DEF e
    <2>3. ledger'[w] = Append(ledger[w], e)
      BY <1>0, <1>3, <2>1
    <2>4. TxOf(p) # t
      <3>1. PICK a, b : wagers' = [wagers EXCEPT ![TxOf(p)] = ProcessedRow(p, a, b)]
        BY <1>3 DEF CommitMovement, Write
      <3>2. \A a1, b1 : ProcessedRow(p, a1, b1).status = "PROCESSED"
        BY DEF ProcessedRow, SettledRow
      <3>3. wagers[TxOf(p)].status # "PROCESSED"
        <4>1. CASE p \in Requests
          BY <2>1, <4>1 DEF TxOf, Inv, Serialised, RowsHaveWallets, Present
        <4>2. CASE p \notin Requests
          BY <2>1, <4>2 DEF TxOf, Procs, Inv, Serialised, LocksHeld, StillPending
        <4> QED
          BY <4>1, <4>2
      <3> QED
        BY <1>0, <3>1, <3>2, <3>3
    <2>5. /\ n \in Nat /\ Len(ledger'[w]) = n + 1 /\ ledger'[w][n + 1] = e
          /\ \A i \in 1 .. n : ledger'[w][i] = ledger[w][i]
      BY <1>0, <2>3
    <2> HIDE DEF n
    <2>6. \A i : i \in Moved(t)' <=> i \in 1 .. n + 1 /\ ledger'[w][i].tx = t
      BY <2>5 DEF Moved, Count
    <2>7. \A i : i \in Moved(t) <=> i \in 1 .. n /\ ledger[w][i].tx = t
      BY DEF Moved, Count, n
    <2>8. \A i : i \in 1 .. n + 1 <=> i \in 1 .. n \/ i = n + 1
      BY <2>5
    <2> HIDE DEF w
    <2>9. \A i : i \in Moved(t)' <=> i \in Moved(t)
      BY <2>2, <2>4, <2>5, <2>6, <2>7, <2>8
    <2> QED
      BY <2>5, <2>7, <2>9
  <1> QED
    BY <1>1, <1>2, <1>3, MoneyMoves

(* A step adds an entry only for a request it processes, and a processed row stays so. *)
LEMMA MoversStep ==
    ASSUME Inv, MoversProcessed, [Next]_vars
    PROVE  MoversProcessed'
  <1>0. ledger \in [Wallets -> Seq(Entry)] /\ wagers \in [TxIds -> Row]
    BY DEF Inv, TypeInv, TypeOK
  <1>1. \A t \in Requests : Processed(t) => Processed(t)'
    BY RowStep DEF Processed, Terminal, TxIds
  <1> SUFFICES ASSUME NEW w \in Wallets, NEW i \in 1 .. Len(ledger'[w]), ledger'[w][i].tx \in Requests
               PROVE  wagers'[ledger'[w][i].tx].status = "PROCESSED"
    BY DEF MoversProcessed, Count, Processed
  <1>2. ASSUME i \in 1 .. Len(ledger[w]), ledger'[w][i] = ledger[w][i]
        PROVE  wagers'[ledger'[w][i].tx].status = "PROCESSED"
    BY <1>1, <1>2 DEF MoversProcessed, Count, Processed
  <1>3. CASE ledger'[w] = ledger[w]
    BY <1>2, <1>3
  <1>4. ASSUME NEW v \in Wallets, CreateWallet(v), ledger'[w] # ledger[w] PROVE FALSE
    <2>1. ledger'[w] = << OpeningEntry(w) >>
      BY <1>0, <1>4 DEF CreateWallet
    <2>2. Len(ledger'[w]) = 1 /\ ledger'[w][1] = OpeningEntry(w) /\ OpeningEntry(w).tx = w
      BY <2>1 DEF OpeningEntry
    <2> QED
      BY <2>2, ProcessAssumption
  <1>5. ASSUME NEW p \in Procs, CommitMovement(p), ledger'[w] # ledger[w]
        PROVE  wagers'[ledger'[w][i].tx].status = "PROCESSED"
    <2> DEFINE e == [tx |-> TxOf(p), direction |-> Direction(p),
                     amount |-> CommandOf(p).amount, before |-> BalanceBefore(p),
                     after |-> NewBalance(p), at |-> EntryStamp(p)]
               n == Len(ledger[w])
    <2>1. pc[p] = "commit" /\ ledger' = [ledger EXCEPT ![WalletOf(p)] = Append(@, e)]
      BY <1>5 DEF CommitMovement, Committing
    <2>2. e.tx = TxOf(p)
      OBVIOUS
    <2> HIDE DEF e
    <2>3. ledger'[w] = Append(ledger[w], e)
      BY <1>0, <1>5, <2>1
    <2>4. /\ n \in Nat /\ Len(ledger'[w]) = n + 1 /\ ledger'[w][n + 1] = e
          /\ \A j \in 1 .. n : ledger'[w][j] = ledger[w][j]
      BY <1>0, <2>3
    <2>5. wagers'[TxOf(p)].status = "PROCESSED"
      <3>1. PICK a, b : wagers' = [wagers EXCEPT ![TxOf(p)] = ProcessedRow(p, a, b)]
        BY <1>5 DEF CommitMovement, Write
      <3>2. TxOf(p) \in TxIds
        BY <2>1, CommandType DEF Inv, TxIds
      <3> QED
        BY <1>0, <3>1, <3>2 DEF ProcessedRow, SettledRow
    <2>6. CASE i \in 1 .. n
      BY <1>2, <2>4, <2>6
    <2>7. CASE i = n + 1
      BY <2>2, <2>4, <2>5, <2>7
    <2> QED
      BY <2>4, <2>6, <2>7
  <1> QED
    BY <1>3, <1>4, <1>5, MoneyMoves

(* A transaction whose row and events a step leaves alone tells the same story. *)
LEMMA ToldUntouched ==
    ASSUME Inv, [Next]_vars, NEW t \in Requests, ToldOf(t),
           wagers'[t] = wagers[t], outbox'[t] = outbox[t]
    PROVE  ToldOf(t)'
  <1>1. ASSUME NEW e, Tells(t, e) PROVE Tells(t, e)'
    <2>1. CASE ~Present(t)
      BY <1>1, <2>1 DEF Tells, Present
    <2>2. CASE Present(t)
      <3>1. /\ Moved(t)' = Moved(t)
            /\ \A i \in Moved(t) : ledger'[Command[t].wallet][i] = ledger[Command[t].wallet][i]
        BY <2>2, MovedKept
      <3>2. Opened(Command[t].wallet)' = Opened(Command[t].wallet)
        BY DEF Opened
      <3>3. CASE wagers[t].status = "PROCESSED" /\ Moved(t) = {}
        BY <1>1, <3>1, <3>3 DEF Tells
      <3>4. CASE wagers[t].status = "PROCESSED" /\ Moved(t) # {}
        <4>1. PICK i \in Moved(t) :
                 e = << TxEvent("Processed", wagers[t].after),
                        BalanceChanged(1 + i - Opened(Command[t].wallet),
                                       ledger[Command[t].wallet][i].after) >>
          BY <1>1, <3>4, Zenon DEF Tells
        <4>2. i \in Moved(t)' /\ ledger'[Command[t].wallet][i] = ledger[Command[t].wallet][i]
          BY <3>1, <4>1
        <4>3. e = << TxEvent("Processed", wagers'[t].after),
                     BalanceChanged(1 + i - Opened(Command[t].wallet),
                                    ledger'[Command[t].wallet][i].after) >>
          BY <4>1, <4>2
        <4> QED
          BY <3>2, <3>4, <4>2, <4>3, Zenon DEF Tells
      <3>5. CASE wagers[t].status # "PROCESSED"
        BY <1>1, <3>5 DEF Tells
      <3> QED
        BY <3>3, <3>4, <3>5
    <2> QED
      BY <2>1, <2>2
  <1> QED
    BY <1>1, Zenon DEF ToldOf, Present

(* Nothing is in the ledger for a transaction that is about to commit. *)
LEMMA NotMovedYet ==
    ASSUME Inv, MoversProcessed, NEW p \in Procs, pc[p] = "commit"
    PROVE  Moved(TxOf(p)) = {}
  <1>1. TxOf(p) \in Requests /\ Command[TxOf(p)].wallet \in Wallets
    BY CommandType DEF Inv, CommandOf, WalletOf
  <1>2. ~Processed(TxOf(p))
    <2>1. CASE p \in Requests
      BY <2>1 DEF TxOf, Inv, Serialised, RowsHaveWallets, Present, Processed
    <2>2. CASE p \notin Requests
      BY <2>2 DEF TxOf, Procs, Inv, Serialised, LocksHeld, StillPending, Processed
    <2> QED
      BY <2>1, <2>2
  <1> QED
    BY <1>1, <1>2 DEF Moved, MoversProcessed

(* A step that writes events of a request writes its row and entry with them. *)
LEMMA ToldStep ==
    ASSUME DecisionInv, LedgerExplainsWallet, MoversProcessed, NEW t \in Requests, ToldOf(t),
           [Next]_vars
    PROVE  ToldOf(t)'
  <1>0. /\ Inv /\ TypeInv /\ wagers \in [TxIds -> Row] /\ outbox \in [TxIds -> Seq(Event)]
        /\ ledger \in [Wallets -> Seq(Entry)] /\ t \in TxIds
    BY DEF DecisionInv, Inv, TypeInv, TypeOK, TxIds
  <1>1. CASE wagers'[t] = wagers[t] /\ outbox'[t] = outbox[t]
    BY <1>0, <1>1, ToldUntouched
  <1>2. ASSUME NEW p \in Procs, NEW row, NEW events, Write(p, row, events), TxOf(p) # t
        PROVE  ToldOf(t)'
    BY <1>0, <1>1, <1>2 DEF Write
  <1>3. ASSUME NEW p \in Procs, NEW row, NEW events, Write(p, row, events), TxOf(p) = t
        PROVE  wagers'[t] = row /\ outbox'[t] = outbox[t] \o events
    BY <1>0, <1>3 DEF Write
  <1>4. ASSUME NEW r \in Requests, CommitPending(r), r = t PROVE ToldOf(t)'
    <2>1. pc[t] = "commit" /\ plan[t].verdict = "wait" /\ t \in Procs /\ TxOf(t) = t
      BY <1>4 DEF CommitPending, Committing, Procs, TxOf
    <2>2. PICK next, expires :
             Write(t, PendingRow(CreatedAt(t), now[t], next, expires, 0), Waited)
      BY <1>4 DEF CommitPending, Waited
    <2>3. wagers'[t].status = "PENDING_REFERENCE" /\ outbox'[t] = outbox[t] \o Waited
      BY <1>3, <2>1, <2>2 DEF PendingRow
    <2>4. outbox[t] = << >>
      <3>1. ~Present(t)
        BY <1>0, <2>1 DEF Inv, Serialised, RowsHaveWallets
      <3> QED
        BY <3>1 DEF ToldOf, Tells, Present
    <2>5. Command[t].ref # NoRef
      BY <2>1 DEF DecisionInv, DecisionsStand, PlansStand, CommandOf
    <2>6. outbox'[t] = Waited \o << >>
      BY <2>3, <2>4 DEF Waited
    <2>7. Tells(t, << >>)' /\ Present(t)'
      BY <2>3 DEF Tells, Present
    <2> QED
      BY <2>5, <2>6, <2>7, Zenon DEF ToldOf
  <1>5. ASSUME NEW k \in Workers, work[k] = t, StillPending(t), outbox' = outbox,
               wagers'[t].status \in {"PENDING_REFERENCE", "FAILED"}
        PROVE  ToldOf(t)'
    <2>1. Command[t].ref # NoRef /\ outbox[t] = Waited \o << >>
      BY <1>5, Zenon DEF ToldOf, Tells, StillPending
    <2>2. Tells(t, << >>)' /\ Present(t)'
      BY <1>5 DEF Tells, Present
    <2> QED
      BY <1>5, <2>1, <2>2, Zenon DEF ToldOf
  <1>6. ASSUME NEW k \in Workers, Reschedule(k) PROVE ToldOf(t)'
    <2>1. CASE work[k] # t
      BY <1>0, <1>1, <1>6, <2>1 DEF Reschedule
    <2>2. CASE work[k] = t
      <3>1. StillPending(t) /\ outbox' = outbox
        BY <1>0, <1>6, <2>2 DEF Reschedule, Committing, Inv, Serialised, LocksHeld
      <3>2. wagers'[t].status = "PENDING_REFERENCE"
        BY <1>0, <1>6, <2>2 DEF Reschedule, PendingRow
      <3> QED
        BY <1>5, <2>2, <3>1, <3>2
    <2> QED
      BY <2>1, <2>2
  <1>7. ASSUME NEW k \in Workers, FailPending(k), StillPending(work[k]) PROVE ToldOf(t)'
    <2>1. CASE work[k] # t
      BY <1>0, <1>1, <1>7, <2>1 DEF FailPending
    <2>2. CASE work[k] = t
      <3>1. wagers'[t].status = "FAILED" /\ outbox' = outbox
        BY <1>0, <1>7, <2>2 DEF FailPending, SettledRow
      <3> QED
        BY <1>5, <1>7, <2>2, <3>1
    <2> QED
      BY <2>1, <2>2
  <1>8. ASSUME NEW p \in Procs, CommitReject(p), TxOf(p) = t PROVE ToldOf(t)'
    <2> DEFINE e == << TxEvent("Rejected", NoMoney) >>
    <2>1. PICK code : pc[p] = "commit" /\ Write(p, RejectedRow(p, code), e)
      BY <1>8 DEF CommitReject, Committing
    <2>2. wagers'[t].status = "REJECTED" /\ outbox'[t] = outbox[t] \o e
      <3>1. wagers'[t] = RejectedRow(p, code) /\ outbox'[t] = outbox[t] \o e
        BY <1>3, <1>8, <2>1
      <3> QED
        BY <3>1 DEF RejectedRow, SettledRow
    <2>3. Tells(t, e)' /\ e \in Seq(Event)
      BY <2>2, RowTypes DEF Tells
    <2> HIDE DEF e
    <2> QED
      BY <1>0, <1>8, <2>1, <2>2, <2>3, ToldWritten
  <1>9. ASSUME NEW p \in Procs, CommitLoss(p), TxOf(p) = t PROVE ToldOf(t)'
    <2>0. PICK b, e : b = copy[p].balance /\ e = << TxEvent("Processed", b) >>
      OBVIOUS
    <2>1. pc[p] = "commit" /\ Write(p, ProcessedRow(p, b, b), e) /\ ledger' = ledger
      BY <1>9, <2>0 DEF CommitLoss, Committing
    <2>2. /\ wagers'[t].status = "PROCESSED" /\ wagers'[t].after = b
          /\ outbox'[t] = outbox[t] \o e
      <3>1. wagers'[t] = ProcessedRow(p, b, b) /\ outbox'[t] = outbox[t] \o e
        BY <1>3, <1>9, <2>1
      <3> QED
        BY <3>1 DEF ProcessedRow, SettledRow
    <2>3. Moved(t)' = {}
      <3>1. Moved(t) = {}
        BY <1>0, <1>9, <2>1, NotMovedYet
      <3> QED
        BY <2>1, <3>1 DEF Moved, Count
    <2>4. Tells(t, e)'
      BY <2>0, <2>2, <2>3 DEF Tells
    <2>5. e \in Seq(Event)
      <3>1. b \in Balance
        BY <1>0, <2>0, <2>1, CommitTypes DEF Balance
      <3> QED
        BY <2>0, <3>1, RowTypes
    <2> QED
      BY <1>0, <1>9, <2>1, <2>2, <2>4, <2>5, ToldWritten
  <1>10. ASSUME NEW p \in Procs, CommitMovement(p), TxOf(p) = t PROVE ToldOf(t)'
    <2> DEFINE w == WalletOf(p)
               after == NewBalance(p)
               n == Len(ledger[w])
               entry == [tx |-> TxOf(p), direction |-> Direction(p),
                         amount |-> CommandOf(p).amount, before |-> BalanceBefore(p),
                         after |-> after, at |-> EntryStamp(p)]
    <2>0. PICK e :
             e = << TxEvent("Processed", after), BalanceChanged(EventVersion(p), after) >>
      OBVIOUS
    <2>1. /\ pc[p] = "commit" /\ plan[p].verdict = "settle" /\ Moves(p) /\ ~LacksFunds(p)
          /\ ErrorOf(p) = NoError
      BY <1>10 DEF CommitMovement, Committing
    <2>2. /\ Write(p, ProcessedRow(p, BalanceBefore(p), after), e)
          /\ ledger' = [ledger EXCEPT ![w] = Append(@, entry)]
      BY <1>10, <2>0 DEF CommitMovement
    <2>3. /\ wagers'[t].status = "PROCESSED" /\ wagers'[t].after = after
          /\ outbox'[t] = outbox[t] \o e
      <3>1. /\ wagers'[t] = ProcessedRow(p, BalanceBefore(p), after)
            /\ outbox'[t] = outbox[t] \o e
        BY <1>3, <1>10, <2>2
      <3> QED
        BY <3>1 DEF ProcessedRow, SettledRow
    <2>4. w = Command[t].wallet /\ w \in Wallets /\ after \in Money
      BY <1>0, <1>10, <2>1, CommandType, BalanceInRange DEF WalletOf, CommandOf
    <2>5. copy[p] = wallets[w] /\ wallets[w].version > 0 /\ copy[p].version \in Nat
      BY <1>0, <2>1, WalletThere, CommitTypes DEF Inv, Serialised, CopyIsCurrent
    <2>6. copy[p].version = 1 + n - Opened(w) /\ Opened(w) \in {0, 1}
      <3>1. wallets[w] # NoWallet
        BY <2>5 DEF NoWallet
      <3>2. wallets[w].version = 1 + Count(w) - Opened(w)
        BY <2>4, <3>1 DEF LedgerExplainsWallet
      <3> QED
        BY <2>5, <3>2 DEF Count, Opened
    <2>7. entry.tx = t /\ entry.after = after
      BY <1>10
    <2> HIDE DEF entry, after, w, n
    <2>8. ledger'[w] = Append(ledger[w], entry) /\ ledger[w] \in Seq(Entry)
      BY <1>0, <2>2, <2>4
    <2>9. n \in Nat /\ Len(ledger'[w]) = n + 1 /\ ledger'[w][n + 1] = entry
      BY <2>8 DEF n
    <2>10. n + 1 \in Moved(t)'
      BY <2>4, <2>7, <2>9 DEF Moved, Count
    <2>11. EventVersion(p) = 1 + (n + 1) - Opened(w)
      BY <2>5, <2>6, <2>9 DEF EventVersion
    <2>12. e = << TxEvent("Processed", wagers'[t].after),
                  BalanceChanged(1 + (n + 1) - Opened(w), ledger'[w][n + 1].after) >>
      BY <2>0, <2>3, <2>7, <2>9, <2>11
    <2>13. Opened(Command[t].wallet)' = Opened(w)
      BY <2>4 DEF Opened
    <2>14. Tells(t, e)'
      BY <2>3, <2>4, <2>10, <2>12, <2>13, Zenon DEF Tells
    <2>15. e \in Seq(Event)
      <3>1. after \in Balance /\ EventVersion(p) \in Nat
        BY <2>4, <2>5 DEF Balance, EventVersion
      <3>2. TxEvent("Processed", after) \in Event /\ BalanceChanged(EventVersion(p), after) \in Event
        BY <3>1, RowTypes
      <3> QED
        BY <2>0, <3>2
    <2> QED
      BY <1>0, <1>10, <2>1, <2>3, <2>14, <2>15, ToldWritten
  <1>11. ASSUME NEW r \in Requests, CommitPending(r), r # t PROVE ToldOf(t)'
    <2>1. PICK row, events : Write(r, row, events)
      BY <1>11 DEF CommitPending
    <2> QED
      BY <1>2, <1>11, <2>1 DEF TxOf, Procs
  <1>12. ASSUME NEW p \in Procs, CommitReject(p) \/ CommitLoss(p) \/ CommitMovement(p), TxOf(p) # t
         PROVE  ToldOf(t)'
    <2>1. PICK row, events : Write(p, row, events)
      BY <1>12 DEF CommitReject, CommitLoss, CommitMovement
    <2> QED
      BY <1>2, <1>12, <2>1
  <1> QED
    BY <1>0, <1>1, <1>4, <1>6, <1>7, <1>8, <1>9, <1>10, <1>11, <1>12, RowActions

(* The outbox tells the story of every transaction once, whatever was retried,
   aborted or handed from a request to a retrier; a movement names the wallet
   version it made.                                                        *)
THEOREM OutboxCorrect == Spec => []OutboxTellsOutcome
  <1> DEFINE OutboxInv == MoversProcessed /\ \A t \in Requests : ToldOf(t)
  <1>1. Init => OutboxInv
    <2> SUFFICES ASSUME Init PROVE OutboxInv
      OBVIOUS
    <2>1. \A t \in Requests : wagers[t].status = "NONE" /\ outbox[t] = << >>
      BY DEF Init, NoRow, SettledRow, TxIds
    <2>2. \A t \in Requests : ToldOf(t)
      BY <2>1 DEF ToldOf, Tells
    <2>3. MoversProcessed
      BY DEF Init, MoversProcessed, Count
    <2> QED
      BY <2>2, <2>3
  <1>2. DecisionInv /\ LedgerExplainsWallet /\ OutboxInv /\ [Next]_vars => OutboxInv'
    <2> SUFFICES ASSUME DecisionInv, LedgerExplainsWallet, OutboxInv, [Next]_vars PROVE OutboxInv'
      OBVIOUS
    <2>1. MoversProcessed'
      BY MoversStep DEF DecisionInv
    <2>2. ASSUME NEW t \in Requests PROVE ToldOf(t)'
      BY ToldStep
    <2> QED
      BY <2>1, <2>2
  <1>3. DecisionInv /\ OutboxInv => OutboxTellsOutcome
    BY ToldAll DEF DecisionInv, Inv
  <1> HIDE DEF OutboxInv
  <1> QED
    BY <1>1, <1>2, <1>3, DecisionAlways, LedgerCorrect, PTL DEF Spec
=============================================================================

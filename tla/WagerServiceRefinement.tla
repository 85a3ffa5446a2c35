----------------------- MODULE WagerServiceRefinement -----------------------
(***************************************************************************)
(* Proof that WagerService implements WalletBook: every step of a          *)
(* transaction, a retrier or a failure leaves the book as it is or enters  *)
(* one operation in it.                                                    *)
(***************************************************************************)
EXTENDS WagerServiceOutcomes, WagerServiceBook

(* The reference a process has decided on is the one its command names. *)
PlansNamed ==
    \A p \in Procs : pc[p] = "commit" /\ plan[p].ref # None =>
        Command[plan[p].ref].ext = CommandOf(p).ref

BookInv == DecisionInv /\ PlansNamed

-----------------------------------------------------------------------------
(* resolveReference finds a reference by the external id of the command. *)
LEMMA PlanForNames ==
    ASSUME NEW c, PlanFor(c).ref # None
    PROVE  Command[PlanFor(c).ref].ext = c.ref
  <1> DEFINE found == FindByExternal(c.provider, c.ref)
             u == CHOOSE x \in found : TRUE
  <1>1. /\ Wait.ref = None
        /\ \A d, v : Reject(d, v).ref = v
        /\ \A v : Settle(v).ref = v
    BY DEF Wait, Reject, Settle
  <1>2. c.ref # NoRef /\ found # {}
    BY <1>1 DEF PlanFor
  <1>3. Command[u].ext = c.ref
    BY <1>2 DEF FindByExternal
  <1>4. PlanFor(c) = PlanWith(c, u)
    BY <1>2 DEF PlanFor
  <1> HIDE DEF u
  <1>5. PlanWith(c, u).ref \in {None, u}
    BY <1>1 DEF PlanWith
  <1> QED
    BY <1>3, <1>4, <1>5

(* Every step keeps the plans of the transactions about to commit true to the
   references their commands name.                                         *)
LEMMA NamedStep ==
    ASSUME BookInv, [Next]_vars
    PROVE  PlansNamed'
  <1> SUFFICES ASSUME NEW q \in Procs, pc'[q] = "commit", plan'[q].ref # None
               PROVE  Command[plan'[q].ref].ext = CommandOf(q)'.ref
    BY DEF PlansNamed
  <1>0. Inv /\ PlansNamed
    BY DEF BookInv, DecisionInv
  <1>1. CASE pc[q] = "commit" /\ plan'[q] = plan[q] /\ TxOf(q)' = TxOf(q)
    BY <1>0, <1>1 DEF PlansNamed, CommandOf
  <1>2. CASE Decide(q)
    <2>1. CommandOf(q)' = CommandOf(q) /\ plan \in [Procs -> Plan]
      BY <1>0, <1>2 DEF Decide, CommandOf, TxOf, Inv, TypeInv, TypeOK
    <2>2. plan'[q] = Reject("REFERENCE_NOT_FOUND", None) \/ plan'[q] = PlanFor(CommandOf(q))
      BY <1>2, <2>1 DEF Decide
    <2>3. Reject("REFERENCE_NOT_FOUND", None).ref = None
      BY DEF Reject
    <2> QED
      BY <2>1, <2>2, <2>3, PlanForNames
  <1> QED
    BY <1>0, <1>1, <1>2, StillCommitting

(* What resolveReference accepted is, in the terms of the book, named. *)
LEMMA FitsNames ==
    ASSUME NEW t, NEW u, ValidateReference(Command[t], Command[u]) = NoCode,
           Command[u].ext = Command[t].ref
    PROVE  Book!Names(t, u)
  BY DEF ValidateReference, SameDeal, NoCode, Book!Names

(* A reversal moves the wallet by the opposite of what its reference did. *)
LEMMA OppositeMovement ==
    ASSUME DecisionInv, NEW t \in Requests, NEW u \in Requests, Processed(u),
           RequiresReference(Command[t].kind),
           ValidateReference(Command[t], Command[u]) = NoCode
    PROVE  /\ Signed(MovementDirection(Command[t].kind, Command[u].kind), Command[t].amount)
                = -Delta(u)
           /\ Book!MayUndo(Command[t].kind, Command[u].kind)
  <1> DEFINE c == Command[t]
             d == Command[u]
  <1>1. Delta(u) = Signed(MovementDirection(d.kind, KindOf(wagers[u].ref)), d.amount)
    BY DEF DecisionInv, DecisionsStand, RowsStand
  <1>2. AllowedReferenceType(c.kind, d.kind) /\ c.amount = d.amount
    BY FitsMeans
  <1>3. c.amount \in Int
    BY CommandAssumption, MoneyAssumption DEF Commands, Money
  <1>4. c.kind \in {"REFUND", "ROLLBACK"}
    BY DEF RequiresReference
  <1> HIDE DEF c, d
  <1>5. CASE d.kind = "BET" /\ c.kind \in {"REFUND", "ROLLBACK"}
    <2>1. /\ MovementDirection(c.kind, d.kind) = "CREDIT"
          /\ MovementDirection(d.kind, KindOf(wagers[u].ref)) = "DEBIT"
      BY <1>5 DEF MovementDirection
    <2>2. Signed("CREDIT", c.amount) = -Delta(u)
      BY <1>1, <1>2, <1>3, <2>1 DEF Signed
    <2> QED
      BY <1>5, <2>1, <2>2 DEF Book!MayUndo, c, d
  <1>6. CASE d.kind \in {"WIN", "REFUND"} /\ c.kind = "ROLLBACK"
    <2>1. /\ MovementDirection(c.kind, d.kind) = "DEBIT"
          /\ MovementDirection(d.kind, KindOf(wagers[u].ref)) = "CREDIT"
      BY <1>6 DEF MovementDirection
    <2>2. Signed("DEBIT", c.amount) = -Delta(u)
      BY <1>1, <1>2, <1>3, <2>1 DEF Signed
    <2> QED
      BY <1>6, <2>1, <2>2 DEF Book!MayUndo, c, d
  <1> QED
    BY <1>2, <1>4, <1>5, <1>6 DEF AllowedReferenceType

-----------------------------------------------------------------------------
(* The transaction a process is about to finish is open in the book: it waits,
   or neither it nor its like is known.                                    *)
LEMMA StillOpen ==
    ASSUME Inv, NEW p \in Procs,
           \/ pc[p] = "commit"
           \/ p \in Workers /\ pc[p] = "fail" /\ StillPending(work[p])
    PROVE  TxOf(p) \in Requests /\ ~Processed(TxOf(p)) /\ Book!Open(TxOf(p))
  <1> DEFINE t == TxOf(p)
  <1>0. TypeInv /\ pc[p] # "idle"
    BY DEF Inv
  <1>1. t \in Requests /\ Command[t].wallet \in Wallets
    BY <1>0, CommandType, CommandAssumption DEF Commands
  <1>2. \A u \in Requests : fateBar[u] = wagers[u].status
    BY DEF fateBar
  <1>3. CASE p \in Workers /\ StillPending(work[p])
    <2>1. t = work[p]
      BY <1>3, ProcessAssumption DEF TxOf
    <2>2. wallets[Command[t].wallet].version > 0
      BY <1>1, <1>3, <2>1 DEF Inv, Serialised, RowsHaveWallets, StillPending, Present
    <2> QED
      BY <1>1, <1>2, <1>3, <2>1, <2>2 DEF Book!Open, openedBar, StillPending, Processed
  <1>4. CASE p \in Requests /\ pc[p] = "commit"
    <2>1. t = p /\ InFlight(p) /\ ~Present(p)
      BY <1>4 DEF TxOf, InFlight, Inv, Serialised, RowsHaveWallets
    <2>2. wallets[Command[t].wallet].version > 0
      BY <1>4, <2>1 DEF Inv, Serialised, RowsHaveWallets
    <2>3. ASSUME NEW u \in Requests, Book!SameOperation(t, u) PROVE fateBar[u] = "NONE"
      <3>1. Clash(p, u)
        BY <2>1, <2>3 DEF Clash, Book!SameOperation
      <3>2. Present(u) => u = p
        BY <1>4, <2>1, <3>1 DEF Inv, Serialised, ClashFree
      <3> QED
        BY <1>2, <2>1, <3>2 DEF Present
    <2> QED
      BY <1>1, <2>1, <2>2, <2>3 DEF Book!Open, openedBar, Present, Processed
  <1>5. CASE p \in Workers /\ pc[p] = "commit"
    <2>1. StillPending(work[p])
      BY <1>5 DEF Inv, Serialised, LocksHeld
    <2> QED
      BY <1>3, <1>5, <2>1
  <1> QED
    BY <1>3, <1>4, <1>5 DEF Procs

(* How the book reads a row that has been written. *)
LEMMA BarsOfRow ==
    ASSUME TypeOK, NEW t \in Requests, NEW row, wagers' = [wagers EXCEPT ![t] = row]
    PROVE  /\ fateBar' = [fateBar EXCEPT ![t] = row.status]
           /\ effectBar' = [effectBar EXCEPT ![t] =
                IF row.status = "PROCESSED" THEN row.after - row.before ELSE 0]
           /\ undoesBar' = [undoesBar EXCEPT ![t] =
                IF row.status = "PROCESSED" /\ RequiresReference(Command[t].kind)
                THEN row.ref ELSE None]
  <1>1. /\ wagers'[t] = row
        /\ \A u \in Requests : u # t => wagers'[u] = wagers[u]
    BY DEF TypeOK, TxIds
  <1>2. /\ Processed(t)' <=> row.status = "PROCESSED"
        /\ Delta(t)' = row.after - row.before
        /\ \A u \in Requests : u # t => /\ Processed(u)' = Processed(u)
                                       /\ Delta(u)' = Delta(u)
    BY <1>1 DEF Processed, Delta
  <1>3. fateBar' = [fateBar EXCEPT ![t] = row.status]
    <2>1. \A u \in Requests : wagers'[u].status = IF u = t THEN row.status ELSE wagers[u].status
      BY <1>1
    <2> QED
      BY <2>1 DEF fateBar
  <1>4. effectBar' = [effectBar EXCEPT ![t] =
                IF row.status = "PROCESSED" THEN row.after - row.before ELSE 0]
    BY <1>2 DEF effectBar
  <1>5. undoesBar' = [undoesBar EXCEPT ![t] =
                IF row.status = "PROCESSED" /\ RequiresReference(Command[t].kind)
                THEN row.ref ELSE None]
    <2>1. \A u \in Requests : wagers'[u].ref = IF u = t THEN row.ref ELSE wagers[u].ref
      BY <1>1
    <2> QED
      BY <1>2, <2>1 DEF undoesBar
  <1> QED
    BY <1>3, <1>4, <1>5

(* A row that is not processed leaves balances and effects alone. *)
LEMMA StayStep ==
    ASSUME TypeOK, NEW t \in Requests, NEW row, wagers' = [wagers EXCEPT ![t] = row],
           wallets' = wallets, ~Processed(t), Book!Open(t), row.status # "PROCESSED"
    PROVE  Book!Stay(t, row.status)
  <1>1. /\ fateBar' = [fateBar EXCEPT ![t] = row.status]
        /\ effectBar' = [effectBar EXCEPT ![t] = 0]
        /\ undoesBar' = [undoesBar EXCEPT ![t] = None]
    BY BarsOfRow
  <1>2. /\ effectBar[t] = 0 /\ DOMAIN effectBar = Requests
        /\ effectBar = [u \in DOMAIN effectBar |-> effectBar[u]]
    BY DEF effectBar
  <1>3. /\ undoesBar[t] = None /\ DOMAIN undoesBar = Requests
        /\ undoesBar = [u \in DOMAIN undoesBar |-> undoesBar[u]]
    BY DEF undoesBar
  <1>4. effectBar' = effectBar
    BY <1>1, <1>2
  <1>5. undoesBar' = undoesBar
    BY <1>1, <1>3
  <1>6. openedBar' = openedBar /\ balanceBar' = balanceBar
    BY DEF openedBar, balanceBar
  <1> QED
    BY <1>1, <1>4, <1>5, <1>6 DEF Book!Stay

(* A settlement enters the movement of its command in the book. *)
LEMMA EnterStep ==
    ASSUME Inv, NEW p \in Procs, CommitLoss(p) \/ CommitMovement(p)
    PROVE  Book!Enter(TxOf(p), Signed(Direction(p), CommandOf(p).amount),
                      IF RequiresReference(CommandOf(p).kind) THEN plan[p].ref ELSE None)
  <1> DEFINE t == TxOf(p)
             w == Command[t].wallet
             e == Signed(Direction(p), CommandOf(p).amount)
             b == copy[p].balance
  <1>0. TypeInv /\ TypeOK /\ pc[p] = "commit" /\ plan[p].verdict = "settle"
    BY DEF Inv, TypeInv, CommitLoss, CommitMovement, Committing
  <1>1. t \in Requests /\ Book!Open(t) /\ CommandOf(p) = Command[t]
    BY <1>0, StillOpen DEF CommandOf
  <1>2. w \in Wallets /\ WalletOf(p) = w
    BY <1>1, CommandAssumption DEF Commands, WalletOf
  <1>3. b \in Money /\ CommandOf(p).amount \in Money /\ wallets[w].balance = b
    BY <1>0, <1>2, CommitTypes DEF Inv, Serialised, CopyIsCurrent
  <1>4. wallets[w].version > 0
    BY <1>0, <1>2, WalletThere
  <1> HIDE DEF t, w
  <1>5. \E a \in Money : \E row :
           /\ row.status = "PROCESSED" /\ row.ref = plan[p].ref
           /\ row.after - row.before = e /\ a = b + e
           /\ wagers' = [wagers EXCEPT ![t] = row]
           /\ balanceBar' = [balanceBar EXCEPT ![w] = a]
           /\ openedBar' = openedBar
    <2>1. CASE CommitLoss(p)
      <3>1. /\ Direction(p) = "NONE" /\ wallets' = wallets
            /\ wagers' = [wagers EXCEPT ![t] = ProcessedRow(p, b, b)]
        BY <1>0, <2>1 DEF CommitLoss, Moves, Write, t
      <3>2. e = 0
        BY <3>1 DEF Signed
      <3>3. balanceBar' = [balanceBar EXCEPT ![w] = b] /\ openedBar' = openedBar
        <4>1. \A v \in Wallets : wallets'[v].balance = IF v = w THEN b ELSE wallets[v].balance
          BY <1>3, <3>1
        <4> QED
          BY <3>1, <4>1 DEF balanceBar, openedBar
      <3>4. /\ ProcessedRow(p, b, b).status = "PROCESSED"
            /\ ProcessedRow(p, b, b).ref = plan[p].ref
            /\ ProcessedRow(p, b, b).after = b /\ ProcessedRow(p, b, b).before = b
        BY DEF ProcessedRow, SettledRow
      <3>5. b - b = e /\ b = b + e
        BY <1>3, <3>2, MoneyAssumption DEF Money
      <3> QED
        BY <1>3, <3>1, <3>3, <3>4, <3>5
    <2>2. CASE CommitMovement(p)
      <3> DEFINE a == NewBalance(p)
      <3>1. /\ wagers' = [wagers EXCEPT ![t] = ProcessedRow(p, b, a)]
            /\ wallets' = [wallets EXCEPT ![w] =
                 [balance |-> a, version |-> copy[p].version + 1, updatedAt |-> now[p]]]
        BY <1>2, <2>2 DEF CommitMovement, Write, BalanceBefore, t
      <3>2. Moves(p) /\ ~LacksFunds(p) /\ ErrorOf(p) = NoError
        BY <2>2 DEF CommitMovement, Committing
      <3>3. a \in Money /\ Direction(p) \in {"DEBIT", "CREDIT"}
        BY <1>0, <3>2, BalanceInRange
      <3>4. a - b = e /\ a = b + e
        BY <1>3, <3>3, MoneyAssumption DEF Signed, NewBalance, Money
      <3>5. copy[p].version \in Nat /\ copy[p].version + 1 > 0
        BY <1>0, CommitTypes
      <3> HIDE DEF a
      <3>6. \A v \in Wallets :
               /\ wallets'[v].balance = IF v = w THEN a ELSE wallets[v].balance
               /\ wallets'[v].version > 0 <=> wallets[v].version > 0
        BY <1>0, <1>2, <1>4, <3>1, <3>5 DEF TypeOK
      <3>7. balanceBar' = [balanceBar EXCEPT ![w] = a] /\ openedBar' = openedBar
        BY <3>6 DEF balanceBar, openedBar
      <3>8. /\ ProcessedRow(p, b, a).status = "PROCESSED"
            /\ ProcessedRow(p, b, a).ref = plan[p].ref
            /\ ProcessedRow(p, b, a).after = a /\ ProcessedRow(p, b, a).before = b
        BY DEF ProcessedRow, SettledRow
      <3> QED
        BY <3>1, <3>3, <3>4, <3>7, <3>8
    <2> QED
      BY <2>1, <2>2
  <1>6a. PICK a \in Money : \E row :
           /\ row.status = "PROCESSED" /\ row.ref = plan[p].ref
           /\ row.after - row.before = e /\ a = b + e
           /\ wagers' = [wagers EXCEPT ![t] = row]
           /\ balanceBar' = [balanceBar EXCEPT ![w] = a]
           /\ openedBar' = openedBar
    BY <1>5
  <1>6. PICK row :
           /\ row.status = "PROCESSED" /\ row.ref = plan[p].ref
           /\ row.after - row.before = e /\ a = b + e
           /\ wagers' = [wagers EXCEPT ![t] = row]
           /\ balanceBar' = [balanceBar EXCEPT ![w] = a]
           /\ openedBar' = openedBar
    BY <1>6a
  <1>7. balanceBar[w] = b
    BY <1>2, <1>3 DEF balanceBar
  <1>8. /\ fateBar' = [fateBar EXCEPT ![t] = "PROCESSED"]
        /\ effectBar' = [effectBar EXCEPT ![t] = e]
        /\ undoesBar' = [undoesBar EXCEPT ![t] =
                IF RequiresReference(CommandOf(p).kind) THEN plan[p].ref ELSE None]
    <2>1. /\ fateBar' = [fateBar EXCEPT ![t] = row.status]
          /\ effectBar' = [effectBar EXCEPT ![t] =
               IF row.status = "PROCESSED" THEN row.after - row.before ELSE 0]
          /\ undoesBar' = [undoesBar EXCEPT ![t] =
               IF row.status = "PROCESSED" /\ RequiresReference(Command[t].kind)
               THEN row.ref ELSE None]
      BY <1>0, <1>1, <1>6, BarsOfRow, Zenon
    <2>2. row.status = "PROCESSED" /\ row.ref = plan[p].ref /\ row.after - row.before = e
      BY <1>6
    <2> HIDE DEF e
    <2> QED
      BY <1>1, <2>1, <2>2
  <1>9. balanceBar[w] + e \in Money /\ balanceBar' = [balanceBar EXCEPT ![w] = @ + e]
    BY <1>6, <1>7
  <1> HIDE DEF e
  <1>10. Book!Enter(t, e, IF RequiresReference(CommandOf(p).kind) THEN plan[p].ref ELSE None)
    BY <1>1, <1>6, <1>8, <1>9 DEF Book!Enter, w
  <1> QED
    BY <1>10 DEF t, e

(* A settlement is a bet, a win, a loss or the reversal of one operation. *)
LEMMA SettleStep ==
    ASSUME BookInv, NEW p \in Procs, CommitLoss(p) \/ CommitMovement(p)
    PROVE  Book!Next
  <1> DEFINE t == TxOf(p)
             c == Command[t]
             u == plan[p].ref
             e == Signed(Direction(p), c.amount)
  <1>0. /\ DecisionInv /\ Inv /\ PlansStand /\ PlansNamed /\ TypeInv
        /\ pc[p] = "commit" /\ plan[p].verdict = "settle"
    BY DEF BookInv, DecisionInv, DecisionsStand, Inv, CommitLoss, CommitMovement, Committing
  <1>1. t \in Requests /\ CommandOf(p) = c /\ c.amount \in Int /\ c.kind \in Kinds
    BY <1>0, StillOpen, CommandAssumption, MoneyAssumption DEF CommandOf, Commands, Money
  <1>2. Book!Enter(t, e, IF RequiresReference(c.kind) THEN u ELSE None)
    BY <1>0, <1>1, EnterStep
  <1>3. Stands(c, plan[p]) /\ ValidExternalWager(c)
    BY <1>0, <1>1, StandsAll, ValidCommand
  <1>4. c.ref # NoRef => /\ u \in Requests /\ Processed(u) /\ u # None
                         /\ ValidateReference(c, Command[u]) = NoCode
                         /\ Book!Names(t, u) /\ fateBar[u] = "PROCESSED"
                         /\ AllowedReferenceType(c.kind, Command[u].kind)
    <2>1. c.ref # NoRef => /\ u \in Requests /\ Processed(u) /\ u # None
                           /\ ValidateReference(c, Command[u]) = NoCode
      BY <1>0, <1>3, ProcessAssumption DEF Stands, Procs
    <2> QED
      BY <1>0, <1>1, <2>1, FitsNames, FitsMeans DEF PlansNamed, fateBar, Processed
  <1>5. CASE RequiresReference(c.kind)
    <2>1. c.ref # NoRef
      BY <1>3, <1>5 DEF ValidExternalWager, ValidExternalReference
    <2>2. e = -Delta(u) /\ Book!MayUndo(c.kind, Command[u].kind) /\ c.amount = Command[u].amount
      <3>1. KindOf(u) = Command[u].kind
        BY <1>4, <2>1 DEF KindOf
      <3> QED
        BY <1>0, <1>1, <1>4, <1>5, <2>1, <3>1, OppositeMovement, FitsMeans DEF Direction
    <2>3. effectBar[u] = Delta(u)
      BY <1>4, <2>1 DEF effectBar
    <2>4. ASSUME NEW x \in Requests, undoesBar[x] = u PROVE FALSE
      <3>1. Processed(x) /\ RequiresReference(Command[x].kind) /\ wagers[x].ref = u
        BY <1>4, <2>1, <2>4 DEF undoesBar
      <3>2. ~HasProcessedDirectReversal(u)
        BY <1>0, <1>3, <1>5, <2>1 DEF Stands
      <3> QED
        BY <3>1, <3>2 DEF HasProcessedDirectReversal, Processed, RequiresReference
    <2>5. Book!Enter(t, -effectBar[u], u)
      BY <1>2, <1>5, <2>2, <2>3
    <2>6. Book!Undo(t, u)
      BY <1>4, <2>1, <2>2, <2>4, <2>5 DEF Book!Undo
    <2> QED
      BY <1>1, <1>4, <2>1, <2>6 DEF Book!Next
  <1>6. CASE c.kind = "BET"
    <2>1. e = -c.amount /\ ~RequiresReference(c.kind)
      BY <1>1, <1>6 DEF Direction, MovementDirection, Signed, RequiresReference
    <2>2. Book!Bet(t)
      BY <1>2, <1>6, <2>1 DEF Book!Bet
    <2> QED
      BY <1>1, <2>2 DEF Book!Next
  <1>7. CASE c.kind = "WIN"
    <2>1. e = c.amount /\ ~RequiresReference(c.kind)
      BY <1>1, <1>7 DEF Direction, MovementDirection, Signed, RequiresReference
    <2>2. c.ref # NoRef => /\ u \in Requests /\ Book!Names(t, u) /\ Command[u].kind = "BET"
                           /\ fateBar[u] = "PROCESSED"
      BY <1>4, <1>7 DEF AllowedReferenceType
    <2>3. Book!Win(t)
      BY <1>2, <1>7, <2>1, <2>2 DEF Book!Win
    <2> QED
      BY <1>1, <2>3 DEF Book!Next
  <1>8. CASE c.kind = "LOSS"
    <2>1. e = 0 /\ ~RequiresReference(c.kind)
      BY <1>1, <1>8 DEF Direction, MovementDirection, Signed, RequiresReference
    <2>2. Book!Loss(t)
      BY <1>2, <1>8, <2>1 DEF Book!Loss
    <2> QED
      BY <1>1, <2>2 DEF Book!Next
  <1> QED
    BY <1>1, <1>5, <1>6, <1>7, <1>8 DEF Kinds, RequiresReference

-----------------------------------------------------------------------------
(* A commit that does not settle: the operation waits or is turned down. *)
LEMMA UnsettledStep ==
    ASSUME BookInv, NEW p \in Procs, pc[p] = "commit", wallets' = wallets,
           NEW row, RowOf(p, row), row.status # "PROCESSED",
           wagers' = [wagers EXCEPT ![TxOf(p)] = row]
    PROVE  Book!Next
  <1> DEFINE t == TxOf(p)
  <1>0. Inv /\ PlansStand /\ TypeOK
    BY DEF BookInv, DecisionInv, DecisionsStand, Inv, TypeInv
  <1>1. t \in Requests /\ ~Processed(t) /\ Book!Open(t) /\ CommandOf(p) = Command[t]
    BY <1>0, StillOpen DEF CommandOf
  <1>2. Book!Stay(t, row.status)
    BY <1>0, <1>1, StayStep
  <1>3. \/ row.status = "REJECTED"
        \/ row.status = "PENDING_REFERENCE" /\ plan[p].verdict = "wait"
    BY DEF RowOf, PendingRow, RejectedRow, ProcessedRow, SettledRow
  <1>4. plan[p].verdict = "wait" => Command[t].ref # NoRef
    BY <1>0, <1>1, StandsAll DEF Stands
  <1>5. Book!Wait(t) \/ Book!Reject(t)
    BY <1>2, <1>3, <1>4 DEF Book!Wait, Book!Reject
  <1> QED
    BY <1>1, <1>5 DEF Book!Next

(* Only a settlement makes a row PROCESSED. *)
LEMMA OnlySettling ==
    ASSUME Inv, [Next]_vars, NEW x \in Requests,
           wagers'[x] # wagers[x], wagers'[x].status = "PROCESSED"
    PROVE  \E p \in Procs : CommitLoss(p) \/ CommitMovement(p)
  <1>0. wagers \in [TxIds -> Row] /\ x \in TxIds
    BY DEF Inv, TypeInv, TypeOK, TxIds
  <1>1. ASSUME NEW t, NEW row, wagers' = [wagers EXCEPT ![t] = row] PROVE row.status = "PROCESSED"
    BY <1>0, <1>1
  <1>2. ASSUME NEW w \in Wallets, CreateWallet(w) PROVE FALSE
    BY <1>0, <1>2, ProcessAssumption DEF CreateWallet, TxIds
  <1>3. ASSUME NEW r \in Requests,
               \/ Begin(r) \/ RefuseInvalid(r) \/ Replay(r) \/ Insert(r)
               \/ RefuseDangling(r) \/ RefuseMismatch(r)
        PROVE  FALSE
    BY <1>3 DEF Begin, RefuseInvalid, Replay, Insert, RefuseDangling, RefuseMismatch, Refuse, db
  <1>4. ASSUME NEW p \in Procs,
               \/ LockWallet(p) \/ Decide(p) \/ CommitError(p)
               \/ Abort(p) \/ FailAttempt(p)
        PROVE  FALSE
    BY <1>4 DEF LockWallet, Decide, CommitError, Abort, FailAttempt, db
  <1>5. ASSUME NEW k \in Workers, NEW t \in Requests, Claim(k, t) PROVE FALSE
    BY <1>5 DEF Claim
  <1>6. CASE Tick \/ UNCHANGED vars
    BY <1>6 DEF Tick, vars
  <1>7. \A c, s, n, e, i : PendingRow(c, s, n, e, i).status # "PROCESSED"
    BY DEF PendingRow
  <1>8. ASSUME NEW r \in Requests, CommitPending(r) PROVE FALSE
    BY <1>1, <1>7, <1>8 DEF CommitPending, Write
  <1>9. ASSUME NEW k \in Workers, Reschedule(k) PROVE FALSE
    BY <1>1, <1>7, <1>9 DEF Reschedule
  <1>10. ASSUME NEW p \in Procs, CommitReject(p) PROVE FALSE
    <2>1. PICK code : wagers' = [wagers EXCEPT ![TxOf(p)] = RejectedRow(p, code)]
      BY <1>10 DEF CommitReject, Write
    <2>2. RejectedRow(p, code).status = "REJECTED"
      BY DEF RejectedRow, SettledRow
    <2> QED
      BY <1>1, <2>1, <2>2
  <1>11. ASSUME NEW k \in Workers, FailPending(k) PROVE FALSE
    <2>1. PICK created : wagers' = [wagers EXCEPT ![work[k]] =
             SettledRow("FAILED", "PROCESSING_FAILED", NoMoney, NoMoney, None, created, clock)]
      BY <1>11 DEF FailPending
    <2>2. SettledRow("FAILED", "PROCESSING_FAILED", NoMoney, NoMoney, None, created, clock).status
            = "FAILED"
      BY DEF SettledRow
    <2> QED
      BY <1>1, <2>1, <2>2
  <1> QED
    BY <1>2, <1>3, <1>4, <1>5, <1>6, <1>8, <1>9, <1>10, <1>11
    DEF Next, RequestStep, WorkerStep, Step, Quiescent, Procs

(* WalletService.Create opens a wallet in the book. *)
LEMMA CreateStep ==
    ASSUME Inv, NEW w \in Wallets, CreateWallet(w)
    PROVE  Book!OpenWallet(w)
  <1>0. /\ wallets \in [Wallets -> Wallet] /\ wagers \in [TxIds -> Row]
        /\ wallets[w] = NoWallet
        /\ wallets' = [wallets EXCEPT ![w] =
              [balance |-> Opening[w], version |-> 1, updatedAt |-> clock]]
    BY DEF Inv, TypeInv, TypeOK, CreateWallet
  <1>1. \A v \in Wallets :
           /\ wallets'[v].version = IF v = w THEN 1 ELSE wallets[v].version
           /\ wallets'[v].balance = IF v = w THEN Opening[w] ELSE wallets[v].balance
    BY <1>0
  <1>2. wallets[w].version = 0
    BY <1>0 DEF NoWallet
  <1>3. w \notin openedBar /\ openedBar' = openedBar \cup {w}
    BY <1>1, <1>2 DEF openedBar
  <1>4. balanceBar' = [balanceBar EXCEPT ![w] = Opening[w]]
    BY <1>1 DEF balanceBar
  <1>5. \A t \in Requests : wagers'[t] = wagers[t]
    BY <1>0, ProcessAssumption DEF CreateWallet, TxIds
  <1>6. fateBar' = fateBar /\ effectBar' = effectBar /\ undoesBar' = undoesBar
    BY <1>5 DEF fateBar, effectBar, undoesBar, Processed, Delta
  <1> QED
    BY <1>3, <1>4, <1>6 DEF Book!OpenWallet

(* Every step of the service is a step of the book or changes nothing in it. *)
LEMMA BookStep ==
    ASSUME BookInv, [Next]_vars
    PROVE  [Book!Next]_(Book!vars)
  <1>0. Inv /\ TypeOK
    BY DEF BookInv, DecisionInv, Inv, TypeInv
  <1>1. CASE \E w \in Wallets : CreateWallet(w)
    BY <1>0, <1>1, CreateStep DEF Book!Next
  <1>2. CASE \E p \in Procs : CommitLoss(p) \/ CommitMovement(p)
    BY <1>2, SettleStep
  <1>3. CASE /\ ~\E w \in Wallets : CreateWallet(w)
             /\ ~\E p \in Procs : CommitLoss(p) \/ CommitMovement(p)
    <2>1. wallets' = wallets
      BY <1>3, MoneyMoves
    <2>2. CASE \A t \in Requests : wagers'[t] = wagers[t]
      <3>1. fateBar' = fateBar /\ effectBar' = effectBar /\ undoesBar' = undoesBar
        BY <2>2 DEF fateBar, effectBar, undoesBar, Processed, Delta
      <3>2. openedBar' = openedBar /\ balanceBar' = balanceBar
        BY <2>1 DEF openedBar, balanceBar
      <3> QED
        BY <3>1, <3>2 DEF Book!vars
    <2>3. CASE \E k \in Workers : FailPending(k) /\ StillPending(work[k])
      <3>1. PICK k \in Workers : FailPending(k) /\ StillPending(work[k])
        BY <2>3
      <3>2. PICK created : wagers' = [wagers EXCEPT ![work[k]] =
               SettledRow("FAILED", "PROCESSING_FAILED", NoMoney, NoMoney, None, created, clock)]
        BY <3>1 DEF FailPending
      <3>3. /\ work[k] \in Requests /\ ~Processed(work[k]) /\ Book!Open(work[k])
            /\ TxOf(k) = work[k]
        BY <1>0, <3>1, StillOpen, ProcessAssumption DEF FailPending, Procs, TxOf
      <3>4. SettledRow("FAILED", "PROCESSING_FAILED", NoMoney, NoMoney, None, created, clock).status
              = "FAILED"
        BY DEF SettledRow
      <3>5. Book!Stay(work[k], "FAILED")
        BY <1>0, <2>1, <3>2, <3>3, <3>4, StayStep
      <3>6. Book!Fail(work[k])
        BY <3>1, <3>3, <3>5 DEF Book!Fail, fateBar, StillPending
      <3> QED
        BY <3>3, <3>6 DEF Book!Next
    <2>4. CASE \E p \in Procs : CommitsRow(p)
      <3>1. PICK p \in Procs : CommitsRow(p)
        BY <2>4
      <3>2. PICK row : RowOf(p, row) /\ wagers' = [wagers EXCEPT ![TxOf(p)] = row]
        BY <3>1 DEF CommitsRow
      <3>3. TxOf(p) \in Requests /\ wagers'[TxOf(p)] = row
        BY <1>0, <3>1, <3>2, StillOpen DEF CommitsRow, TypeOK, TxIds
      <3>4. row.status # "PROCESSED"
        <4>1. ~Processed(TxOf(p))
          BY <1>0, <3>1, StillOpen DEF CommitsRow
        <4> QED
          BY <1>0, <1>3, <3>3, <4>1, OnlySettling DEF Processed
      <3> QED
        BY <2>1, <3>1, <3>2, <3>4, UnsettledStep DEF CommitsRow
    <2> QED
      BY <1>0, <2>2, <2>3, <2>4, RowsChange
  <1> QED
    BY <1>1, <1>2, <1>3

(* The invariant the refinement rests on holds in every state. *)
LEMMA BookInvAlways == Spec => []BookInv
  <1>1. Init => PlansNamed
    BY DEF Init, PlansNamed
  <1>2. DecisionInv /\ PlansNamed /\ [Next]_vars => PlansNamed'
    BY NamedStep DEF BookInv
  <1>3. DecisionInv /\ PlansNamed => BookInv
    BY DEF BookInv
  <1> QED
    BY <1>1, <1>2, <1>3, DecisionAlways, PTL DEF Spec

(* Process, the retrier and WalletService.Create implement WalletBook: for any
   commands, wallets, retriers, interleaving and failures, the committed
   tables change as if every operation were entered in one step, once, within
   the range of Money, and every reversal as the opposite of the one operation
   it names.                                                               *)
THEOREM BookImplemented == Spec => ImplementsBook
  <1>1. Init => Book!Init
    <2> SUFFICES ASSUME Init PROVE Book!Init
      OBVIOUS
    <2>1. \A t \in Requests : wagers[t].status = "NONE"
      BY DEF Init, NoRow, SettledRow, TxIds
    <2>2. \A w \in Wallets : wallets[w].version = 0 /\ wallets[w].balance = 0
      BY DEF Init, NoWallet
    <2> QED
      BY <2>1, <2>2
      DEF Book!Init, openedBar, balanceBar, fateBar, effectBar, undoesBar, Processed
  <1>2. BookInv /\ [Next]_vars => [Book!Next]_(Book!vars)
    BY BookStep
  <1> QED
    BY <1>1, <1>2, BookInvAlways, PTL DEF Spec, ImplementsBook, Book!Spec
=============================================================================

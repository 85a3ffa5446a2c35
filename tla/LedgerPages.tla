---------------------------- MODULE LedgerPages -----------------------------
(***************************************************************************)
(* The read side of a wallet: clients walk its ledger page by page, newest *)
(* entry first, and ask for a reconciliation, while movements go on.       *)
(*                                                                         *)
(* Entries are committed under the lock of the wallet, with the clock read *)
(* after it: their stamps never run back, but two of them may be equal.    *)
(* Ids are random, so they say nothing about the order of commits.         *)
(*                                                                         *)
(* The tables are those of PostgreSQL at READ COMMITTED: what an open      *)
(* transaction has written is in them, but a statement sees the rows of    *)
(* the transactions that had committed when the statement began.  A page   *)
(* is one statement over one table, and one step here; a reconciliation    *)
(* reads two tables, in steps between which movements commit.              *)
(***************************************************************************)
EXTENDS Integers, FiniteSets

CONSTANTS
    Readers,        \* clients that walk the ledger
    Ids,            \* identifiers of ledger entries, in the order of uuids
    MaxStamp,       \* bound on the clock
    MaxBalance,     \* bound on the balance
    Limits,         \* page sizes that are asked for
    MaxLimit,       \* maxLedgerLimit
    None            \* no cursor, no entry

ASSUME IdAssumption == Ids \subseteq Nat
ASSUME BoundAssumption == MaxStamp \in Nat /\ MaxBalance \in Nat
ASSUME LimitAssumption == Limits \subseteq Nat /\ MaxLimit \in Nat

Stamps == 1 .. MaxStamp
Cursor == [stamp : Stamps, id : Ids]
Entry == [stamp : Stamps, id : Ids, after : 0 .. MaxBalance, change : Int]

ASSUME NoneAssumption == None \notin Cursor

VARIABLES
    ledger,     \* committed entries of the wallet
    balance,    \* its balance, as committed
    movement,   \* the transaction that holds the lock of the wallet
    reader,     \* the walk of each client
    check,      \* the reconciliation that is being read
    verdict     \* the answer to the last one

vars == << ledger, balance, movement, reader, check, verdict >>

NoMovement == [pc |-> "none", entry |-> None]
NoCheck == [pc |-> "idle", snapshot |-> {}, stored |-> 0]

NoWalk == [pc |-> "idle", start |-> {}, seen |-> {}, limit |-> 0, cursor |-> None,
           ordered |-> TRUE]

Init ==
    /\ ledger = {} /\ balance = 0 /\ movement = NoMovement
    /\ reader = [c \in Readers |-> NoWalk]
    /\ check = NoCheck
    /\ verdict = [consistent |-> TRUE, checked |-> 0]

(* ORDER BY created_at DESC, id DESC *)
Newer(a, b) == a.stamp > b.stamp \/ (a.stamp = b.stamp /\ a.id > b.id)

-----------------------------------------------------------------------------
(***************************************************************************)
(* A movement: one transaction, under the lock of the wallet.              *)
(***************************************************************************)

(* The wallet is locked, the clock and the balance are read after that. *)
LockWallet(entry) ==
    /\ movement.pc = "none"
    /\ entry.after = balance + entry.change /\ entry.change # 0
    /\ \A e \in ledger : e.id # entry.id /\ e.stamp <= entry.stamp
    /\ movement' = [pc |-> "locked", entry |-> entry]
    /\ UNCHANGED << ledger, balance, reader, check, verdict >>

(* applyMovement updates the row of the wallet, then it inserts the entry. *)
StoreBalance ==
    /\ movement.pc = "locked"
    /\ movement' = [movement EXCEPT !.pc = "stored"]
    /\ UNCHANGED << ledger, balance, reader, check, verdict >>

InsertEntry ==
    /\ movement.pc = "stored"
    /\ movement' = [movement EXCEPT !.pc = "inserted"]
    /\ UNCHANGED << ledger, balance, reader, check, verdict >>

Commit ==
    /\ movement.pc = "inserted"
    /\ ledger' = ledger \cup {movement.entry}
    /\ balance' = movement.entry.after
    /\ movement' = NoMovement
    /\ UNCHANGED << reader, check, verdict >>

Rollback ==
    /\ movement.pc # "none"
    /\ movement' = NoMovement
    /\ UNCHANGED << ledger, balance, reader, check, verdict >>

(* The rows of wallet_ledger_entries, the one that is not committed among them. *)
Entries == ledger \cup (IF movement.pc = "inserted" THEN {movement.entry} ELSE {})

Move ==
    \/ \E stamp \in Stamps, id \in Ids, after \in 0 .. MaxBalance :
          LockWallet([stamp |-> stamp, id |-> id, after |-> after, change |-> after - balance])
    \/ StoreBalance \/ InsertEntry \/ Commit \/ Rollback

-----------------------------------------------------------------------------
(***************************************************************************)
(* GET /wallets/:walletId/ledger                                           *)
(***************************************************************************)

(* Mutant: only the time is compared. *)
BugTimeOnly(e, cursor) == e.stamp < cursor.stamp

(* Mutant: the row of the cursor itself is not left out. *)
BugInclusive(e, cursor) == ~Newer(e, cursor)

(* (created_at, id) < ($2, $3) *)
Past(e, cursor) == Newer(cursor, e)

Below(cursor) == {e \in ledger : cursor = None \/ Past(e, cursor)}

(* The first k rows of a result, newest first. *)
First(S, k) == {e \in S : Cardinality({f \in S : Newer(f, e)}) < k}

ListByWallet(cursor, limit) == First(Below(cursor), limit)

(* encodeLedgerCursor, decodeLedgerCursor: time and id come back unchanged. *)
CursorOf(e) == [stamp |-> e.stamp, id |-> e.id]

(* entries[len(entries)-1] *)
Last(shown) == CHOOSE e \in shown : \A f \in shown : ~Newer(e, f)

(* One page: a row more than the limit is asked for, to know of a next page. *)
Page(c, cursor, limit) ==
    LET fetched == ListByWallet(cursor, limit + 1)
        shown == First(fetched, limit)
        hasMore == Cardinality(fetched) > limit
    IN  reader' = [reader EXCEPT
          ![c].pc = IF hasMore THEN "more" ELSE "done",
          ![c].start = IF cursor = None THEN ledger ELSE @,
          ![c].limit = limit,
          ![c].cursor = IF hasMore THEN CursorOf(Last(shown)) ELSE None,
          ![c].seen = @ \cup shown,
          ![c].ordered = @ /\ \A e \in shown, f \in reader[c].seen : Newer(f, e)]

ValidLimit(limit) == 1 <= limit /\ limit <= MaxLimit

FirstPage(c, limit) ==
    /\ reader[c].pc = "idle" /\ ValidLimit(limit)
    /\ Page(c, None, limit)
    /\ UNCHANGED << ledger, balance, movement, check, verdict >>

(* The client follows nextCursor and keeps its limit. *)
NextPage(c) ==
    /\ reader[c].pc = "more"
    /\ Page(c, reader[c].cursor, reader[c].limit)
    /\ UNCHANGED << ledger, balance, movement, check, verdict >>

-----------------------------------------------------------------------------
(***************************************************************************)
(* POST /wallets/:walletId/reconciliation                                  *)
(***************************************************************************)

(* Total is what the entries of S add up to. *)
Total(S) ==
    LET sum[T \in SUBSET S] ==
          IF T = {} THEN 0
          ELSE LET e == CHOOSE e \in T : TRUE IN e.change + sum[T \ {e}]
    IN  sum[S]

(* The statement takes its snapshot, and reads the row of the wallet as the
   last transaction in it left it, not as an open movement has stored it.  *)
ReadBalance ==
    /\ check.pc = "idle"
    /\ check' = [pc |-> "entries", snapshot |-> {e.id : e \in ledger}, stored |-> balance]
    /\ UNCHANGED << ledger, balance, movement, reader, verdict >>

(* Mutant: the entries are read by a statement of their own, which sees what
   has been committed since.                                               *)
BugReadApart == ledger

(* The entries of the transactions in the snapshot, of all there are now. *)
Joined == {e \in Entries : e.id \in check.snapshot}

(* SUM(l.amount) and COUNT(l.id); Reconcile compares the sum with the balance. *)
ReadEntries ==
    /\ check.pc = "entries"
    /\ verdict' = [consistent |-> check.stored - Total(Joined) = 0,
                   checked |-> Cardinality(Joined)]
    /\ check' = NoCheck
    /\ UNCHANGED << ledger, balance, movement, reader >>

Reconcile == ReadBalance \/ ReadEntries

Walk(c) == NextPage(c) \/ \E limit \in Limits : FirstPage(c, limit)

Next ==
    \/ Move
    \/ \E c \in Readers : Walk(c)
    \/ Reconcile

Spec == Init /\ [][Next]_vars

(* Clients follow nextCursor. *)
FairSpec == Spec /\ \A c \in Readers : WF_vars(Walk(c))

-----------------------------------------------------------------------------
(***************************************************************************)
(* Properties.                                                             *)
(***************************************************************************)

(* A walk that reaches the last page has shown every entry that was there when
   it began, whatever was committed meanwhile and however times tie.       *)
WalkComplete ==
    \A c \in Readers : reader[c].pc = "done" => reader[c].start \subseteq reader[c].seen

(* Nothing is shown twice, or out of order: every page is older than all the
   pages before it.                                                        *)
WalkDescends == \A c \in Readers : reader[c].ordered

(* A reconciliation never sees half a movement, neither of the transaction that
   is writing nor of those that commit while it reads.                     *)
NoFalseAlarm == verdict.consistent

(* Every walk ends, although the ledger grows under it. *)
WalksEnd == \A c \in Readers : <>(reader[c].pc = "done")
=============================================================================

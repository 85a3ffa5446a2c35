-------------------------- MODULE LedgerPagesProofs --------------------------
(***************************************************************************)
(* Proofs that a walk over the pages of a ledger shows every entry that    *)
(* was there, once and in order, and that a reconciliation raises no false *)
(* alarm, for ledgers of any size.                                         *)
(*                                                                         *)
(* Between two pages, whatever a walk has shown is not past its cursor and *)
(* whatever it has still to show is.  The entries of a ledger have ids of  *)
(* their own, so Newer orders them even where the times tie.               *)
(***************************************************************************)
EXTENDS LedgerPages, FiniteSetTheorems, WellFoundedInduction, TLAPS

-----------------------------------------------------------------------------
(***************************************************************************)
(* Smallest numbers, for arguments by the smallest counterexample.         *)
(***************************************************************************)

Less == {p \in Nat \X Nat : p[1] < p[2]}

(* < is well-founded on the naturals, as a set of pairs. *)
LEMMA LessWellFounded == IsWellFoundedOn(Less, Nat)
  BY NatLessThanWellFounded, Zenon DEF OpToRel, Less

(* Every set of naturals that is not empty has a smallest one. *)
LEMMA SmallestExists ==
    ASSUME NEW S \in SUBSET Nat, S # {}
    PROVE  \E m \in S : \A n \in S : m <= n
  <1>1. PICK m \in S : \A n \in S : ~(<< n, m >> \in Less)
    BY LessWellFounded, WFMin
  <1>2. ASSUME NEW n \in S PROVE m <= n
    <2>1. << n, m >> \notin Less /\ n \in Nat /\ m \in Nat
      BY <1>1
    <2>2. ~(n < m)
      BY <2>1 DEF Less
    <2> QED
      BY <2>1, <2>2
  <1> QED
    BY <1>2

-----------------------------------------------------------------------------
(***************************************************************************)
(* The order of entries.                                                   *)
(***************************************************************************)

Key(x) == x.stamp \in Nat /\ x.id \in Nat

(* Sets of rows with ids of their own. *)
Rows(S) ==
    /\ IsFiniteSet(S) /\ \A e \in S : Key(e)
    /\ \A e, f \in S : e.id = f.id => e = f

(* A strict order, and on rows with ids of their own a total one. *)
LEMMA NewerOrder ==
    /\ \A x : Key(x) => ~Newer(x, x)
    /\ \A x, y : Key(x) /\ Key(y) => ~(Newer(x, y) /\ Newer(y, x))
    /\ \A x, y : Key(x) /\ Key(y) /\ x.id # y.id => Newer(x, y) \/ Newer(y, x)
    /\ \A x, y, z : Key(x) /\ Key(y) /\ Key(z) =>
          /\ Newer(x, y) /\ Newer(y, z) => Newer(x, z)
          /\ ~Newer(y, x) /\ Newer(y, z) => Newer(x, z)
  BY DEF Key, Newer

(* Part of the rows are rows. *)
LEMMA SubsetRows ==
    ASSUME NEW S, Rows(S), NEW T \in SUBSET S
    PROVE  Rows(T)
  BY FS_Subset DEF Rows

(* A strict subset of a finite set has fewer elements. *)
LEMMA FewerThan ==
    ASSUME NEW S, IsFiniteSet(S), NEW T \in SUBSET S, NEW e \in S, e \notin T
    PROVE  Cardinality(T) \in Nat /\ Cardinality(S) \in Nat /\ Cardinality(T) < Cardinality(S)
  <1>1. /\ IsFiniteSet(T) /\ Cardinality(T) <= Cardinality(S) /\ Cardinality(T) # Cardinality(S)
    BY FS_Subset
  <1>2. Cardinality(T) \in Nat /\ Cardinality(S) \in Nat
    BY <1>1, FS_CardinalityType
  <1> QED
    BY <1>1, <1>2

(* Some row is the newest: one with the fewest rows above it has none. *)
LEMMA NewestExists ==
    ASSUME NEW S, Rows(S), S # {}
    PROVE  \E e \in S : \A f \in S : ~Newer(f, e)
  <1> DEFINE Above(e) == {f \in S : Newer(f, e)}
  <1> DEFINE Counts == {Cardinality(Above(e)) : e \in S}
  <1>1. \A e \in S : IsFiniteSet(Above(e)) /\ Cardinality(Above(e)) \in Nat
    BY FS_Subset, FS_CardinalityType DEF Rows
  <1>2. PICK m \in Counts : \A n \in Counts : m <= n
    <2>1. Counts \in SUBSET Nat /\ Counts # {}
      BY <1>1
    <2> HIDE DEF Counts
    <2> QED
      BY <2>1, SmallestExists
  <1>3. PICK e \in S : m = Cardinality(Above(e))
    BY <1>2
  <1>4. ASSUME NEW f \in S, Newer(f, e) PROVE FALSE
    <2>1. Above(f) \subseteq Above(e) /\ f \in Above(e) /\ f \notin Above(f)
      BY <1>4, NewerOrder DEF Rows
    <2>2. Cardinality(Above(f)) < m
      BY <1>1, <1>3, <2>1, FewerThan
    <2>3. m <= Cardinality(Above(f)) /\ m \in Nat /\ Cardinality(Above(f)) \in Nat
      BY <1>1, <1>2, <1>3
    <2> QED
      BY <2>2, <2>3
  <1> QED
    BY <1>4

(* And some row is the oldest. *)
LEMMA OldestExists ==
    ASSUME NEW S, Rows(S), S # {}
    PROVE  \E e \in S : \A f \in S : ~Newer(e, f)
  <1> DEFINE Under(e) == {f \in S : Newer(e, f)}
  <1> DEFINE Counts == {Cardinality(Under(e)) : e \in S}
  <1>1. \A e \in S : IsFiniteSet(Under(e)) /\ Cardinality(Under(e)) \in Nat
    BY FS_Subset, FS_CardinalityType DEF Rows
  <1>2. PICK m \in Counts : \A n \in Counts : m <= n
    <2>1. Counts \in SUBSET Nat /\ Counts # {}
      BY <1>1
    <2> HIDE DEF Counts
    <2> QED
      BY <2>1, SmallestExists
  <1>3. PICK e \in S : m = Cardinality(Under(e))
    BY <1>2
  <1>4. ASSUME NEW f \in S, Newer(e, f) PROVE FALSE
    <2>1. Under(f) \subseteq Under(e) /\ f \in Under(e) /\ f \notin Under(f)
      BY <1>4, NewerOrder DEF Rows
    <2>2. Cardinality(Under(f)) < m
      BY <1>1, <1>3, <2>1, FewerThan
    <2>3. m <= Cardinality(Under(f)) /\ m \in Nat /\ Cardinality(Under(f)) \in Nat
      BY <1>1, <1>2, <1>3
    <2> QED
      BY <2>2, <2>3
  <1> QED
    BY <1>4

-----------------------------------------------------------------------------
(***************************************************************************)
(* LIMIT, and the row more that is asked for.                              *)
(***************************************************************************)

(* Whatever is newer than one of the first rows is one of them. *)
LEMMA FirstIsUpward ==
    ASSUME NEW S, Rows(S), NEW k \in Nat, NEW e \in First(S, k), NEW g \in S, Newer(g, e)
    PROVE  g \in First(S, k)
  <1> DEFINE Above(x) == {f \in S : Newer(f, x)}
  <1>1. Above(g) \subseteq Above(e) /\ Above(e) \subseteq S
    BY NewerOrder DEF Rows, First
  <1>2. IsFiniteSet(Above(e)) /\ IsFiniteSet(Above(g)) /\ Cardinality(Above(g)) <= Cardinality(Above(e))
    BY <1>1, FS_Subset DEF Rows
  <1>3. Cardinality(Above(e)) \in Nat /\ Cardinality(Above(g)) \in Nat
    BY <1>2, FS_CardinalityType
  <1>4. Cardinality(Above(e)) < k
    BY DEF First
  <1>5. Cardinality(Above(g)) < k
    <2> HIDE DEF Above
    <2> QED
      BY <1>2, <1>3, <1>4
  <1> QED
    BY <1>5 DEF First

(* A result that is shorter than its limit is the whole one. *)
LEMMA ShortIsAll ==
    ASSUME NEW S, Rows(S), NEW k \in Nat, Cardinality(First(S, k)) < k
    PROVE  First(S, k) = S
  <1> SUFFICES ASSUME S \ First(S, k) # {} PROVE FALSE
    BY DEF First
  <1>1. Rows(S \ First(S, k))
    BY SubsetRows
  <1>2. PICK g \in S \ First(S, k) : \A f \in S \ First(S, k) : ~Newer(f, g)
    BY <1>1, NewestExists
  <1> DEFINE above == {f \in S : Newer(f, g)}
  <1>3. above \subseteq First(S, k) /\ First(S, k) \subseteq S
    BY <1>2 DEF First
  <1>4. IsFiniteSet(First(S, k)) /\ IsFiniteSet(above) /\ Cardinality(above) <= Cardinality(First(S, k))
    BY <1>3, FS_Subset DEF Rows
  <1>5. Cardinality(above) \in Nat /\ Cardinality(First(S, k)) \in Nat
    BY <1>4, FS_CardinalityType
  <1>6. Cardinality(above) < k
    <2> HIDE DEF above
    <2> QED
      BY <1>4, <1>5
  <1> QED
    BY <1>2, <1>6 DEF First

(* Nothing is cut off from rows that are no more than the limit. *)
LEMMA FewAreAll ==
    ASSUME NEW S, Rows(S), NEW k \in Nat, Cardinality(S) <= k
    PROVE  First(S, k) = S
  <1> SUFFICES ASSUME NEW e \in S PROVE Cardinality({f \in S : Newer(f, e)}) < k
    BY DEF First
  <1> DEFINE above == {f \in S : Newer(f, e)}
  <1>1. above \subseteq S /\ e \notin above
    BY NewerOrder DEF Rows
  <1>2. Cardinality(above) \in Nat /\ Cardinality(S) \in Nat /\ Cardinality(above) < Cardinality(S)
    BY <1>1, FewerThan DEF Rows
  <1> HIDE DEF above
  <1>3. Cardinality(above) < k
    BY <1>2
  <1> QED
    BY <1>3 DEF above

(* A page shows something if there is something. *)
LEMMA FirstNotEmpty ==
    ASSUME NEW S, Rows(S), S # {}, NEW k \in Nat, 1 <= k
    PROVE  First(S, k) # {}
  <1>1. PICK e \in S : \A f \in S : ~Newer(f, e)
    BY NewestExists
  <1>2. {f \in S : Newer(f, e)} = {}
    BY <1>1
  <1>3. Cardinality({f \in S : Newer(f, e)}) < k
    BY <1>2, FS_EmptySet
  <1> QED
    BY <1>3 DEF First

(* A page: all there is past the cursor, or what is newest of it, down to the
   entry that becomes the next cursor.                                     *)
LEMMA PageFacts ==
    ASSUME NEW B, Rows(B), NEW limit \in Nat, 1 <= limit
    PROVE  LET fetched == First(B, limit + 1)
               shown == First(fetched, limit)
           IN  /\ shown \subseteq B
               /\ ~(Cardinality(fetched) > limit) => shown = B
               /\ Cardinality(fetched) > limit =>
                    /\ Last(shown) \in shown
                    /\ \A f \in shown : ~Newer(Last(shown), f)
                    /\ \A g \in B \ shown : Newer(Last(shown), g)
  <1> DEFINE fetched == First(B, limit + 1)
  <1> DEFINE shown == First(fetched, limit)
  <1>1. shown \subseteq fetched /\ fetched \subseteq B
    BY DEF First
  <1>2. Rows(fetched) /\ Rows(shown)
    BY <1>1, SubsetRows
  <1>3. Cardinality(fetched) \in Nat
    BY <1>2, FS_CardinalityType DEF Rows
  <1>4. ASSUME ~(Cardinality(fetched) > limit) PROVE shown = B
    <2>1. Cardinality(fetched) <= limit /\ Cardinality(fetched) < limit + 1
      <3> HIDE DEF fetched
      <3> QED
        BY <1>3, <1>4
    <2>2. fetched = B
      BY <2>1, ShortIsAll
    <2>3. shown = fetched
      BY <1>2, <2>1, FewAreAll
    <2> QED
      BY <2>2, <2>3
  <1>5. ASSUME Cardinality(fetched) > limit
        PROVE  /\ Last(shown) \in shown
               /\ \A f \in shown : ~Newer(Last(shown), f)
               /\ \A g \in B \ shown : Newer(Last(shown), g)
    <2>1. fetched # {}
      BY <1>5, FS_EmptySet
    <2>2. shown # {}
      BY <1>2, <2>1, FirstNotEmpty
    <2>3. \E e \in shown : \A f \in shown : ~Newer(e, f)
      BY <1>2, <2>2, OldestExists
    <2>4. Last(shown) \in shown /\ \A f \in shown : ~Newer(Last(shown), f)
      <3> HIDE DEF shown
      <3> QED
        BY <2>3 DEF Last
    <2> PICK last : last = Last(shown)
      OBVIOUS
    <2>5. ASSUME NEW g \in B \ shown PROVE Newer(last, g)
      <3>1. last \in shown /\ last \in fetched /\ last \in B /\ g \in B /\ last # g
        BY <1>1, <2>4
      <3>2. ASSUME Newer(g, last) PROVE FALSE
        <4>1. g \in fetched
          BY <3>1, <3>2, FirstIsUpward
        <4>2. g \in shown
          BY <1>2, <3>1, <3>2, <4>1, FirstIsUpward
        <4> QED
          BY <4>2
      <3> QED
        BY <3>1, <3>2, NewerOrder DEF Rows
    <2> QED
      BY <2>4, <2>5
  <1> QED
    BY <1>1, <1>4, <1>5

-----------------------------------------------------------------------------
(***************************************************************************)
(* Walks.                                                                  *)
(***************************************************************************)

WalkState ==
    [pc : {"idle", "more", "done"}, start : SUBSET Entry, seen : SUBSET Entry, limit : Nat,
     cursor : Cursor \cup {None}, ordered : BOOLEAN]

PagesTypes ==
    /\ ledger \subseteq Entry /\ Rows(ledger) /\ balance \in Int
    /\ reader \in [Readers -> WalkState]

(* Between two pages the cursor divides what was shown from what is to come. *)
CursorDivides(walk) ==
    /\ walk.cursor \in Cursor /\ 1 <= walk.limit
    /\ \A e \in walk.start : e \in walk.seen \/ Past(e, walk.cursor)
    /\ \A f \in walk.seen : ~Past(f, walk.cursor)

OnCourse(walk) ==
    /\ walk.start \subseteq ledger /\ walk.seen \subseteq ledger /\ walk.ordered
    /\ walk.pc = "idle" => walk.seen = {}
    /\ walk.pc = "more" => CursorDivides(walk)
    /\ walk.pc = "done" => walk.start \subseteq walk.seen

(* The open movement starts from the committed balance, with an id of its own:
   nobody else commits while it holds the lock.                            *)
MovementFits ==
    /\ movement \in [pc : {"none", "locked", "stored", "inserted"}, entry : Entry \cup {None}]
    /\ movement.pc # "none" =>
          /\ movement.entry \in Entry
          /\ movement.entry.after = balance + movement.entry.change
          /\ \A e \in ledger : e.id # movement.entry.id

PagesInv == PagesTypes /\ MovementFits /\ \A c \in Readers : OnCourse(reader[c])

(* No ledger and no walks yet. *)
LEMMA PagesInit == Init => PagesInv
  <1> SUFFICES ASSUME Init PROVE PagesInv
    OBVIOUS
  <1>1. Rows({})
    BY FS_EmptySet DEF Rows
  <1>2. NoWalk \in WalkState
    BY DEF NoWalk, WalkState
  <1>3. PagesTypes
    BY <1>1, <1>2 DEF Init, PagesTypes
  <1>4. \A c \in Readers : OnCourse(reader[c])
    BY DEF Init, OnCourse, NoWalk
  <1>5. MovementFits
    BY DEF Init, NoMovement, MovementFits
  <1> QED
    BY <1>3, <1>4, <1>5 DEF PagesInv

(* The fields of a walk after a page. *)
LEMMA PageFields ==
    ASSUME PagesTypes, NEW c \in Readers, NEW cursor, NEW limit, Page(c, cursor, limit),
           NEW fetched, fetched = ListByWallet(cursor, limit + 1),
           NEW shown, shown = First(fetched, limit)
    PROVE  /\ reader' = [d \in Readers |-> reader'[d]]
           /\ \A d \in Readers \ {c} : reader'[d] = reader[d]
           /\ reader'[c] =
                [pc |-> IF Cardinality(fetched) > limit THEN "more" ELSE "done",
                 start |-> IF cursor = None THEN ledger ELSE reader[c].start,
                 seen |-> reader[c].seen \cup shown,
                 limit |-> limit,
                 cursor |-> IF Cardinality(fetched) > limit THEN CursorOf(Last(shown)) ELSE None,
                 ordered |-> reader[c].ordered /\ \A e \in shown, f \in reader[c].seen : Newer(f, e)]
  <1>1. reader = [d \in Readers |-> reader[d]] /\ reader[c] \in WalkState
    BY DEF PagesTypes
  <1>2. reader' = [reader EXCEPT
          ![c].pc = IF Cardinality(fetched) > limit THEN "more" ELSE "done",
          ![c].start = IF cursor = None THEN ledger ELSE @,
          ![c].limit = limit,
          ![c].cursor = IF Cardinality(fetched) > limit THEN CursorOf(Last(shown)) ELSE None,
          ![c].seen = @ \cup shown,
          ![c].ordered = @ /\ \A e \in shown, f \in reader[c].seen : Newer(f, e)]
    BY DEF Page
  <1> QED
    BY <1>1, <1>2, ZenonT(40) DEF WalkState

(* What is past a cursor are rows of the ledger. *)
LEMMA BelowFacts ==
    ASSUME PagesTypes, NEW cursor
    PROVE  Below(cursor) \subseteq ledger /\ Rows(Below(cursor))
  BY SubsetRows DEF Below, PagesTypes

(* A page, asked for from the start or from where the last one ended, keeps a
   walk on course.                                                         *)
LEMMA PageStep ==
    ASSUME PagesTypes, NEW c \in Readers, OnCourse(reader[c]), NEW cursor, NEW limit \in Nat,
           1 <= limit, Page(c, cursor, limit), ledger' = ledger,
           \/ reader[c].pc = "idle" /\ cursor = None
           \/ reader[c].pc = "more" /\ cursor = reader[c].cursor
    PROVE  /\ reader' \in [Readers -> WalkState] /\ \A d \in Readers \ {c} : reader'[d] = reader[d]
           /\ OnCourse(reader[c])'
  <1> PICK fetched : fetched = ListByWallet(cursor, limit + 1)
    OBVIOUS
  <1> PICK shown : shown = First(fetched, limit)
    OBVIOUS
  <1> PICK old : old = reader[c]
    OBVIOUS
  <1> PICK new : new = reader'[c]
    OBVIOUS
  <1> PICK B : B = Below(cursor)
    OBVIOUS
  <1> DEFINE hasMore == Cardinality(fetched) > limit
  <1>0. /\ old \in WalkState /\ ledger \subseteq Entry
        /\ \A e \in ledger : Key(e) /\ \A f \in ledger : e.id = f.id => e = f
    BY DEF PagesTypes, Rows
  <1>1. /\ reader' = [d \in Readers |-> reader'[d]]
        /\ \A d \in Readers \ {c} : reader'[d] = reader[d]
        /\ new = [pc |-> IF hasMore THEN "more" ELSE "done",
                  start |-> IF cursor = None THEN ledger ELSE old.start,
                  seen |-> old.seen \cup shown,
                  limit |-> limit,
                  cursor |-> IF hasMore THEN CursorOf(Last(shown)) ELSE None,
                  ordered |-> old.ordered /\ \A e \in shown, f \in old.seen : Newer(f, e)]
    BY PageFields
  <1>2. B \subseteq ledger /\ Rows(B)
    BY BelowFacts
  <1>3. /\ shown \subseteq B
        /\ ~hasMore => shown = B
        /\ hasMore => /\ Last(shown) \in shown
                      /\ \A f \in shown : ~Newer(Last(shown), f)
                      /\ \A g \in B \ shown : Newer(Last(shown), g)
    BY <1>2, PageFacts DEF ListByWallet
  <1>4. \A e \in new.start : e \in new.seen \/ e \in B
    <2>1. CASE cursor = None
      BY <1>1, <2>1 DEF Below
    <2>2. CASE cursor # None
      <3>1. old.pc = "more" /\ cursor = old.cursor /\ new.start = old.start /\ old.seen \subseteq new.seen
        BY <1>1, <2>2
      <3>2. old.start \subseteq ledger /\ \A e \in old.start : e \in old.seen \/ Past(e, cursor)
        BY <3>1 DEF OnCourse, CursorDivides
      <3> QED
        BY <3>1, <3>2 DEF Below
    <2> QED
      BY <2>1, <2>2
  <1>5. \A e \in shown, f \in old.seen : Newer(f, e)
    <2> SUFFICES ASSUME NEW e \in shown, NEW f \in old.seen PROVE Newer(f, e)
      OBVIOUS
    <2>1. old.pc = "more" /\ cursor = old.cursor
      BY DEF OnCourse
    <2>2. cursor \in Cursor /\ ~Newer(cursor, f) /\ f \in ledger
      BY <2>1 DEF OnCourse, CursorDivides, Past
    <2>3. e \in ledger /\ Newer(cursor, e)
      BY <1>2, <1>3, <2>2, NoneAssumption DEF Below, Past
    <2>4. Key(e) /\ Key(f)
      BY <1>0, <2>2, <2>3
    <2>5. Key(cursor)
      <3>1. cursor.stamp \in 1 .. MaxStamp /\ cursor.id \in Ids
        BY <2>2 DEF Cursor, Stamps
      <3>2. cursor.stamp \in Nat
        BY <3>1, BoundAssumption
      <3> QED
        BY <3>1, <3>2, IdAssumption DEF Key
    <2> QED
      BY <2>2, <2>3, <2>4, <2>5, NewerOrder
  <1>6. old.ordered /\ old.start \subseteq ledger /\ old.seen \subseteq ledger
    BY DEF OnCourse
  <1>a. new.ordered
    <2>1. new.ordered = (old.ordered /\ \A e \in shown, f \in old.seen : Newer(f, e))
      BY <1>1
    <2> QED
      BY <1>5, <1>6, <2>1, Zenon
  <1>7. /\ new.start \subseteq ledger /\ new.seen \subseteq ledger /\ new.limit = limit
        /\ new.seen = old.seen \cup shown
        /\ new.pc = IF hasMore THEN "more" ELSE "done"
        /\ new.cursor = IF hasMore THEN CursorOf(Last(shown)) ELSE None
    BY <1>1, <1>2, <1>3, <1>5, <1>6
  <1>8. ASSUME hasMore PROVE CursorDivides(new)
    <2> PICK last : last = Last(shown)
      OBVIOUS
    <2>1. /\ last \in shown /\ last \in ledger /\ new.cursor = CursorOf(last)
          /\ \A f \in shown : ~Newer(last, f)
          /\ \A g \in B \ shown : Newer(last, g)
      BY <1>2, <1>3, <1>7, <1>8
    <2>2. new.cursor.stamp = last.stamp /\ new.cursor.id = last.id /\ new.cursor \in Cursor
      BY <1>0, <2>1 DEF CursorOf, Entry, Cursor
    <2>3. \A x : Past(x, new.cursor) <=> Newer(last, x)
      BY <2>2 DEF Past, Newer
    <2>4. \A f \in old.seen : ~Newer(last, f)
      <3>1. \A f \in old.seen : Newer(f, last) /\ Key(f) /\ Key(last)
        BY <1>0, <1>5, <1>6, <2>1
      <3> QED
        BY <3>1, NewerOrder
    <2> QED
      BY <1>4, <1>7, <2>1, <2>2, <2>3, <2>4 DEF CursorDivides
  <1>9. ~hasMore => new.start \subseteq new.seen
    BY <1>3, <1>4, <1>7
  <1>10. new \in WalkState
    <2>1. new.cursor \in Cursor \cup {None}
      BY <1>7, <1>8 DEF CursorDivides
    <2> QED
      BY <1>0, <1>1, <1>a, <1>7, <2>1 DEF WalkState
  <1>11. OnCourse(new)'
    BY <1>a, <1>7, <1>8, <1>9 DEF OnCourse, CursorDivides, Past, Newer
  <1>12. reader' \in [Readers -> WalkState]
    <2>1. \A d \in Readers : reader'[d] \in WalkState
      BY <1>1, <1>10 DEF PagesTypes
    <2> QED
      BY <1>1, <2>1
  <1>13. OnCourse(reader[c])'
    BY <1>11 DEF OnCourse
  <1> QED
    BY <1>1, <1>12, <1>13

(* Commits add an entry with an id of its own, which no walk looks at again. *)
LEMMA CommitStep ==
    ASSUME PagesInv, Commit
    PROVE  PagesInv'
  <1> PICK entry \in Entry : entry = movement.entry
    BY DEF PagesInv, MovementFits, Commit
  <1>1. ledger' = ledger \cup {entry} /\ reader' = reader /\ balance' \in Int
    BY DEF Commit, Entry
  <1>2. ledger \subseteq Entry /\ Rows(ledger) /\ reader \in [Readers -> WalkState]
    BY DEF PagesInv, PagesTypes
  <1>3. entry.stamp \in 1 .. MaxStamp /\ entry.id \in Ids
    BY DEF Entry, Stamps
  <1>4. Key(entry)
    <2>1. entry.stamp \in Nat
      BY <1>3, BoundAssumption
    <2> QED
      BY <1>3, <2>1, IdAssumption DEF Key
  <1>5. Rows(ledger \cup {entry})
    <2>1. IsFiniteSet(ledger \cup {entry})
      BY <1>2, FS_AddElement DEF Rows
    <2>2. \A e \in ledger : e.id # entry.id
      BY DEF Commit, PagesInv, MovementFits
    <2> QED
      BY <1>2, <1>4, <2>1, <2>2 DEF Rows
  <1>6. PagesTypes'
    BY <1>1, <1>2, <1>5 DEF PagesTypes, Rows, Key
  <1>7. ASSUME NEW c \in Readers PROVE OnCourse(reader[c])'
    <2>1. OnCourse(reader[c])
      BY <1>7 DEF PagesInv
    <2> QED
      BY <1>1, <2>1 DEF OnCourse, CursorDivides, Past, Newer
  <1>8. MovementFits'
    BY DEF Commit, NoMovement, MovementFits
  <1> QED
    BY <1>6, <1>7, <1>8 DEF PagesInv

(* What the open movement writes before its commit is nobody's business. *)
LEMMA MovementStep ==
    ASSUME PagesInv, Move
    PROVE  PagesInv'
  <1>0. PagesTypes /\ MovementFits
    BY DEF PagesInv
  <1>1. ASSUME NEW stamp \in Stamps, NEW id \in Ids, NEW after \in 0 .. MaxBalance,
               LockWallet([stamp |-> stamp, id |-> id, after |-> after, change |-> after - balance])
        PROVE  MovementFits' /\ UNCHANGED << ledger, balance, reader >>
    <2> PICK entry :
          entry = [stamp |-> stamp, id |-> id, after |-> after, change |-> after - balance]
      OBVIOUS
    <2>1. entry \in Entry
      BY <1>0 DEF PagesTypes, Entry
    <2>2. /\ movement' = [pc |-> "locked", entry |-> entry]
          /\ UNCHANGED << ledger, balance, reader >>
          /\ entry.after = balance + entry.change /\ \A e \in ledger : e.id # entry.id
      BY <1>1 DEF LockWallet
    <2> QED
      BY <2>1, <2>2 DEF MovementFits
  <1>2. ASSUME StoreBalance \/ InsertEntry \/ Rollback
        PROVE  MovementFits' /\ UNCHANGED << ledger, balance, reader >>
    BY <1>0, <1>2 DEF StoreBalance, InsertEntry, Rollback, MovementFits, NoMovement
  <1>3. ASSUME MovementFits', UNCHANGED << ledger, balance, reader >> PROVE PagesInv'
    BY <1>3 DEF PagesInv, PagesTypes, Rows, Key, OnCourse, CursorDivides, Past, Newer
  <1> QED
    BY <1>1, <1>2, <1>3, CommitStep DEF Move

(* The limit a client sends is checked, and stays with its walk. *)
LEMMA WalkStep ==
    ASSUME PagesInv, NEW c \in Readers, Walk(c)
    PROVE  PagesInv'
  <1>0. /\ PagesTypes /\ OnCourse(reader[c]) /\ reader[c] \in WalkState
    BY DEF PagesInv, PagesTypes
  <1> DEFINE After ==
        /\ reader' \in [Readers -> WalkState] /\ \A d \in Readers \ {c} : reader'[d] = reader[d]
        /\ OnCourse(reader[c])'
  <1>1. ledger' = ledger /\ balance' = balance /\ movement' = movement
    BY DEF Walk, NextPage, FirstPage
  <1>2. ASSUME NextPage(c) PROVE After
    <2>1. /\ reader[c].pc = "more" /\ Page(c, reader[c].cursor, reader[c].limit)
          /\ reader[c].limit \in Nat /\ 1 <= reader[c].limit
      BY <1>0, <1>2 DEF NextPage, WalkState, OnCourse, CursorDivides
    <2> QED
      BY <1>0, <1>1, <2>1, PageStep
  <1>3. ASSUME NEW limit \in Limits, FirstPage(c, limit) PROVE After
    <2>1. reader[c].pc = "idle" /\ Page(c, None, limit) /\ limit \in Nat /\ 1 <= limit
      BY <1>3, LimitAssumption DEF FirstPage, ValidLimit
    <2> QED
      BY <1>0, <1>1, <2>1, PageStep
  <1>4. After
    BY <1>2, <1>3 DEF Walk
  <1>5. PagesTypes'
    BY <1>0, <1>1, <1>4 DEF PagesTypes, Rows, Key
  <1>6. ASSUME NEW d \in Readers PROVE OnCourse(reader[d])'
    <2>1. CASE d = c
      BY <1>4, <2>1
    <2>2. CASE d # c
      <3>1. OnCourse(reader[d]) /\ reader'[d] = reader[d]
        BY <1>4, <2>2 DEF PagesInv
      <3> QED
        BY <1>1, <3>1 DEF OnCourse, CursorDivides, Past, Newer
    <2> QED
      BY <2>1, <2>2
  <1>7. MovementFits'
    BY <1>1 DEF PagesInv, MovementFits
  <1> QED
    BY <1>5, <1>6, <1>7 DEF PagesInv

(* Every walk stays on course. *)
LEMMA PagesInvariant == Spec => []PagesInv
  <1>1. PagesInv /\ [Next]_vars => PagesInv'
    <2> SUFFICES ASSUME PagesInv, [Next]_vars PROVE PagesInv'
      OBVIOUS
    <2>1. ASSUME UNCHANGED << ledger, balance, movement, reader >> PROVE PagesInv'
      BY <2>1 DEF PagesInv, PagesTypes, MovementFits, Rows, Key, OnCourse, CursorDivides, Past, Newer
    <2> QED
      BY <2>1, MovementStep, WalkStep DEF Next, Reconcile, ReadBalance, ReadEntries, vars
  <1> QED
    BY <1>1, PagesInit, PTL DEF Spec

(* Whoever follows nextCursor to the last page has seen every entry that was
   committed when the first page was read, however many have the same time
   and whatever is committed meanwhile.                                    *)
THEOREM WalksAreComplete == Spec => []WalkComplete
  <1>1. PagesInv => WalkComplete
    BY DEF PagesInv, OnCourse, WalkComplete
  <1> QED
    BY <1>1, PagesInvariant, PTL

(* Every entry of a page is older than all that was shown before: none is shown
   twice.                                                                  *)
THEOREM WalksDescend == Spec => []WalkDescends
  <1>1. PagesInv => WalkDescends
    BY DEF PagesInv, OnCourse, WalkDescends
  <1> QED
    BY <1>1, PagesInvariant, PTL

-----------------------------------------------------------------------------
(***************************************************************************)
(* Reconciliation.  Total adds up entries in an order of its own choice:   *)
(* that it exists, and that the order does not matter, is shown for finite *)
(* sets by the smallest subset for which it would not hold.                *)
(***************************************************************************)

Pick(T) == CHOOSE e \in T : TRUE
Summed(f, T) == IF T = {} THEN 0 ELSE Pick(T).change + f[T \ {Pick(T)}]

(* f is the recursive function of Total. *)
Sums(f, S) == f = [T \in SUBSET S |-> Summed(f, T)]

(* Changes are integers. *)
Movements(S) == IsFiniteSet(S) /\ \A e \in S : e.change \in Int

(* Total, by the function it recurs on. *)
LEMMA TotalIsSum ==
    ASSUME NEW S
    PROVE  Total(S) = (CHOOSE f : Sums(f, S))[S]
  BY DEF Total, Sums, Summed, Pick

(* Every family of subsets of a finite set has one that includes no other. *)
LEMMA SmallestSubset ==
    ASSUME NEW S, IsFiniteSet(S), NEW Bad \in SUBSET (SUBSET S), Bad # {}
    PROVE  \E T \in Bad : \A U \in Bad : U \subseteq T => U = T
  <1> DEFINE Counts == {Cardinality(T) : T \in Bad}
  <1>1. \A T \in Bad : IsFiniteSet(T) /\ Cardinality(T) \in Nat
    BY FS_Subset, FS_CardinalityType
  <1>2. PICK m \in Counts : \A n \in Counts : m <= n
    <2>1. Counts \in SUBSET Nat /\ Counts # {}
      BY <1>1
    <2> HIDE DEF Counts
    <2> QED
      BY <2>1, SmallestExists
  <1>3. PICK T \in Bad : m = Cardinality(T)
    BY <1>2
  <1>4. ASSUME NEW U \in Bad, U \subseteq T PROVE U = T
    <2>1. Cardinality(U) <= Cardinality(T) /\ (Cardinality(T) = Cardinality(U) => T = U)
      BY <1>1, <1>4, FS_Subset
    <2>2. Cardinality(T) <= Cardinality(U)
      BY <1>2, <1>3
    <2> QED
      BY <1>1, <2>1, <2>2
  <1> QED
    BY <1>4

(* The recursion defines a function. *)
LEMMA SumExists ==
    ASSUME NEW S, IsFiniteSet(S)
    PROVE  \E f : Sums(f, S)
  <1> DEFINE Part(n) == {T \in SUBSET S : Cardinality(T) <= n}
  <1> DEFINE Partial(f, n) == f = [T \in Part(n) |-> Summed(f, T)]
  <1> DEFINE Bad == {n \in Nat : ~\E f : Partial(f, n)}
  <1>1. \A T \in SUBSET S : IsFiniteSet(T) /\ Cardinality(T) \in Nat
    BY FS_Subset, FS_CardinalityType
  <1>2. \A T \in SUBSET S : T # {} =>
          /\ Pick(T) \in T /\ T \ {Pick(T)} \in SUBSET S
          /\ Cardinality(T \ {Pick(T)}) = Cardinality(T) - 1
    <2> SUFFICES ASSUME NEW T \in SUBSET S, T # {}
                 PROVE  /\ Pick(T) \in T /\ T \ {Pick(T)} \in SUBSET S
                        /\ Cardinality(T \ {Pick(T)}) = Cardinality(T) - 1
      OBVIOUS
    <2>1. Pick(T) \in T
      BY DEF Pick
    <2> QED
      BY <1>1, <2>1, FS_RemoveElement
  <1>3. ASSUME Bad # {} PROVE FALSE
    <2>1. PICK m \in Bad : \A n \in Bad : m <= n
      <3>1. Bad \in SUBSET Nat
        OBVIOUS
      <3> HIDE DEF Bad
      <3> QED
        BY <1>3, <3>1, SmallestExists
    <2>2. CASE m = 0
      <3> DEFINE f == [T \in Part(0) |-> 0]
      <3>1. \A T \in Part(0) : T = {}
        BY <1>1, FS_EmptySet
      <3>2. \A T \in Part(0) : Summed(f, T) = 0
        BY <3>1 DEF Summed
      <3>3. Partial(f, 0)
        BY <3>2
      <3> QED
        BY <2>1, <2>2, <3>3
    <2>3. CASE m # 0
      <3>1. m - 1 \in Nat /\ m - 1 \notin Bad
        <4>1. m \in Nat
          BY <2>1
        <4> HIDE DEF Bad
        <4> QED
          BY <2>1, <2>3, <4>1
      <3>2. PICK f : Partial(f, m - 1)
        BY <3>1
      <3> DEFINE g == [T \in Part(m) |-> Summed(f, T)]
      <3>3. \A T \in Part(m - 1) : T \in Part(m) /\ g[T] = f[T]
        <4>1. \A T \in Part(m - 1) : T \in Part(m)
          BY <1>1, <2>1, <3>1
        <4>2. \A T \in Part(m - 1) : f[T] = Summed(f, T)
          BY <3>2
        <4> QED
          BY <4>1, <4>2
      <3>4. ASSUME NEW T \in Part(m) PROVE Summed(f, T) = Summed(g, T)
        <4>1. CASE T = {}
          BY <4>1 DEF Summed
        <4>2. CASE T # {}
          <5>1. T \ {Pick(T)} \in Part(m - 1)
            <6>1. Cardinality(T) - 1 <= m - 1
              BY <1>1, <2>1
            <6> QED
              BY <1>2, <4>2, <6>1
          <5> QED
            BY <3>3, <5>1 DEF Summed
        <4> QED
          BY <4>1, <4>2
      <3>5. Partial(g, m)
        BY <3>4
      <3> QED
        BY <2>1, <3>5
    <2> QED
      BY <2>2, <2>3
  <1>4. Cardinality(S) \in Nat /\ Part(Cardinality(S)) = SUBSET S
    <2>1. \A T \in SUBSET S : Cardinality(T) <= Cardinality(S)
      BY FS_Subset
    <2> QED
      BY <2>1, FS_CardinalityType
  <1>5. PICK f : Partial(f, Cardinality(S))
    BY <1>3, <1>4
  <1>6. Sums(f, S)
    BY <1>4, <1>5 DEF Sums
  <1> QED
    BY <1>6

(* One step of the recursion. *)
LEMMA SumUnfolds ==
    ASSUME NEW S, NEW f, Sums(f, S), NEW T \in SUBSET S
    PROVE  /\ T = {} => f[T] = 0
           /\ T # {} => /\ Pick(T) \in T /\ T \ {Pick(T)} \in SUBSET S
                        /\ f[T] = Pick(T).change + f[T \ {Pick(T)}]
  <1>1. f[T] = Summed(f, T)
    BY DEF Sums
  <1>2. T # {} => Pick(T) \in T
    BY DEF Pick
  <1> QED
    BY <1>1, <1>2 DEF Summed

(* Sums of integers are integers. *)
LEMMA SumIsInt ==
    ASSUME NEW S, Movements(S), NEW f, Sums(f, S)
    PROVE  \A T \in SUBSET S : f[T] \in Int
  <1> DEFINE Bad == {T \in SUBSET S : f[T] \notin Int}
  <1> SUFFICES ASSUME Bad # {} PROVE FALSE
    OBVIOUS
  <1>1. PICK T \in Bad : \A U \in Bad : U \subseteq T => U = T
    <2>1. Bad \in SUBSET (SUBSET S)
      OBVIOUS
    <2> HIDE DEF Bad
    <2> QED
      BY <2>1, SmallestSubset DEF Movements
  <1>a. T \in SUBSET S /\ f[T] \notin Int
    BY <1>1
  <1> HIDE DEF Bad
  <1>2. T # {}
    <2>1. T = {} => f[T] = 0
      BY <1>a, SumUnfolds
    <2> QED
      BY <1>a, <2>1
  <1>3. /\ Pick(T) \in T /\ T \ {Pick(T)} \in SUBSET S
        /\ f[T] = Pick(T).change + f[T \ {Pick(T)}]
    BY <1>a, <1>2, SumUnfolds
  <1>4. f[T \ {Pick(T)}] \in Int
    BY <1>1, <1>3 DEF Bad
  <1>5. Pick(T).change \in Int
    BY <1>a, <1>3 DEF Movements
  <1> QED
    BY <1>a, <1>3, <1>4, <1>5

(* Entries can be taken out in any order. *)
LEMMA SumAnyOrder ==
    ASSUME NEW S, Movements(S), NEW f, Sums(f, S)
    PROVE  \A T \in SUBSET S : \A e \in T : f[T] = e.change + f[T \ {e}]
  <1> DEFINE Bad == {T \in SUBSET S : ~\A e \in T : f[T] = e.change + f[T \ {e}]}
  <1> SUFFICES ASSUME Bad # {} PROVE FALSE
    OBVIOUS
  <1>1. PICK T \in Bad : \A U \in Bad : U \subseteq T => U = T
    <2>1. Bad \in SUBSET (SUBSET S)
      OBVIOUS
    <2> HIDE DEF Bad
    <2> QED
      BY <2>1, SmallestSubset DEF Movements
  <1>2. PICK e \in T : f[T] # e.change + f[T \ {e}]
    BY <1>1
  <1> PICK d : d = Pick(T)
    OBVIOUS
  <1>3. T \in SUBSET S /\ d \in T /\ f[T] = d.change + f[T \ {d}]
    <2>1. T \in SUBSET S
      BY <1>1
    <2> HIDE DEF Bad
    <2> QED
      BY <1>2, <2>1, SumUnfolds
  <1>4. d # e
    BY <1>2, <1>3
  <1>5. f[T \ {d}] = e.change + f[(T \ {d}) \ {e}]
    <2>1. T \ {d} \in SUBSET S /\ T \ {d} # T /\ T \ {d} \subseteq T /\ e \in T \ {d}
      BY <1>3, <1>4
    <2> QED
      BY <1>1, <2>1
  <1>6. f[T \ {e}] = d.change + f[(T \ {e}) \ {d}]
    <2>1. T \ {e} \in SUBSET S /\ T \ {e} # T /\ T \ {e} \subseteq T /\ d \in T \ {e}
      BY <1>3, <1>4
    <2> QED
      BY <1>1, <2>1
  <1>7. (T \ {d}) \ {e} = (T \ {e}) \ {d} /\ (T \ {d}) \ {e} \in SUBSET S
    BY <1>3
  <1>8. d.change \in Int /\ e.change \in Int /\ f[(T \ {d}) \ {e}] \in Int
    BY <1>3, <1>7, SumIsInt DEF Movements
  <1>9. f[T] = e.change + f[T \ {e}]
    <2> PICK rest : rest = f[(T \ {d}) \ {e}]
      OBVIOUS
    <2>1. f[T] = d.change + (e.change + rest) /\ f[T \ {e}] = d.change + rest
      BY <1>3, <1>5, <1>6, <1>7, Zenon
    <2>2. d.change + (e.change + rest) = e.change + (d.change + rest)
      BY <1>8
    <2> QED
      BY <2>1, <2>2, Zenon
  <1> QED
    BY <1>2, <1>9

(* What a set adds up to does not depend on the ledger it is part of. *)
LEMMA SumsAgree ==
    ASSUME NEW S, NEW R, IsFiniteSet(S), S \subseteq R, NEW f, Sums(f, S), NEW g, Sums(g, R)
    PROVE  \A T \in SUBSET S : f[T] = g[T]
  <1> DEFINE Bad == {T \in SUBSET S : f[T] # g[T]}
  <1> SUFFICES ASSUME Bad # {} PROVE FALSE
    OBVIOUS
  <1>1. PICK T \in Bad : \A U \in Bad : U \subseteq T => U = T
    <2>1. Bad \in SUBSET (SUBSET S)
      OBVIOUS
    <2> HIDE DEF Bad
    <2> QED
      BY <2>1, SmallestSubset
  <1>2. T \in SUBSET S /\ T \in SUBSET R
    BY <1>1
  <1>3. T # {}
    BY <1>1, <1>2, SumUnfolds
  <1>4. /\ Pick(T) \in T /\ T \ {Pick(T)} \in SUBSET S
        /\ f[T] = Pick(T).change + f[T \ {Pick(T)}]
        /\ g[T] = Pick(T).change + g[T \ {Pick(T)}]
    BY <1>2, <1>3, SumUnfolds
  <1>5. f[T \ {Pick(T)}] = g[T \ {Pick(T)}]
    BY <1>1, <1>4
  <1> QED
    BY <1>1, <1>4, <1>5

(* A movement adds its change to the total, and to nothing else. *)
LEMMA TotalAdds ==
    ASSUME NEW S, Movements(S), NEW e, e \notin S, e.change \in Int
    PROVE  Total(S \cup {e}) = Total(S) + e.change
  <1> PICK R : R = S \cup {e}
    OBVIOUS
  <1>1. Movements(R) /\ S \subseteq R /\ R \ {e} = S /\ IsFiniteSet(S)
    BY FS_AddElement DEF Movements
  <1> PICK f : f = CHOOSE h : Sums(h, S)
    OBVIOUS
  <1> PICK g : g = CHOOSE h : Sums(h, R)
    OBVIOUS
  <1>2. Sums(f, S) /\ Sums(g, R)
    BY <1>1, SumExists DEF Movements
  <1>3. Total(S) = f[S] /\ Total(R) = g[R]
    BY TotalIsSum
  <1>4. g[R] = e.change + g[S]
    BY <1>1, <1>2, SumAnyOrder
  <1>5. f[S] = g[S]
    <2>1. \A T \in SUBSET S : f[T] = g[T]
      BY <1>1, <1>2, SumsAgree
    <2>2. S \in SUBSET S
      OBVIOUS
    <2> QED
      BY <2>1, <2>2
  <1>6. f[S] \in Int
    BY <1>2, SumIsInt
  <1> QED
    BY <1>3, <1>4, <1>5, <1>6

(* An empty ledger adds up to nothing. *)
LEMMA TotalOfNone == Total({}) = 0
  <1> PICK f : f = CHOOSE h : Sums(h, {})
    OBVIOUS
  <1>1. Sums(f, {})
    BY SumExists, FS_EmptySet
  <1>2. Total({}) = f[{}]
    BY TotalIsSum
  <1>3. {} \in SUBSET {}
    OBVIOUS
  <1>4. f[{}] = 0
    BY <1>1, <1>3, SumUnfolds
  <1> QED
    BY <1>2, <1>4

(* The committed entries of the transactions in a snapshot. *)
RowsOf(snapshot, rows) == {e \in rows : e.id \in snapshot}

(* The balance that was read is explained by the entries of its snapshot, and
   these are committed already.                                            *)
CheckFits ==
    check.pc = "entries" =>
        /\ check.stored \in Int /\ check.stored = Total(RowsOf(check.snapshot, ledger))
        /\ \A i \in check.snapshot : \E e \in ledger : e.id = i

(* The balance is committed with the entry that explains it. *)
BalanceExplained == balance = Total(ledger) /\ CheckFits /\ verdict.consistent

(* A movement that commits while a reconciliation reads is not in its snapshot. *)
LEMMA CommitUnseen ==
    ASSUME PagesInv, BalanceExplained, Commit
    PROVE  BalanceExplained'
  <1> PICK entry \in Entry : entry = movement.entry
    BY DEF PagesInv, MovementFits, Commit
  <1>1. /\ entry.change \in Int /\ entry.after = balance + entry.change
        /\ ledger' = ledger \cup {entry} /\ balance' = entry.after
        /\ verdict' = verdict /\ check' = check
        /\ \A e \in ledger : e.id # entry.id
    BY DEF Commit, PagesInv, MovementFits, Entry
  <1>2. Movements(ledger) /\ entry \notin ledger
    BY <1>1 DEF PagesInv, PagesTypes, Rows, Movements, Entry
  <1>3. Total(ledger \cup {entry}) = balance + entry.change
    BY <1>1, <1>2, TotalAdds DEF BalanceExplained
  <1>4. ASSUME check.pc = "entries"
        PROVE  RowsOf(check.snapshot, ledger \cup {entry}) = RowsOf(check.snapshot, ledger)
    <2>1. entry.id \notin check.snapshot
      BY <1>1, <1>4 DEF BalanceExplained, CheckFits
    <2> QED
      BY <2>1 DEF RowsOf
  <1>5. CheckFits'
    <2> SUFFICES ASSUME check.pc = "entries"
                 PROVE  /\ check.stored \in Int
                        /\ check.stored = Total(RowsOf(check.snapshot, ledger'))
                        /\ \A i \in check.snapshot : \E e \in ledger' : e.id = i
      BY <1>1 DEF CheckFits
    <2> QED
      BY <1>1, <1>4 DEF BalanceExplained, CheckFits
  <1> QED
    BY <1>1, <1>3, <1>5 DEF BalanceExplained

(* The statement adds up the rows of its snapshot, not what is there by then. *)
LEMMA ReadCorrect ==
    ASSUME PagesInv, BalanceExplained, ReadEntries
    PROVE  verdict'.consistent
  <1>1. /\ check.stored \in Int /\ check.stored = Total(RowsOf(check.snapshot, ledger))
        /\ \A i \in check.snapshot : \E e \in ledger : e.id = i
    BY DEF ReadEntries, BalanceExplained, CheckFits
  <1>2. movement.pc = "inserted" => movement.entry.id \notin check.snapshot
    BY <1>1 DEF PagesInv, MovementFits
  <1>3. Joined = RowsOf(check.snapshot, ledger)
    BY <1>2 DEF Joined, Entries, RowsOf
  <1>4. check.stored - Total(Joined) = 0
    BY <1>1, <1>3
  <1> QED
    BY <1>4 DEF ReadEntries

(* A reconciliation that reads the balance and the entries in steps, while a
   movement writes and others commit, never reports a movement by half: its
   one statement keeps one snapshot, and a movement is in it whole or not. *)
THEOREM ReconciliationCorrect == Spec => []NoFalseAlarm
  <1>1. Init => BalanceExplained
    BY TotalOfNone DEF Init, NoCheck, CheckFits, BalanceExplained
  <1>2. PagesInv /\ BalanceExplained /\ [Next]_vars => BalanceExplained'
    <2> SUFFICES ASSUME PagesInv, BalanceExplained, [Next]_vars PROVE BalanceExplained'
      OBVIOUS
    <2>1. ASSUME UNCHANGED << ledger, balance, check, verdict >> PROVE BalanceExplained'
      BY <2>1 DEF BalanceExplained, CheckFits, RowsOf
    <2>2. ASSUME Move PROVE BalanceExplained'
      BY <2>1, <2>2, CommitUnseen DEF Move, LockWallet, StoreBalance, InsertEntry, Rollback
    <2>3. ASSUME NEW c \in Readers, Walk(c) PROVE BalanceExplained'
      BY <2>1, <2>3 DEF Walk, NextPage, FirstPage
    <2>4. ASSUME ReadBalance PROVE BalanceExplained'
      <3> PICK snapshot : snapshot = {e.id : e \in ledger}
        OBVIOUS
      <3>1. /\ check'.snapshot = snapshot /\ check'.stored = balance
            /\ UNCHANGED << ledger, balance, verdict >>
        BY <2>4 DEF ReadBalance
      <3>2. RowsOf(snapshot, ledger) = ledger
        BY DEF RowsOf
      <3>3. \A i \in snapshot : \E e \in ledger : e.id = i
        OBVIOUS
      <3>4. balance \in Int /\ balance = Total(RowsOf(snapshot, ledger))
        BY <3>2 DEF PagesInv, PagesTypes, BalanceExplained
      <3>5. CheckFits'
        BY <3>1, <3>3, <3>4 DEF CheckFits, RowsOf
      <3> QED
        BY <3>1, <3>5 DEF BalanceExplained
    <2>5. ASSUME ReadEntries PROVE BalanceExplained'
      <3>1. UNCHANGED << ledger, balance >> /\ check'.pc # "entries"
        BY <2>5 DEF ReadEntries, NoCheck
      <3>2. CheckFits'
        BY <3>1 DEF CheckFits
      <3> QED
        BY <2>5, <3>1, <3>2, ReadCorrect DEF BalanceExplained
    <2>6. ASSUME UNCHANGED vars PROVE BalanceExplained'
      BY <2>1, <2>6 DEF vars
    <2> QED
      BY <2>2, <2>3, <2>4, <2>5, <2>6 DEF Next, Reconcile
  <1>3. BalanceExplained => NoFalseAlarm
    BY DEF BalanceExplained, NoFalseAlarm
  <1> QED
    BY <1>1, <1>2, <1>3, PagesInvariant, PTL DEF Spec
=============================================================================

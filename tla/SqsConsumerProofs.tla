------------------------- MODULE SqsConsumerProofs -------------------------
(***************************************************************************)
(* SqsConsumer for every number of messages, groups, consumers, receives   *)
(* and failures.                                                           *)
(***************************************************************************)
EXTENDS SqsConsumer, WellFoundedInduction, TLAPS

(* The order of sending, as a relation. *)
Earlier == {s \in Nat \X Nat : s[1] < s[2]}

(* No message has infinitely many before it. *)
LEMMA EarlierWellFounded == IsWellFoundedOn(Earlier, Nat)
  BY NatLessThanWellFounded, Zenon DEF OpToRel, Earlier

(* Every set of messages that is not empty has a first one. *)
LEMMA FirstExists ==
    ASSUME NEW S \in SUBSET Messages, S # {}
    PROVE  \E m \in S : \A n \in S : m <= n
<1>1. S \subseteq Nat
  BY NAssumption DEF Messages
<1>2. \E m \in S : \A n \in S : ~(<< n, m >> \in Earlier)
  BY <1>1, EarlierWellFounded, WFMin
<1>3. PICK m \in S : \A n \in S : ~(<< n, m >> \in Earlier)
  BY <1>2
<1>4. ASSUME NEW n \in S PROVE m <= n
  <2>1. ~(n < m)
    BY <1>1, <1>3, <1>4 DEF Earlier
  <2> QED BY <1>1, <1>4, <2>1
<1> QED BY <1>3, <1>4

(* A consumer at work is where its transaction, the inbox and the dead letter
   queue say, and in its batch nothing has been skipped: what was sent before
   a message to the same group is still in the batch, or settled.          *)
OwnsInsert(c) ==
    pc[c] \in {"process", "commit"} =>
        inserting[Id[Message(c)]] = c /\ inbox[Id[Message(c)]] = None
EarnsDelete(c) ==
    /\ pc[c] = "delete" => inbox[Id[Message(c)]] = Body[Message(c)]
    /\ pc[c] = "drop" => Message(c) \in dlq
NothingSkipped(c) ==
    \A n \in Batch(c), m \in Messages :
        m < n /\ Group[m] = Group[n] => m \in Batch(c) \/ Settled(m)

InPlace(c) ==
    /\ pc[c] # "poll" => Batch(c) # {}
    /\ OwnsInsert(c) /\ EarnsDelete(c) /\ NothingSkipped(c)

(* The inbox has a row for exactly the ids that were handled. *)
InboxCounts == \A i \in Ids : handled[i] = IF inbox[i] = None THEN 0 ELSE 1

Inv ==
    /\ TypeOK /\ InboxCounts /\ NothingLost /\ GroupOrder
    /\ \A c \in Consumers : InPlace(c)

(* Completed inbox rows and dead letters stay. *)
Keeps ==
    /\ \A i \in Ids : inbox[i] # None => inbox'[i] = inbox[i]
    /\ dlq \subseteq dlq'

-----------------------------------------------------------------------------
(* The message a consumer works on is the first of what is left of its batch. *)
LEMMA MessageIs ==
    ASSUME NEW c \in Consumers, Batch(c) # {}
    PROVE  /\ Message(c) \in Batch(c) /\ Message(c) \in Messages
           /\ Message(c) \in Nat /\ Id[Message(c)] \in Ids
           /\ Body[Message(c)] \in Bodies /\ Body[Message(c)] # None
           /\ \A n \in Batch(c) : Message(c) <= n
<1>1. Batch(c) \in SUBSET Messages
  BY DEF Batch
<1>2. \E m \in Batch(c) : \A n \in Batch(c) : m <= n
  BY <1>1, FirstExists
<1>3. Message(c) \in Batch(c) /\ \A n \in Batch(c) : Message(c) <= n
  BY <1>2 DEF Message
<1> QED BY <1>1, <1>3, NAssumption, NoneAssumption DEF Messages, Ids, Bodies

(* It stays the same while the consumer's receipts do. *)
LEMMA MessageStays ==
    ASSUME NEW c \in Consumers, receipt'[c] = receipt[c]
    PROVE  Batch(c)' = Batch(c) /\ Message(c)' = Message(c)
<1>1. Batch(c)' = Batch(c)
  BY DEF Batch
<1> QED BY <1>1, Zenon DEF Message

(* What is settled stays settled. *)
LEMMA SettledStays ==
    ASSUME Keeps, NEW m \in Messages, Settled(m)
    PROVE  Settled(m)'
  BY NoneAssumption DEF Keeps, Settled, Ids, Bodies

(* A consumer that does nothing is not disturbed by one that rolls back or
   completes inbox rows of its own.                                        *)
LEMMA OthersInPlace ==
    ASSUME NEW d \in Consumers, InPlace(d), Keeps,
           pc'[d] = pc[d], receipt'[d] = receipt[d],
           \A i \in Ids : inserting[i] = d => inserting'[i] = d /\ inbox'[i] = inbox[i]
    PROVE  InPlace(d)'
<1>1. Batch(d)' = Batch(d) /\ Message(d)' = Message(d)
  BY MessageStays
<1>2. NothingSkipped(d)'
  BY <1>1, SettledStays DEF InPlace, NothingSkipped
<1>3. CASE pc[d] = "poll"
  BY <1>1, <1>2, <1>3 DEF InPlace, OwnsInsert, EarnsDelete
<1>4. CASE pc[d] # "poll"
  <2>1. Batch(d) # {}
    BY <1>4 DEF InPlace
  <2>2. Id[Message(d)] \in Ids /\ Body[Message(d)] # None
    BY <2>1, MessageIs
  <2>3. OwnsInsert(d)'
    BY <1>1, <2>2 DEF InPlace, OwnsInsert
  <2>4. EarnsDelete(d)'
    BY <1>1, <2>2 DEF InPlace, EarnsDelete, Keeps
  <2> QED BY <1>1, <1>2, <2>1, <2>3, <2>4 DEF InPlace
<1> QED BY <1>3, <1>4

(* A step that completes no inbox row and loses no message keeps what is said
   of all messages.                                                        *)
LEMMA QuietStep ==
    ASSUME Inv, TypeOK', UNCHANGED << inbox, handled >>, dlq \subseteq dlq',
           \A m \in Messages : place'[m] = "gone" => place[m] = "gone" \/ Settled(m)',
           \A d \in Consumers : InPlace(d)'
    PROVE  Inv'
<1>1. Keeps
  BY DEF Keeps
<1>2. InboxCounts'
  BY DEF Inv, InboxCounts
<1>3. NothingLost'
  BY <1>1, SettledStays DEF Inv, NothingLost
<1>4. GroupOrder'
  BY <1>1, SettledStays DEF Inv, GroupOrder
<1> QED BY <1>2, <1>3, <1>4 DEF Inv
-----------------------------------------------------------------------------
(* What going on to the next message, and giving the batch up, do to the types. *)
LEMMA EndTypes ==
    ASSUME TypeOK, NEW c \in Consumers, Batch(c) # {}, GoOn(c) \/ GiveUp(c)
    PROVE  /\ pc' \in [Consumers -> {"poll", "next", "process", "commit", "delete", "bury", "drop"}]
           /\ receipt' \in [Consumers -> [Messages -> 0 .. MaxReceive]]
<1>1. 0 \in 0 .. MaxReceive
  BY LimitAssumption
<1>2. Message(c) \in Messages
  BY MessageIs
<1>3. NoReceipts \in [Messages -> 0 .. MaxReceive]
  BY <1>1 DEF NoReceipts
<1>4. CASE GoOn(c)
  <2>1. receipt[c] \in [Messages -> 0 .. MaxReceive]
    BY DEF TypeOK
  <2>2. [receipt[c] EXCEPT ![Message(c)] = 0] \in [Messages -> 0 .. MaxReceive]
    BY <1>1, <2>1
  <2> QED BY <1>4, <2>2 DEF GoOn, TypeOK
<1>5. CASE GiveUp(c)
  BY <1>3, <1>5 DEF GiveUp, TypeOK
<1> QED BY <1>4, <1>5

(* Every step of a consumer or of the queue keeps the types. *)
LEMMA TypeStep ==
    ASSUME Inv, [Next]_vars
    PROVE  TypeOK'
<1>0. TypeOK /\ \A c \in Consumers : pc[c] # "poll" => Batch(c) # {}
  BY DEF Inv, InPlace
<1>1. ASSUME NEW m \in Messages, Expire(m) \/ Redrive(m) PROVE TypeOK'
  BY <1>0, <1>1 DEF Expire, Redrive, TypeOK
<1>2. ASSUME NEW c \in Consumers, NEW B \in SUBSET Messages, Receive(c, B) PROVE TypeOK'
  <2>1. \A m \in B : receives[m] + 1 \in 0 .. MaxReceive
    BY <1>0, <1>2, LimitAssumption DEF Receive, Deliverable, TypeOK
  <2>2. 0 \in 0 .. MaxReceive
    BY LimitAssumption
  <2>3. receives' \in [Messages -> 0 .. MaxReceive]
    BY <1>0, <1>2, <2>1 DEF Receive, TypeOK
  <2>4. [m \in Messages |-> IF m \in B THEN receives[m] + 1 ELSE 0] \in [Messages -> 0 .. MaxReceive]
    BY <2>1, <2>2
  <2>5. receipt' \in [Consumers -> [Messages -> 0 .. MaxReceive]]
    BY <1>0, <1>2, <2>4 DEF Receive, TypeOK
  <2>6. place' \in [Messages -> {"ready", "flight", "gone"}]
    BY <1>0, <1>2 DEF Receive, TypeOK
  <2> QED BY <1>0, <1>2, <2>3, <2>5, <2>6 DEF Receive, TypeOK
<1>3. ASSUME NEW c \in Consumers, Refuse(c) \/ Process(c) PROVE TypeOK'
  BY <1>0, <1>3 DEF Refuse, Process, Goto, TypeOK
<1>4. ASSUME NEW c \in Consumers, Register(c) PROVE TypeOK'
  <2>1. Id[Message(c)] \in Ids
    BY <1>0, <1>4, MessageIs DEF Register
  <2>2. inserting' \in [Ids -> Consumers \cup {None}]
    BY <1>0, <1>4, <2>1 DEF Register, TypeOK
  <2>3. pc' \in [Consumers -> {"poll", "next", "process", "commit", "delete", "bury", "drop"}]
    BY <1>0, <1>4 DEF Register, Goto, TypeOK
  <2> QED BY <1>0, <1>4, <2>2, <2>3 DEF Register, Goto, TypeOK
<1>5. ASSUME NEW c \in Consumers, Rollback(c) PROVE inserting' \in [Ids -> Consumers \cup {None}]
  BY <1>0, <1>5 DEF Rollback, TypeOK
<1>6. ASSUME NEW c \in Consumers, Reject(c) \/ Retry(c) PROVE TypeOK'
  BY <1>0, <1>5, <1>6 DEF Reject, Retry, Goto, TypeOK
<1>7. ASSUME NEW c \in Consumers, Commit(c) PROVE TypeOK'
  <2>1. Id[Message(c)] \in Ids /\ Body[Message(c)] \in Bodies
    BY <1>0, <1>7, MessageIs DEF Commit
  <2>2. inbox' \in [Ids -> Bodies \cup {None}] /\ handled' \in [Ids -> Nat]
    BY <1>0, <1>7, <2>1 DEF Commit, TypeOK
  <2> QED BY <1>0, <1>5, <1>7, <2>2 DEF Commit, Goto, TypeOK
<1>8. ASSUME NEW c \in Consumers, Delete(c) PROVE TypeOK'
  <2>1. Batch(c) # {} /\ (GoOn(c) \/ GiveUp(c))
    BY <1>0, <1>8 DEF Delete
  <2>2. place' \in [Messages -> {"ready", "flight", "gone"}]
    BY <1>0, <1>8 DEF Delete, TypeOK
  <2> QED BY <1>0, <1>8, <2>1, <2>2, EndTypes DEF Delete, TypeOK
<1>9. ASSUME NEW c \in Consumers, Bury(c) PROVE TypeOK'
  <2>1. Message(c) \in Messages
    BY <1>0, <1>9, MessageIs DEF Bury
  <2> QED BY <1>0, <1>9, <2>1 DEF Bury, Goto, TypeOK
<1>10. ASSUME NEW c \in Consumers, Fail(c) PROVE TypeOK'
  <2>1. Batch(c) # {} /\ GiveUp(c)
    BY <1>0, <1>10 DEF Fail
  <2>2. faults' \in Nat
    BY <1>0, <1>10 DEF Fail, TypeOK
  <2> QED BY <1>0, <1>5, <1>10, <2>1, <2>2, EndTypes DEF Fail, TypeOK
<1>11. CASE UNCHANGED vars
  BY <1>0, <1>11 DEF vars, TypeOK
<1> QED
  BY <1>1, <1>2, <1>3, <1>4, <1>6, <1>7, <1>8, <1>9, <1>10, <1>11 DEF Next, Consume, PollEmpty
-----------------------------------------------------------------------------
(* A consumer that moves on with the same message skips nothing. *)
LEMMA GotoInPlace ==
    ASSUME NEW c \in Consumers, InPlace(c), Keeps, pc[c] # "poll", UNCHANGED receipt,
           OwnsInsert(c)', EarnsDelete(c)'
    PROVE  InPlace(c)'
<1>1. Batch(c)' = Batch(c)
  BY MessageStays
<1>2. NothingSkipped(c)'
  BY <1>1, SettledStays DEF InPlace, NothingSkipped
<1> QED BY <1>1, <1>2 DEF InPlace

(* A consumer that gives up is responsible for nothing. *)
LEMMA GiveUpInPlace ==
    ASSUME TypeOK, NEW c \in Consumers, GiveUp(c)
    PROVE  InPlace(c)'
<1>1. Batch(c)' = {} /\ pc'[c] = "poll"
  BY DEF GiveUp, TypeOK, Batch, NoReceipts
<1> QED BY <1>1 DEF InPlace, OwnsInsert, EarnsDelete, NothingSkipped

(* A consumer that goes on leaves behind a settled message. *)
LEMMA GoOnInPlace ==
    ASSUME TypeOK, NEW c \in Consumers, InPlace(c), Keeps, Batch(c) # {}, GoOn(c),
           Settled(Message(c))
    PROVE  InPlace(c)'
<1>1. Message(c) \in Messages /\ Message(c) \in Batch(c)
  BY MessageIs
<1>2. Batch(c)' = Batch(c) \ {Message(c)}
  BY <1>1 DEF GoOn, TypeOK, Batch
<1>3. pc'[c] \in {"poll", "next"} /\ (pc'[c] # "poll" => Batch(c)' # {})
  BY <1>1, <1>2 DEF GoOn, TypeOK
<1>4. NothingSkipped(c)'
  <2> SUFFICES ASSUME NEW n \in Batch(c)', NEW m \in Messages, m < n, Group[m] = Group[n]
               PROVE  m \in Batch(c)' \/ Settled(m)'
    BY DEF NothingSkipped
  <2>1. m \in Batch(c) \/ Settled(m)
    BY <1>2 DEF InPlace, NothingSkipped
  <2>2. CASE m = Message(c)
    BY <2>2, SettledStays
  <2>3. CASE m # Message(c)
    BY <1>2, <2>1, <2>3, SettledStays
  <2> QED BY <2>2, <2>3
<1> QED BY <1>3, <1>4 DEF InPlace, OwnsInsert, EarnsDelete

(* Every step preserves the invariant. *)
LEMMA InvStep ==
    ASSUME Inv, [Next]_vars
    PROVE  Inv'
<1>0. /\ TypeOK /\ TypeOK' /\ InboxCounts /\ NothingLost /\ GroupOrder
      /\ \A d \in Consumers : InPlace(d)
  BY TypeStep DEF Inv
<1>1. ASSUME NEW m \in Messages, Expire(m) \/ Redrive(m) PROVE Inv'
  <2>1. dlq \subseteq dlq' /\ UNCHANGED << inbox, handled, inserting, pc, receipt >>
    BY <1>1 DEF Expire, Redrive
  <2>2. \A n \in Messages : place'[n] = "gone" => place[n] = "gone" \/ Settled(n)'
    BY <1>0, <1>1 DEF Expire, Redrive, Settled, TypeOK
  <2>3. ASSUME NEW d \in Consumers PROVE InPlace(d)'
    BY <1>0, <2>1, OthersInPlace DEF Keeps
  <2> QED BY <1>0, <2>1, <2>2, <2>3, QuietStep
<1>2. ASSUME NEW c \in Consumers, NEW B \in SUBSET Messages, Receive(c, B) PROVE Inv'
  <2>1. UNCHANGED << dlq, inbox, handled, inserting >>
    BY <1>2 DEF Receive
  <2>2. \A n \in Messages : place'[n] = "gone" => place[n] = "gone"
    BY <1>0, <1>2 DEF Receive, TypeOK
  <2>3. Batch(c)' = B /\ pc'[c] = "next" /\ B # {}
    <3>1. receipt'[c] = [m \in Messages |-> IF m \in B THEN receives[m] + 1 ELSE 0]
      BY <1>0, <1>2 DEF Receive, TypeOK
    <3>2. \A m \in Messages : receives[m] + 1 # 0
      BY <1>0, LimitAssumption DEF TypeOK
    <3> QED BY <1>0, <1>2, <3>1, <3>2 DEF Receive, Batch, TypeOK
  <2>4. NothingSkipped(c)'
    <3> SUFFICES ASSUME NEW n \in B, NEW m \in Messages, m < n, Group[m] = Group[n]
                 PROVE  m \in B \/ Settled(m)'
      BY <2>3 DEF NothingSkipped
    <3>1. place[m] = "gone" \/ m \in B
      BY <1>0, <1>2 DEF Receive, InOrder, TypeOK
    <3> QED BY <1>0, <2>1, <3>1, SettledStays DEF NothingLost, Keeps
  <2>5. InPlace(c)'
    BY <2>3, <2>4 DEF InPlace, OwnsInsert, EarnsDelete
  <2>6. ASSUME NEW d \in Consumers, d # c PROVE InPlace(d)'
    <3>1. pc'[d] = pc[d] /\ receipt'[d] = receipt[d]
      BY <1>0, <1>2, <2>6 DEF Receive, TypeOK
    <3> QED BY <1>0, <2>1, <3>1, OthersInPlace DEF Keeps
  <2> QED BY <1>0, <2>1, <2>2, <2>5, <2>6, QuietStep
<1>3. ASSUME NEW c \in Consumers, Refuse(c) PROVE Inv'
  <2>1. /\ UNCHANGED << place, dlq, inbox, handled, inserting, receipt >>
        /\ pc[c] = "next" /\ pc'[c] = "bury" /\ \A d \in Consumers \ {c} : pc'[d] = pc[d]
    BY <1>0, <1>3 DEF Refuse, Goto, TypeOK
  <2>2. InPlace(c)'
    BY <1>0, <2>1, GotoInPlace DEF OwnsInsert, EarnsDelete, Keeps
  <2>3. ASSUME NEW d \in Consumers, d # c PROVE InPlace(d)'
    BY <1>0, <2>1, <2>3, OthersInPlace DEF Keeps
  <2> QED BY <1>0, <2>1, <2>2, <2>3, QuietStep
<1>4. ASSUME NEW c \in Consumers, Register(c) PROVE Inv'
  <2> DEFINE m == Message(c)
  <2>1. /\ UNCHANGED << place, dlq, inbox, handled, receipt >> /\ pc[c] = "next"
        /\ \A d \in Consumers \ {c} : pc'[d] = pc[d]
        /\ inserting[Id[m]] = None
        /\ inserting' = IF Registered(m) THEN inserting ELSE [inserting EXCEPT ![Id[m]] = c]
        /\ pc'[c] = IF ~Registered(m) THEN "process"
                    ELSE IF inbox[Id[m]] = Body[m] THEN "delete" ELSE "bury"
    BY <1>0, <1>4 DEF Register, Goto, TypeOK
  <2>2. Id[m] \in Ids /\ Message(c)' = m
    <3>1. Batch(c) # {}
      BY <1>0, <2>1 DEF InPlace
    <3> QED BY <2>1, <3>1, MessageIs, MessageStays
  <2>3. OwnsInsert(c)' /\ EarnsDelete(c)'
    BY <1>0, <2>1, <2>2 DEF OwnsInsert, EarnsDelete, Registered, TypeOK
  <2>4. InPlace(c)'
    BY <1>0, <2>1, <2>3, GotoInPlace DEF Keeps
  <2>5. ASSUME NEW d \in Consumers, d # c PROVE InPlace(d)'
    <3>1. \A i \in Ids : inserting[i] = d => inserting'[i] = d
      BY <1>0, <2>1, <2>2, NoneAssumption DEF TypeOK
    <3> QED BY <1>0, <2>1, <2>5, <3>1, OthersInPlace DEF Keeps
  <2> QED BY <1>0, <2>1, <2>4, <2>5, QuietStep
<1>5. ASSUME NEW c \in Consumers, Process(c) PROVE Inv'
  <2>1. /\ UNCHANGED << place, dlq, inbox, handled, inserting, receipt >>
        /\ pc[c] = "process" /\ pc'[c] = "commit" /\ \A d \in Consumers \ {c} : pc'[d] = pc[d]
    BY <1>0, <1>5 DEF Process, Goto, TypeOK
  <2>2. Message(c)' = Message(c)
    BY <2>1, MessageStays
  <2>3. InPlace(c)'
    BY <1>0, <2>1, <2>2, GotoInPlace DEF InPlace, OwnsInsert, EarnsDelete, Keeps
  <2>4. ASSUME NEW d \in Consumers, d # c PROVE InPlace(d)'
    BY <1>0, <2>1, <2>4, OthersInPlace DEF Keeps
  <2> QED BY <1>0, <2>1, <2>3, <2>4, QuietStep
<1>6. ASSUME NEW c \in Consumers, NEW d \in Consumers, d # c, Rollback(c)
      PROVE  \A i \in Ids : inserting[i] = d => inserting'[i] = d
  BY <1>6 DEF Rollback
<1>7. ASSUME NEW c \in Consumers, Reject(c) \/ Retry(c) PROVE Inv'
  <2>1. /\ UNCHANGED << place, dlq, inbox, handled, receipt >> /\ Rollback(c)
        /\ pc[c] # "poll" /\ pc'[c] \in {"bury", "next"}
        /\ \A d \in Consumers \ {c} : pc'[d] = pc[d]
    BY <1>0, <1>7 DEF Reject, Retry, Goto, TypeOK
  <2>2. InPlace(c)'
    BY <1>0, <2>1, GotoInPlace DEF OwnsInsert, EarnsDelete, Keeps
  <2>3. ASSUME NEW d \in Consumers, d # c PROVE InPlace(d)'
    BY <1>0, <1>6, <2>1, <2>3, OthersInPlace DEF Keeps
  <2> QED BY <1>0, <2>1, <2>2, <2>3, QuietStep
<1>8. ASSUME NEW c \in Consumers, Commit(c) PROVE Inv'
  <2> DEFINE m == Message(c)
  <2>1. /\ UNCHANGED << place, dlq, receipt >> /\ Rollback(c)
        /\ inbox' = [inbox EXCEPT ![Id[m]] = Body[m]]
        /\ handled' = [handled EXCEPT ![Id[m]] = @ + 1]
        /\ pc[c] = "commit" /\ pc'[c] = "delete" /\ \A d \in Consumers \ {c} : pc'[d] = pc[d]
    BY <1>0, <1>8 DEF Commit, Goto, TypeOK
  <2>2. /\ m \in Batch(c) /\ m \in Messages /\ Message(c)' = m
        /\ Id[m] \in Ids /\ Body[m] # None /\ \A n \in Batch(c) : m <= n
    <3>1. Batch(c) # {}
      BY <1>0, <2>1 DEF InPlace
    <3> QED BY <2>1, <3>1, MessageIs, MessageStays
  <2>3. inserting[Id[m]] = c /\ inbox[Id[m]] = None
    BY <1>0, <2>1 DEF InPlace, OwnsInsert
  <2>4. Keeps
    BY <1>0, <2>1, <2>2, <2>3 DEF Keeps, TypeOK
  <2>5. InboxCounts'
    BY <1>0, <2>1, <2>2, <2>3 DEF InboxCounts, TypeOK
  <2>6. NothingLost'
    BY <1>0, <2>1, <2>4, SettledStays DEF NothingLost
  <2>7. GroupOrder'
    <3> SUFFICES ASSUME NEW k \in Messages, NEW n \in Messages, k < n, Group[k] = Group[n],
                        inbox'[Id[n]] = Body[n], \A j \in Messages : Id[j] = Id[n] => j = n
                 PROVE  Settled(k)'
      BY DEF GroupOrder
    <3>1. CASE inbox[Id[n]] = Body[n]
      BY <1>0, <2>4, <3>1, SettledStays DEF GroupOrder
    <3>2. CASE inbox[Id[n]] # Body[n]
      <4>1. n = m
        BY <1>0, <2>1, <2>2, <3>2 DEF TypeOK, Ids
      <4>2. k \notin Batch(c)
        BY <2>2, <4>1, NAssumption DEF Messages
      <4>3. Settled(k)
        BY <1>0, <2>2, <4>1, <4>2 DEF InPlace, NothingSkipped
      <4> QED BY <2>4, <4>3, SettledStays
    <3> QED BY <3>1, <3>2
  <2>8. InPlace(c)'
    <3>1. OwnsInsert(c)' /\ EarnsDelete(c)'
      BY <1>0, <2>1, <2>2 DEF OwnsInsert, EarnsDelete, TypeOK
    <3> QED BY <1>0, <2>1, <2>4, <3>1, GotoInPlace
  <2>9. ASSUME NEW d \in Consumers, d # c PROVE InPlace(d)'
    <3>1. \A i \in Ids : inserting[i] = d => inserting'[i] = d /\ inbox'[i] = inbox[i]
      BY <1>0, <1>6, <2>1, <2>3, <2>9 DEF TypeOK
    <3> QED BY <1>0, <2>1, <2>4, <2>9, <3>1, OthersInPlace
  <2> QED BY <1>0, <2>5, <2>6, <2>7, <2>8, <2>9 DEF Inv
<1>9. ASSUME NEW c \in Consumers, Delete(c) PROVE Inv'
  <2>1. /\ UNCHANGED << dlq, inbox, handled, inserting >>
        /\ pc[c] \in {"delete", "drop"} /\ (GoOn(c) \/ GiveUp(c))
        /\ \A d \in Consumers \ {c} : pc'[d] = pc[d] /\ receipt'[d] = receipt[d]
    BY <1>0, <1>9 DEF Delete, GoOn, GiveUp, TypeOK
  <2>2. Batch(c) # {} /\ Settled(Message(c))
    BY <1>0, <2>1 DEF InPlace, EarnsDelete, Settled
  <2>3. Keeps
    BY <2>1 DEF Keeps
  <2>4. InPlace(c)'
    BY <1>0, <2>1, <2>2, <2>3, GoOnInPlace, GiveUpInPlace
  <2>5. \A n \in Messages : place'[n] = "gone" => place[n] = "gone" \/ Settled(n)'
    <3> SUFFICES ASSUME NEW n \in Messages, place'[n] = "gone", place[n] # "gone"
                 PROVE  Settled(n)'
      OBVIOUS
    <3>1. n = Message(c)
      BY <1>0, <1>9 DEF Delete, TypeOK
    <3> QED BY <2>2, <2>3, <3>1, SettledStays
  <2>6. ASSUME NEW d \in Consumers, d # c PROVE InPlace(d)'
    BY <1>0, <2>1, <2>3, <2>6, OthersInPlace
  <2> QED BY <1>0, <2>1, <2>4, <2>5, <2>6, QuietStep
<1>10. ASSUME NEW c \in Consumers, Bury(c) PROVE Inv'
  <2>1. /\ UNCHANGED << place, inbox, handled, inserting, receipt >>
        /\ dlq' = dlq \cup {Message(c)}
        /\ pc[c] = "bury" /\ pc'[c] = "drop" /\ \A d \in Consumers \ {c} : pc'[d] = pc[d]
    BY <1>0, <1>10 DEF Bury, Goto, TypeOK
  <2>2. Keeps /\ Message(c)' = Message(c)
    BY <2>1, MessageStays DEF Keeps
  <2>3. InPlace(c)'
    BY <1>0, <2>1, <2>2, GotoInPlace DEF OwnsInsert, EarnsDelete
  <2>4. ASSUME NEW d \in Consumers, d # c PROVE InPlace(d)'
    BY <1>0, <2>1, <2>2, <2>4, OthersInPlace
  <2> QED BY <1>0, <2>1, <2>3, <2>4, QuietStep
<1>11. ASSUME NEW c \in Consumers, Fail(c) PROVE Inv'
  <2>1. /\ UNCHANGED << place, dlq, inbox, handled >> /\ Rollback(c) /\ GiveUp(c)
        /\ \A d \in Consumers \ {c} : pc'[d] = pc[d] /\ receipt'[d] = receipt[d]
    BY <1>0, <1>11 DEF Fail, GiveUp, TypeOK
  <2>2. InPlace(c)'
    BY <1>0, <2>1, GiveUpInPlace
  <2>3. ASSUME NEW d \in Consumers, d # c PROVE InPlace(d)'
    BY <1>0, <1>6, <2>1, <2>3, OthersInPlace DEF Keeps
  <2> QED BY <1>0, <2>1, <2>2, <2>3, QuietStep
<1>12. CASE UNCHANGED vars
  <2>1. ASSUME NEW d \in Consumers PROVE InPlace(d)'
    BY <1>0, <1>12, OthersInPlace DEF Keeps, vars
  <2> QED BY <1>0, <1>12, <2>1, QuietStep DEF vars
<1> QED
  BY <1>1, <1>2, <1>3, <1>4, <1>5, <1>7, <1>8, <1>9, <1>10, <1>11, <1>12
  DEF Next, Consume, PollEmpty

(* The invariant holds of queues that have delivered nothing yet. *)
LEMMA InvInit == Init => Inv
<1> SUFFICES ASSUME Init PROVE Inv
  OBVIOUS
<1>1. TypeOK
  BY LimitAssumption DEF Init, TypeOK, NoReceipts
<1>2. InboxCounts /\ NothingLost
  BY DEF Init, InboxCounts, NothingLost
<1>3. GroupOrder
  BY NoneAssumption DEF Init, GroupOrder, Ids, Bodies
<1>4. ASSUME NEW c \in Consumers PROVE InPlace(c)
  <2>1. Batch(c) = {} /\ pc[c] = "poll"
    BY DEF Init, Batch, NoReceipts
  <2> QED BY <2>1 DEF InPlace, OwnsInsert, EarnsDelete, NothingSkipped
<1> QED BY <1>1, <1>2, <1>3, <1>4 DEF Inv

(* It holds in every state. *)
LEMMA InvAlways == Spec => []Inv
  BY InvInit, InvStep, PTL DEF Spec

-----------------------------------------------------------------------------
(* No message is received more often than the redrive policy allows, and every
   table of SqsConsumer keeps its type.                                    *)
THEOREM TypeCorrect == Spec => []TypeOK
  BY InvAlways, PTL DEF Inv

(* At most one transaction completes a messageId, however many consumers the
   queue delivers it to: inbox.Register lets one insert at a time pass.    *)
THEOREM HandledOnceCorrect == Spec => []HandledOnce
<1>1. Inv => HandledOnce
  BY DEF Inv, InboxCounts, HandledOnce
<1> QED BY <1>1, InvAlways, PTL

(* No message leaves the queue without its outcome committed or a copy in the
   dead letter queue: processMessage and moveToDLQ delete last.            *)
THEOREM NothingLostCorrect == Spec => []NothingLost
  BY InvAlways, PTL DEF Inv

(* Messages of a wallet take effect in the order they were sent, because
   PollOnce gives the rest of its batch up when one of it fails.           *)
THEOREM GroupOrderCorrect == Spec => []GroupOrder
  BY InvAlways, PTL DEF Inv
=============================================================================

----------------------- MODULE OutboxDispatcherProofs -----------------------
(* OutboxDispatcher for every number of events, dispatchers and failures, and
   for every lease.                                                        *)
EXTENDS OutboxDispatcher, TLAPS

(* The types, and that a dispatcher at work has an event. *)
TypeInv ==
    /\ TypeOK
    /\ \A d \in Dispatchers : Holding(d) => held[d] \in Events
    /\ \A e \in Events : ~rows[e].recorded => rows[e] = NoRow

(* The claim of a lease that still runs is in the table, with its end. *)
ClaimStands ==
    \A d \in Dispatchers : Holding(d) /\ clock < readAt[d] + Lease =>
        /\ rows[held[d]].claimedBy = d
        /\ rows[held[d]].claimedUntil = readAt[d] + Lease
        /\ rows[held[d]].publishedAt = Null

(* What is about to be confirmed has been sent. *)
MarkIsEarned == \A d \in Dispatchers : pc[d] = "mark" => Sent(held[d])

Inv == TypeInv /\ ClaimStands /\ MarkIsEarned /\ PublishedWasSent

(* The queue only grows, and holds what it was last given. *)
LEMMA AcceptSends ==
    ASSUME NEW e \in Events, queue \in Seq(Copy), clock \in Nat, Accept(e)
    PROVE  /\ queue' \in Seq(Copy)
           /\ Sent(e)'
           /\ \A f \in Events : Sent(f) => Sent(f)'
<1> DEFINE c == [event |-> e, at |-> clock]
<1>1. CASE Remembered(e)
  BY <1>1 DEF Accept, Remembered, Sent
<1>2. CASE ~Remembered(e)
  <2>1. c \in Copy
    BY DEF Copy
  <2>2. queue' = Append(queue, c)
    BY <1>2 DEF Accept
  <2>3. /\ queue' \in Seq(Copy)
        /\ Len(queue') = Len(queue) + 1
        /\ queue'[Len(queue) + 1] = c
        /\ \A i \in 1 .. Len(queue) : queue'[i] = queue[i]
    BY <2>1, <2>2
  <2>4. Len(queue) \in Nat
    OBVIOUS
  <2>5. Sent(e)'
    BY <2>3, <2>4 DEF Sent
  <2>6. \A f \in Events : Sent(f) => Sent(f)'
    BY <2>3, <2>4 DEF Sent
  <2> QED BY <2>3, <2>5, <2>6
<1> QED BY <1>1, <1>2

(* The invariant holds of the empty outbox. *)
LEMMA InvInit == Init => Inv
<1> SUFFICES ASSUME Init PROVE Inv
  OBVIOUS
<1>1. TypeInv
  BY DEF Init, TypeInv, TypeOK, Row, NoRow, Holding, Null
<1>2. ClaimStands /\ MarkIsEarned
  BY DEF Init, ClaimStands, MarkIsEarned, Holding
<1>3. PublishedWasSent
  BY DEF Init, PublishedWasSent, NoRow, Null
<1> QED BY <1>1, <1>2, <1>3 DEF Inv

(* Every step preserves it. *)
LEMMA InvStep == Inv /\ [Next]_vars => Inv'
<1> SUFFICES ASSUME Inv, [Next]_vars PROVE Inv'
  OBVIOUS
<1> USE LeaseAssumption, NoneAssumption
<1>t. TypeInv
  BY DEF Inv
<1>1. ASSUME NEW e \in Events, Record(e) PROVE Inv'
  <2>1. PICK began, occurred \in 1 .. clock :
          rows' = [rows EXCEPT ![e] = [NoRow EXCEPT !.recorded = TRUE,
                                       !.occurredAt = occurred, !.next = began]]
    BY <1>1 DEF Record
  <2> DEFINE row == [NoRow EXCEPT !.recorded = TRUE, !.occurredAt = occurred, !.next = began]
  <2>2. began \in Nat /\ occurred \in Nat
    BY <1>t DEF TypeInv, TypeOK
  <2>3. row \in Row /\ row.recorded /\ row.publishedAt = Null
    BY <2>2 DEF Row, NoRow, Null
  <2>4. /\ rows[e] = NoRow
        /\ UNCHANGED << clock, queue, pc, held, tries, readAt, faults >>
    BY <1>1, <1>t DEF Record, TypeInv, TypeOK
  <2>5. rows' \in [Events -> Row] /\ rows'[e] = row
        /\ \A f \in Events \ {e} : rows'[f] = rows[f]
    BY <1>t, <2>1, <2>3 DEF TypeInv, TypeOK
  <2> HIDE DEF row
  <2>6. TypeInv'
    BY <1>t, <2>3, <2>4, <2>5 DEF TypeInv, TypeOK, Holding
  <2>7. ClaimStands'
    <3> SUFFICES ASSUME NEW d \in Dispatchers, Holding(d), clock < readAt[d] + Lease
                 PROVE  /\ rows'[held[d]].claimedBy = d
                        /\ rows'[held[d]].claimedUntil = readAt[d] + Lease
                        /\ rows'[held[d]].publishedAt = Null
      BY <2>4 DEF ClaimStands, Holding
    <3>1. /\ rows[held[d]].claimedBy = d
          /\ rows[held[d]].claimedUntil = readAt[d] + Lease
          /\ rows[held[d]].publishedAt = Null
          /\ held[d] \in Events
      BY <1>t DEF Inv, TypeInv, TypeOK, ClaimStands
    <3>2. held[d] # e
      BY <3>1, <2>4 DEF NoRow
    <3> QED BY <3>1, <3>2, <2>5
  <2>8. MarkIsEarned'
    BY <2>4 DEF Inv, MarkIsEarned, Sent
  <2>9. PublishedWasSent'
    BY <2>3, <2>4, <2>5 DEF Inv, PublishedWasSent, Sent
  <2> QED BY <2>6, <2>7, <2>8, <2>9 DEF Inv
<1>2. ASSUME NEW d \in Dispatchers, ReadClock(d) PROVE Inv'
  <2>1. TypeInv'
    BY <1>2, <1>t DEF ReadClock, TypeInv, TypeOK, Holding
  <2>2. ClaimStands'
    BY <1>2, <1>t DEF Inv, ReadClock, TypeInv, TypeOK, ClaimStands, Holding
  <2>3. MarkIsEarned' /\ PublishedWasSent'
    BY <1>2, <1>t DEF Inv, ReadClock, TypeInv, TypeOK, MarkIsEarned, PublishedWasSent, Sent
  <2> QED BY <2>1, <2>2, <2>3 DEF Inv
<1>3. ASSUME NEW d \in Dispatchers, NEW e \in Events, ClaimPending(d, e) PROVE Inv'
  <2> DEFINE row == [rows[e] EXCEPT !.attempts = @ + 1, !.claimedBy = d,
                                    !.claimedUntil = readAt[d] + Lease]
  <2>0. rows' = [rows EXCEPT ![e] = row]
    BY <1>3 DEF ClaimPending
  <2>1. /\ held' = [held EXCEPT ![d] = e]
        /\ pc' = [pc EXCEPT ![d] = "publish"]
        /\ tries' = [tries EXCEPT ![d] = rows[e].attempts + 1]
        /\ UNCHANGED << clock, queue, readAt, faults >>
        /\ rows[e].recorded /\ rows[e].publishedAt = Null
        /\ rows[e].claimedBy = None \/ rows[e].claimedUntil <= clock
    BY <1>3 DEF ClaimPending, Available, Unclaimed
  <2>2. /\ row \in Row /\ row.recorded /\ row.publishedAt = Null
        /\ row.claimedBy = d /\ row.claimedUntil = readAt[d] + Lease
    <3>1. rows[e] \in Row /\ rows[e].attempts + 1 \in Nat /\ readAt[d] + Lease \in Nat
      BY <1>t DEF TypeInv, TypeOK, Row
    <3> QED BY <3>1, <2>1 DEF Row
  <2>3. rows' \in [Events -> Row] /\ rows'[e] = row
        /\ \A f \in Events \ {e} : rows'[f] = rows[f]
    BY <1>t, <2>0, <2>1, <2>2 DEF TypeInv, TypeOK
  <2> HIDE DEF row
  <2>4. TypeInv'
    <3>1. rows[e].attempts + 1 \in Nat
      BY <1>t DEF TypeInv, TypeOK, Row
    <3>2. TypeOK'
      BY <1>t, <2>1, <2>3, <3>1 DEF TypeInv, TypeOK
    <3> QED BY <1>t, <2>1, <2>2, <2>3, <3>2 DEF TypeInv, TypeOK, Holding
  <2>5. ClaimStands'
    <3> SUFFICES ASSUME NEW f \in Dispatchers, Holding(f)', clock' < readAt'[f] + Lease
                 PROVE  /\ rows'[held'[f]].claimedBy = f
                        /\ rows'[held'[f]].claimedUntil = readAt'[f] + Lease
                        /\ rows'[held'[f]].publishedAt = Null
      BY DEF ClaimStands
    <3>1. CASE f = d
      BY <3>1, <1>t, <2>1, <2>2, <2>3 DEF TypeInv, TypeOK
    <3>2. CASE f # d
      <4>1. Holding(f) /\ held'[f] = held[f] /\ clock < readAt[f] + Lease
        BY <3>2, <1>t, <2>1 DEF TypeInv, TypeOK, Holding
      <4>2. /\ rows[held[f]].claimedBy = f
            /\ rows[held[f]].claimedUntil = readAt[f] + Lease
            /\ rows[held[f]].publishedAt = Null
            /\ held[f] \in Events
        BY <4>1, <1>t DEF Inv, TypeInv, TypeOK, ClaimStands
      <4>3. held[f] # e
        BY <4>1, <4>2, <2>1, <1>t DEF TypeInv, TypeOK
      <4> QED BY <4>1, <4>2, <4>3, <2>1, <2>3
    <3> QED BY <3>1, <3>2
  <2>6. MarkIsEarned'
    BY <1>t, <2>1 DEF Inv, TypeInv, TypeOK, MarkIsEarned, Sent
  <2>7. PublishedWasSent'
    BY <2>1, <2>2, <2>3 DEF Inv, PublishedWasSent, Sent
  <2> QED BY <2>4, <2>5, <2>6, <2>7 DEF Inv
<1>4. ASSUME NEW d \in Dispatchers, Return(d), UNCHANGED << rows, queue >>, faults' \in Nat PROVE Inv'
  <2>1. TypeInv'
    BY <1>4, <1>t DEF Return, TypeInv, TypeOK, Holding
  <2>2. ClaimStands'
    BY <1>4, <1>t DEF Inv, Return, TypeInv, TypeOK, ClaimStands, Holding
  <2>3. MarkIsEarned' /\ PublishedWasSent'
    BY <1>4, <1>t DEF Inv, Return, TypeInv, TypeOK, MarkIsEarned, PublishedWasSent, Sent
  <2> QED BY <2>1, <2>2, <2>3 DEF Inv
<1>5. ASSUME NEW d \in Dispatchers, Publish(d) PROVE Inv'
  <2>1. /\ Holding(d) /\ held[d] \in Events /\ queue \in Seq(Copy) /\ clock \in Nat
        /\ Accept(held[d])
        /\ pc' = [pc EXCEPT ![d] = "mark"]
        /\ UNCHANGED << clock, rows, held, tries, readAt, faults >>
    BY <1>5, <1>t DEF Publish, TypeInv, TypeOK, Holding
  <2>2. /\ queue' \in Seq(Copy) /\ Sent(held[d])'
        /\ \A f \in Events : Sent(f) => Sent(f)'
    BY <2>1, AcceptSends
  <2>3. TypeInv'
    BY <1>t, <2>1, <2>2 DEF TypeInv, TypeOK, Holding
  <2>4. ClaimStands'
    BY <1>t, <2>1 DEF Inv, TypeInv, TypeOK, ClaimStands, Holding
  <2>5. MarkIsEarned'
    <3> SUFFICES ASSUME NEW f \in Dispatchers, pc'[f] = "mark" PROVE Sent(held[f])'
      BY <2>1 DEF MarkIsEarned, Sent
    <3>1. CASE f = d
      BY <3>1, <2>2
    <3>2. CASE f # d
      <4>1. pc[f] = "mark" /\ held[f] \in Events
        BY <3>2, <2>1, <1>t DEF TypeInv, TypeOK, Holding
      <4>2. Sent(held[f])
        BY <4>1 DEF Inv, MarkIsEarned
      <4> QED BY <4>1, <4>2, <2>1, <2>2 DEF Sent
    <3> QED BY <3>1, <3>2
  <2>6. PublishedWasSent'
    <3> SUFFICES ASSUME NEW f \in Events, rows[f].publishedAt # Null PROVE Sent(f)'
      BY <2>1 DEF PublishedWasSent
    <3> QED BY <2>2 DEF Inv, PublishedWasSent
  <2> QED BY <2>3, <2>4, <2>5, <2>6 DEF Inv
<1>6. ASSUME NEW d \in Dispatchers, PublishFails(d) PROVE Inv'
  <2>1. /\ Holding(d) /\ held[d] \in Events /\ queue \in Seq(Copy) /\ clock \in Nat
        /\ Accept(held[d]) \/ UNCHANGED queue
        /\ pc' = [pc EXCEPT ![d] = "retry"]
        /\ UNCHANGED << clock, rows, held, tries, readAt >> /\ faults' \in Nat
    BY <1>6, <1>t DEF PublishFails, TypeInv, TypeOK, Holding
  <2>2. queue' \in Seq(Copy) /\ \A f \in Events : Sent(f) => Sent(f)'
    <3>1. CASE Accept(held[d])
      BY <3>1, <2>1, AcceptSends
    <3>2. CASE UNCHANGED queue
      BY <3>2, <2>1 DEF Sent
    <3> QED BY <3>1, <3>2, <2>1
  <2>3. TypeInv'
    BY <1>t, <2>1, <2>2 DEF TypeInv, TypeOK, Holding
  <2>4. ClaimStands'
    BY <1>t, <2>1 DEF Inv, TypeInv, TypeOK, ClaimStands, Holding
  <2>5. MarkIsEarned'
    <3> SUFFICES ASSUME NEW f \in Dispatchers, pc'[f] = "mark" PROVE Sent(held[f])'
      BY <2>1 DEF MarkIsEarned, Sent
    <3>1. pc[f] = "mark" /\ held[f] \in Events
      BY <2>1, <1>t DEF TypeInv, TypeOK, Holding
    <3>2. Sent(held[f])
      BY <3>1 DEF Inv, MarkIsEarned
    <3> QED BY <3>1, <3>2, <2>1, <2>2 DEF Sent
  <2>6. PublishedWasSent'
    <3> SUFFICES ASSUME NEW f \in Events, rows[f].publishedAt # Null PROVE Sent(f)'
      BY <2>1 DEF PublishedWasSent
    <3> QED BY <2>2 DEF Inv, PublishedWasSent
  <2> QED BY <2>3, <2>4, <2>5, <2>6 DEF Inv
<1>7. ASSUME NEW d \in Dispatchers, Holding(d), Owns(d), Return(d), UNCHANGED << queue, faults >>,
             NEW row \in Row, row.recorded, row.publishedAt = Null \/ pc[d] = "mark",
             rows' = [rows EXCEPT ![held[d]] = row]
      PROVE  Inv'
  <2>1. /\ held[d] \in Events /\ rows[held[d]].claimedBy = d
        /\ rows' \in [Events -> Row] /\ rows'[held[d]] = row
        /\ \A f \in Events \ {held[d]} : rows'[f] = rows[f]
        /\ rows[held[d]].publishedAt = Null
    BY <1>7, <1>t DEF TypeInv, TypeOK, Owns
  <2>2. TypeInv'
    BY <1>7, <1>t, <2>1 DEF Return, TypeInv, TypeOK, Holding
  <2>3. ClaimStands'
    <3> SUFFICES ASSUME NEW f \in Dispatchers, Holding(f)', clock' < readAt'[f] + Lease
                 PROVE  /\ rows'[held'[f]].claimedBy = f
                        /\ rows'[held'[f]].claimedUntil = readAt'[f] + Lease
                        /\ rows'[held'[f]].publishedAt = Null
      BY DEF ClaimStands
    <3>1. f # d /\ Holding(f) /\ held'[f] = held[f] /\ readAt'[f] = readAt[f] /\ clock' = clock
      BY <1>7, <1>t DEF Return, TypeInv, TypeOK, Holding
    <3>2. /\ rows[held[f]].claimedBy = f
          /\ rows[held[f]].claimedUntil = readAt[f] + Lease
          /\ rows[held[f]].publishedAt = Null
          /\ held[f] \in Events
      BY <3>1, <1>t DEF Inv, TypeInv, TypeOK, ClaimStands
    <3> QED BY <3>1, <3>2, <2>1
  <2>4. MarkIsEarned'
    BY <1>7, <1>t DEF Inv, Return, TypeInv, TypeOK, MarkIsEarned, Sent
  <2>5. PublishedWasSent'
    <3> SUFFICES ASSUME NEW f \in Events, rows'[f].publishedAt # Null PROVE Sent(f)
      BY <1>7 DEF PublishedWasSent, Sent
    <3>1. CASE f = held[d]
      BY <3>1, <2>1, <1>7 DEF Inv, MarkIsEarned
    <3>2. CASE f # held[d]
      BY <3>2, <2>1 DEF Inv, PublishedWasSent
    <3> QED BY <3>1, <3>2
  <2> QED BY <2>2, <2>3, <2>4, <2>5 DEF Inv
<1>8. ASSUME NEW d \in Dispatchers, MarkPublished(d) PROVE Inv'
  <2> DEFINE row == [rows[held[d]] EXCEPT !.publishedAt = clock, !.claimedBy = None,
                                          !.claimedUntil = Null]
  <2>1. Holding(d) /\ pc[d] = "mark" /\ Return(d) /\ UNCHANGED << queue, faults >>
    BY <1>8 DEF MarkPublished, Holding
  <2>2. CASE ~Owns(d)
    BY <2>1, <2>2, <1>4, <1>8, <1>t DEF TypeInv, TypeOK, MarkPublished
  <2>3. CASE Owns(d)
    <3>1. rows' = [rows EXCEPT ![held[d]] = row]
      BY <2>3, <1>8 DEF MarkPublished
    <3>2. held[d] \in Events /\ rows[held[d]] \in Row
      BY <2>1, <1>t DEF TypeInv, TypeOK
    <3>3. rows[held[d]].recorded
      BY <2>3, <3>2, <1>t DEF TypeInv, TypeOK, Owns, NoRow
    <3>4. row \in Row /\ row.recorded
      BY <3>2, <3>3, <1>t DEF TypeInv, TypeOK, Row, Null
    <3> HIDE DEF row
    <3> QED BY <2>1, <2>3, <3>1, <3>4, <1>7
  <2> QED BY <2>2, <2>3
<1>9. ASSUME NEW d \in Dispatchers, ScheduleRetry(d) PROVE Inv'
  <2>1. Holding(d) /\ Return(d) /\ UNCHANGED << queue, faults >>
    BY <1>9 DEF ScheduleRetry, Holding
  <2>2. CASE ~Owns(d)
    BY <2>1, <2>2, <1>4, <1>9, <1>t DEF TypeInv, TypeOK, ScheduleRetry
  <2>3. CASE Owns(d)
    <3> DEFINE row == [rows[held[d]] EXCEPT !.next = clock + outboxRetryDelay(tries[d]),
                                            !.claimedBy = None, !.claimedUntil = Null]
    <3>1. rows' = [rows EXCEPT ![held[d]] = row]
      BY <2>3, <1>9 DEF ScheduleRetry
    <3>2. /\ held[d] \in Events /\ rows[held[d]] \in Row
          /\ rows[held[d]].publishedAt = Null
      BY <2>1, <2>3, <1>t DEF TypeInv, TypeOK, Owns
    <3>3. rows[held[d]].recorded
      BY <2>3, <3>2, <1>t DEF TypeInv, TypeOK, Owns, NoRow
    <3>4. clock + outboxRetryDelay(tries[d]) \in Nat
      BY <1>t, DelayAssumption DEF TypeInv, TypeOK, outboxRetryDelay
    <3>5. row \in Row /\ row.recorded /\ row.publishedAt = Null
      BY <3>2, <3>3, <3>4, <1>t DEF TypeInv, TypeOK, Row, Null
    <3> HIDE DEF row
    <3> QED BY <2>1, <2>3, <3>1, <3>5, <1>7
  <2> QED BY <2>2, <2>3
<1>10. ASSUME Tick PROVE Inv'
  <2>1. TypeInv'
    BY <1>10, <1>t DEF Tick, TypeInv, TypeOK, Holding
  <2>2. ClaimStands'
    BY <1>10, <1>t DEF Inv, Tick, TypeInv, TypeOK, ClaimStands, Holding
  <2>3. MarkIsEarned' /\ PublishedWasSent'
    BY <1>10 DEF Inv, Tick, MarkIsEarned, PublishedWasSent, Sent
  <2> QED BY <2>1, <2>2, <2>3 DEF Inv
<1>11. ASSUME UNCHANGED vars PROVE Inv'
  <2>1. TypeInv'
    BY <1>11, <1>t DEF vars, TypeInv, TypeOK, Holding
  <2>2. ClaimStands' /\ MarkIsEarned' /\ PublishedWasSent'
    BY <1>11 DEF Inv, vars, ClaimStands, MarkIsEarned, PublishedWasSent, Holding, Sent
  <2> QED BY <2>1, <2>2 DEF Inv
<1>12. ASSUME NEW d \in Dispatchers, NothingPending(d) \/ Crash(d) PROVE Inv'
  <2>1. Return(d) /\ UNCHANGED << rows, queue >>
    BY <1>12 DEF NothingPending, Crash
  <2>2. faults' \in Nat
    BY <1>12, <1>t DEF TypeInv, TypeOK, NothingPending, Crash
  <2> QED BY <2>1, <2>2, <1>4
<1> QED
  BY <1>1, <1>2, <1>3, <1>5, <1>6, <1>8, <1>9, <1>10, <1>11, <1>12 DEF Next, Dispatch

(* The invariant holds for ever. *)
LEMMA InvAlways == Spec => []Inv
BY InvInit, InvStep, PTL DEF Spec

(* The columns and the dispatchers' variables keep their types. *)
THEOREM TypeCorrect == Spec => []TypeOK
<1>1. Inv => TypeOK
  BY DEF Inv, TypeInv
<1> QED BY <1>1, InvAlways, PTL

(* At most one dispatcher works on an event under a lease that still runs, and
   the table says so: from ClaimStands, since a row has one claimedBy.     *)
THEOREM LeaseCorrect == Spec => []LeaseIsExclusive
<1>1. Inv => LeaseIsExclusive
  <2> SUFFICES ASSUME Inv, NEW d \in Dispatchers, Holding(d), clock < readAt[d] + Lease
               PROVE  /\ rows[held[d]].claimedBy = d
                      /\ rows[held[d]].publishedAt = Null
                      /\ \A f \in Dispatchers \ {d} :
                            Holding(f) /\ held[f] = held[d] => clock >= readAt[f] + Lease
    BY DEF LeaseIsExclusive
  <2>1. rows[held[d]].claimedBy = d /\ rows[held[d]].publishedAt = Null
    BY DEF Inv, ClaimStands
  <2>2. ASSUME NEW f \in Dispatchers \ {d}, Holding(f), held[f] = held[d]
        PROVE  clock >= readAt[f] + Lease
    <3>1. ~(clock < readAt[f] + Lease)
      BY <2>1, <2>2 DEF Inv, ClaimStands
    <3> QED BY <3>1, LeaseAssumption DEF Inv, TypeInv, TypeOK
  <2> QED BY <2>1, <2>2
<1> QED BY <1>1, InvAlways, PTL

(* An event is confirmed only when the queue has taken a copy of it, whatever
   failed, expired or was taken over in between.                           *)
THEOREM PublishedCorrect == Spec => []PublishedWasSent
<1>1. Inv => PublishedWasSent
  BY DEF Inv
<1> QED BY <1>1, InvAlways, PTL
=============================================================================

-------------------------- MODULE OutboxDispatcher --------------------------
(***************************************************************************)
(* The transactional outbox on its way to the queue: DispatchNext of every *)
(* service instance claims one committed event at a time under a lease,    *)
(* publishes it to an SQS FIFO queue and confirms it.  Each database call  *)
(* is one autocommitted statement; between two of them a dispatcher may be *)
(* slow, may fail, or may die.                                             *)
(***************************************************************************)
EXTENDS Naturals, Sequences

CONSTANTS
    Events,             \* rows that transactions will leave in the outbox
    Dispatchers,        \* one DispatchNext loop per service instance
    None,
    Lease,              \* outboxLeaseDuration
    InitialRetryDelay, MaxRetryDelay,
    DedupWindow,        \* how long the FIFO queue remembers a deduplication id
    MaxTransaction,     \* bound on the length of a recording transaction
    MaxClock,           \* bound on the database clock
    MaxFaults           \* bound on failures

ASSUME LeaseAssumption == Lease \in Nat \ {0}
ASSUME DelayAssumption == InitialRetryDelay \in Nat /\ MaxRetryDelay \in Nat
ASSUME WindowAssumption == DedupWindow \in Nat
ASSUME NoneAssumption == None \notin Dispatchers \cup Events
ASSUME LimitAssumption ==
    MaxTransaction \in Nat /\ MaxClock \in Nat /\ MaxFaults \in Nat

VARIABLES
    clock,      \* clock of the database
    rows,       \* table outbox_events
    queue,      \* copies the event queue has accepted, in order
    pc,         \* where each dispatcher is in DispatchNext
    held,       \* the event a dispatcher has claimed
    tries,      \* the attempts its claim returned
    readAt,     \* the clock it read before it claimed
    faults      \* failures so far

vars == << clock, rows, queue, pc, held, tries, readAt, faults >>

(* A time column that is NULL, and the row of an event nobody recorded yet. *)
Null == 0
Row == [ recorded : BOOLEAN, occurredAt : Nat, attempts : Nat, next : Nat,
         claimedBy : Dispatchers \cup {None}, claimedUntil : Nat, publishedAt : Nat ]
NoRow == [ recorded |-> FALSE, occurredAt |-> 0, attempts |-> 0, next |-> 0,
           claimedBy |-> None, claimedUntil |-> Null, publishedAt |-> Null ]

Copy == [ event : Events, at : Nat ]

(* The one type invariant of this module. *)
TypeOK ==
    /\ clock \in Nat
    /\ rows \in [Events -> Row]
    /\ queue \in Seq(Copy)
    /\ pc \in [Dispatchers -> {"idle", "claim", "publish", "mark", "retry"}]
    /\ held \in [Dispatchers -> Events \cup {None}]
    /\ tries \in [Dispatchers -> Nat]
    /\ readAt \in [Dispatchers -> Nat]
    /\ faults \in Nat

Init ==
    /\ clock = 1
    /\ rows = [e \in Events |-> NoRow]
    /\ queue = << >>
    /\ pc = [d \in Dispatchers |-> "idle"]
    /\ held = [d \in Dispatchers |-> None]
    /\ tries = [d \in Dispatchers |-> 0]
    /\ readAt = [d \in Dispatchers |-> 0]
    /\ faults = 0

-----------------------------------------------------------------------------
(* OutboxRepository.Create, committed with the change it tells of.  The first
   attempt is due from the start of that transaction, which the event's own
   time may follow.                                                        *)
Record(e) ==
    /\ ~rows[e].recorded
    /\ \E began, occurred \in 1 .. clock :
          /\ began <= occurred /\ clock - began <= MaxTransaction
          /\ rows' = [rows EXCEPT ![e] = [NoRow EXCEPT !.recorded = TRUE,
                                          !.occurredAt = occurred, !.next = began]]
    /\ UNCHANGED << clock, queue, pc, held, tries, readAt, faults >>

(* DispatchNext begins: the lease will count from here. *)
ReadClock(d) ==
    /\ pc[d] = "idle"
    /\ readAt' = [readAt EXCEPT ![d] = clock]
    /\ pc' = [pc EXCEPT ![d] = "claim"]
    /\ UNCHANGED << clock, rows, queue, held, tries, faults >>

(* Mutant: a claim is never taken over. *)
BugClaimForever(e) == rows[e].claimedBy = None

Unclaimed(e) == rows[e].claimedBy = None \/ rows[e].claimedUntil <= clock

Available(e) ==
    rows[e].recorded /\ rows[e].publishedAt = Null /\ rows[e].next <= clock /\ Unclaimed(e)

(* ORDER BY next_attempt_at, occurred_at. *)
Before(e, f) ==
    \/ rows[e].next < rows[f].next
    \/ rows[e].next = rows[f].next /\ rows[e].occurredAt <= rows[f].occurredAt

ClaimPending(d, e) ==
    /\ pc[d] = "claim"
    /\ Available(e)
    /\ \A f \in Events : Available(f) => Before(e, f)
    /\ rows' = [rows EXCEPT ![e] =
                  [rows[e] EXCEPT !.attempts = @ + 1, !.claimedBy = d,
                                  !.claimedUntil = readAt[d] + Lease]]
    /\ held' = [held EXCEPT ![d] = e]
    /\ tries' = [tries EXCEPT ![d] = rows[e].attempts + 1]
    /\ pc' = [pc EXCEPT ![d] = "publish"]
    /\ UNCHANGED << clock, queue, readAt, faults >>

(* DispatchNext is over: the loop comes back for the next event. *)
Return(d) ==
    /\ pc' = [pc EXCEPT ![d] = "idle"]
    /\ held' = [held EXCEPT ![d] = None]
    /\ tries' = [tries EXCEPT ![d] = 0]
    /\ readAt' = [readAt EXCEPT ![d] = 0]
    /\ UNCHANGED clock

NothingPending(d) ==
    /\ pc[d] = "claim"
    /\ \A e \in Events : ~Available(e)
    /\ Return(d)
    /\ UNCHANGED << rows, queue, faults >>

(* The FIFO queue drops a copy whose deduplication id it remembers. *)
Remembered(e) ==
    \E i \in 1 .. Len(queue) : queue[i].event = e /\ clock < queue[i].at + DedupWindow
Accept(e) ==
    queue' = IF Remembered(e) THEN queue ELSE Append(queue, [event |-> e, at |-> clock])

Publish(d) ==
    /\ pc[d] = "publish"
    /\ Accept(held[d])
    /\ pc' = [pc EXCEPT ![d] = "mark"]
    /\ UNCHANGED << clock, rows, held, tries, readAt, faults >>

(* Mutant: the error of Publish is not looked at. *)
BugIgnoreError(d) ==
    /\ pc[d] = "publish"
    /\ faults < MaxFaults
    /\ faults' = faults + 1
    /\ Accept(held[d]) \/ UNCHANGED queue
    /\ pc' = [pc EXCEPT ![d] = "mark"]
    /\ UNCHANGED << clock, rows, held, tries, readAt >>

(* Publish returns an error, whether or not the queue took the message. *)
PublishFails(d) ==
    /\ pc[d] = "publish"
    /\ faults < MaxFaults
    /\ faults' = faults + 1
    /\ Accept(held[d]) \/ UNCHANGED queue
    /\ pc' = [pc EXCEPT ![d] = "retry"]
    /\ UNCHANGED << clock, rows, held, tries, readAt >>

(* Mutant: the row is updated by its id alone. *)
BugAnyOwner(d) == rows[held[d]].publishedAt = Null

(* The WHERE of both updates; without it the update finds no row. *)
Owns(d) == rows[held[d]].claimedBy = d /\ rows[held[d]].publishedAt = Null

MarkPublished(d) ==
    /\ pc[d] = "mark"
    /\ rows' = IF ~Owns(d) THEN rows
               ELSE [rows EXCEPT ![held[d]] =
                       [@ EXCEPT !.publishedAt = clock, !.claimedBy = None,
                                 !.claimedUntil = Null]]
    /\ Return(d)
    /\ UNCHANGED << queue, faults >>

(* The delay doubles with every attempt after the first; the loop gives up at
   the maximum as soon as one more doubling would reach it.                *)
doubled[attempts \in Nat] ==
    IF attempts <= 1 THEN InitialRetryDelay ELSE 2 * doubled[attempts - 1]

outboxRetryDelay(attempts) ==
    IF attempts <= 1 THEN InitialRetryDelay
    ELSE IF doubled[attempts] \in 0 .. MaxRetryDelay THEN doubled[attempts]
    ELSE MaxRetryDelay

ScheduleRetry(d) ==
    /\ pc[d] = "retry"
    /\ rows' = IF ~Owns(d) THEN rows
               ELSE [rows EXCEPT ![held[d]] =
                       [@ EXCEPT !.next = clock + outboxRetryDelay(tries[d]),
                                 !.claimedBy = None, !.claimedUntil = Null]]
    /\ Return(d)
    /\ UNCHANGED << queue, faults >>

(* The instance dies, is shut down or loses the database: whatever it was
   about to do next is not done, and the claim stays behind.               *)
Crash(d) ==
    /\ pc[d] # "idle"
    /\ faults < MaxFaults
    /\ faults' = faults + 1
    /\ Return(d)
    /\ UNCHANGED << rows, queue >>

Tick ==
    /\ clock < MaxClock
    /\ clock' = clock + 1
    /\ UNCHANGED << rows, queue, pc, held, tries, readAt, faults >>

Dispatch(d) ==
    \/ ReadClock(d) \/ NothingPending(d) \/ Publish(d) \/ PublishFails(d)
    \/ MarkPublished(d) \/ ScheduleRetry(d)
    \/ \E e \in Events : ClaimPending(d, e)

Next ==
    \/ \E e \in Events : Record(e)
    \/ \E d \in Dispatchers : Dispatch(d) \/ Crash(d)
    \/ Tick

Spec == Init /\ [][Next]_vars

(* Time passes, and an instance's loop calls DispatchNext for ever. *)
Fairness == WF_vars(Tick) /\ \A d \in Dispatchers : WF_vars(Dispatch(d))

FairSpec == Spec /\ Fairness

-----------------------------------------------------------------------------
(***************************************************************************)
(* Properties.                                                             *)
(***************************************************************************)

Holding(d) == pc[d] \in {"publish", "mark", "retry"}
Sent(e) == \E i \in 1 .. Len(queue) : queue[i].event = e

(* While the lease it asked for runs, a dispatcher is the only one at work on
   its event: the claim in the table is its own and nobody has published the
   event, however slow or dead the others are.                             *)
LeaseIsExclusive ==
    \A d \in Dispatchers : Holding(d) /\ clock < readAt[d] + Lease =>
        /\ rows[held[d]].claimedBy = d
        /\ rows[held[d]].publishedAt = Null
        /\ \A f \in Dispatchers \ {d} :
              Holding(f) /\ held[f] = held[d] => clock >= readAt[f] + Lease

(* At least once: an event is confirmed only when the queue has a copy of it,
   also after failures whose outcome the dispatcher did not learn.         *)
PublishedWasSent ==
    \A e \in Events : rows[e].publishedAt # Null => Sent(e)

(* Beyond the horizon of the model: not due, or claimed, until after it. *)
Postponed(e) ==
    rows[e].next > MaxClock \/ (rows[e].claimedBy # None /\ rows[e].claimedUntil > MaxClock)

(* Every committed event is published in the end, whoever dies on the way: it
   is confirmed, or its next attempt lies beyond the bounded clock.        *)
EventsLeave ==
    \A e \in Events :
        rows[e].recorded ~> (rows[e].publishedAt # Null \/ Postponed(e))
=============================================================================

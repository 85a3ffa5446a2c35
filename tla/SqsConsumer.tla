---------------------------- MODULE SqsConsumer ----------------------------
(***************************************************************************)
(* The inbound queue: consumers receive batches of wager messages from an  *)
(* SQS FIFO queue, handle each in one database transaction that the inbox  *)
(* makes idempotent, and delete it, leave it to come back, or move it to   *)
(* the dead letter queue.                                                  *)
(*                                                                         *)
(* Time is abstracted: a message in flight may come back at any moment.    *)
(* That covers the visibility timeout, which may end while a consumer is   *)
(* still at work, and every delay release chooses.  WagerService.Process   *)
(* is one step that succeeds or fails; WagerService is its model.          *)
(***************************************************************************)
EXTENDS Naturals, FiniteSets

CONSTANTS
    N,              \* messages 1 .. N, in the order they were sent
    Group,          \* the message group (the wallet) of each of them
    Id, Body,       \* messageId of its envelope, and its body
    Unreadable,     \* messages parseWagerMessage or the provider check refuses
    Consumers,      \* one poll loop per service instance
    None,
    BatchSize,      \* receiveBatchSize
    MaxReceive,     \* maxReceiveCount of the queue's redrive policy
    MaxFaults       \* bound on failures

Messages == 1 .. N
Ids == {Id[m] : m \in Messages}
Bodies == {Body[m] : m \in Messages}

ASSUME NAssumption == N \in Nat
ASSUME LimitAssumption ==
    BatchSize \in Nat \ {0} /\ MaxReceive \in Nat \ {0} /\ MaxFaults \in Nat
ASSUME NoneAssumption == None \notin Consumers \cup Bodies
ASSUME UnreadableAssumption == Unreadable \subseteq Messages

VARIABLES
    place,      \* where each message is: "ready", "flight" or "gone"
    receives,   \* how often it was received; also its newest receipt handle
    dlq,        \* the messages of the dead letter queue
    inbox,      \* the body hash of each completed row of inbox_messages
    inserting,  \* who has an uncommitted inbox row
    handled,    \* transactions that processed and completed each messageId
    pc,         \* where each consumer is in PollOnce
    receipt,    \* the receipt handles of what is left of its batch; 0: none
    faults      \* failures so far

vars == << place, receives, dlq, inbox, inserting, handled, pc, receipt, faults >>

NoReceipts == [m \in Messages |-> 0]

(* The one type invariant of this module. *)
TypeOK ==
    /\ place \in [Messages -> {"ready", "flight", "gone"}]
    /\ receives \in [Messages -> 0 .. MaxReceive]
    /\ dlq \subseteq Messages
    /\ inbox \in [Ids -> Bodies \cup {None}]
    /\ inserting \in [Ids -> Consumers \cup {None}]
    /\ handled \in [Ids -> Nat]
    /\ pc \in [Consumers -> {"poll", "next", "process", "commit", "delete", "bury", "drop"}]
    /\ receipt \in [Consumers -> [Messages -> 0 .. MaxReceive]]
    /\ faults \in Nat

Init ==
    /\ place = [m \in Messages |-> "ready"]
    /\ receives = [m \in Messages |-> 0]
    /\ dlq = {}
    /\ inbox = [i \in Ids |-> None]
    /\ inserting = [i \in Ids |-> None]
    /\ handled = [i \in Ids |-> 0]
    /\ pc = [c \in Consumers |-> "poll"]
    /\ receipt = [c \in Consumers |-> NoReceipts]
    /\ faults = 0

-----------------------------------------------------------------------------
(***************************************************************************)
(* The FIFO queue.                                                         *)
(***************************************************************************)

(* A message may be delivered when nothing of its group is in flight and no
   earlier message of its group is left behind.                            *)
InOrder(B) ==
    \A m \in B, n \in Messages : Group[n] = Group[m] =>
        /\ place[n] # "flight"
        /\ n < m /\ place[n] = "ready" => n \in B

Deliverable(m) == place[m] = "ready" /\ receives[m] < MaxReceive

(* A message in flight comes back: its visibility timeout ended. *)
Expire(m) ==
    /\ place[m] = "flight"
    /\ place' = [place EXCEPT ![m] = "ready"]
    /\ UNCHANGED << receives, dlq, inbox, inserting, handled, pc, receipt, faults >>

(* Mutant: the queue is provisioned without a redrive policy. *)
BugNoRedrive(m) == FALSE /\ UNCHANGED vars

(* The redrive policy, for a message received too often. *)
Redrive(m) ==
    /\ place[m] = "ready" /\ receives[m] = MaxReceive
    /\ InOrder({m})
    /\ place' = [place EXCEPT ![m] = "gone"]
    /\ dlq' = dlq \cup {m}
    /\ UNCHANGED << receives, inbox, inserting, handled, pc, receipt, faults >>

-----------------------------------------------------------------------------
(***************************************************************************)
(* PollOnce: a batch is worked off in order.                               *)
(***************************************************************************)

Receive(c, B) ==
    /\ pc[c] = "poll"
    /\ B # {} /\ Cardinality(B) <= BatchSize
    /\ \A m \in B : Deliverable(m)
    /\ InOrder(B)
    /\ place' = [m \in Messages |-> IF m \in B THEN "flight" ELSE place[m]]
    /\ receives' = [m \in Messages |-> IF m \in B THEN receives[m] + 1 ELSE receives[m]]
    /\ receipt' = [receipt EXCEPT ![c] =
                     [m \in Messages |-> IF m \in B THEN receives[m] + 1 ELSE 0]]
    /\ pc' = [pc EXCEPT ![c] = "next"]
    /\ UNCHANGED << dlq, inbox, inserting, handled, faults >>

Batch(c) == {m \in Messages : receipt[c][m] # 0}
Message(c) == CHOOSE m \in Batch(c) : \A n \in Batch(c) : m <= n

(* processMessage returned nil: on to the next message. *)
GoOn(c) ==
    /\ receipt' = [receipt EXCEPT ![c][Message(c)] = 0]
    /\ pc' = [pc EXCEPT ![c] = IF Batch(c) = {Message(c)} THEN "poll" ELSE "next"]

(* Mutant: only the failed message waits, the rest of the batch goes on. *)
BugSkipFailed(c) == GoOn(c)

(* It returned an error, or the consumer stops: this message and the rest of
   the batch are released, to come back with their visibility.             *)
GiveUp(c) ==
    /\ receipt' = [receipt EXCEPT ![c] = NoReceipts]
    /\ pc' = [pc EXCEPT ![c] = "poll"]

Goto(c, label) == pc' = [pc EXCEPT ![c] = label] /\ UNCHANGED receipt

-----------------------------------------------------------------------------
(***************************************************************************)
(* Handle: inbox, financial changes and outbox in one transaction.         *)
(***************************************************************************)

(* The message is malformed or its provider not allowed: a permanent error. *)
Refuse(c) ==
    /\ pc[c] = "next" /\ Message(c) \in Unreadable
    /\ Goto(c, "bury")
    /\ UNCHANGED << place, receives, dlq, inbox, inserting, handled, faults >>

(* Mutant: the inbox is written but never consulted. *)
BugForgetInbox(m) == FALSE

Registered(m) == inbox[Id[m]] # None

(* inbox.Register: INSERT ... ON CONFLICT DO NOTHING waits for an uncommitted
   row of the same id.  A row is only ever committed completed.            *)
Register(c) ==
    /\ pc[c] = "next" /\ Message(c) \notin Unreadable
    /\ LET m == Message(c) IN
       /\ inserting[Id[m]] = None
       /\ inserting' = IF Registered(m) THEN inserting ELSE [inserting EXCEPT ![Id[m]] = c]
       /\ Goto(c, IF ~Registered(m) THEN "process"
                  ELSE IF inbox[Id[m]] = Body[m] THEN "delete" ELSE "bury")
    /\ UNCHANGED << place, receives, dlq, inbox, handled, faults >>

(* service.Process: the transaction goes on to commit ... *)
Process(c) ==
    /\ pc[c] = "process"
    /\ Goto(c, "commit")
    /\ UNCHANGED << place, receives, dlq, inbox, inserting, handled, faults >>

Rollback(c) ==
    inserting' = [i \in Ids |-> IF inserting[i] = c THEN None ELSE inserting[i]]

(* ... or a statement of it, or its commit, fails for good and it is rolled
   back: a validation error, an idempotency conflict or any other error that
   is not transient.                                                       *)
Reject(c) ==
    /\ \/ pc[c] = "next" /\ Message(c) \notin Unreadable
       \/ pc[c] \in {"process", "commit"}
    /\ Rollback(c)
    /\ Goto(c, "bury")
    /\ UNCHANGED << place, receives, dlq, inbox, handled, faults >>

(* WithinTransaction tries again what a serialization failure or a deadlock has
   rolled back; MaxFaults stands for the number of its attempts.           *)
Retry(c) ==
    /\ pc[c] \in {"process", "commit"} /\ faults < MaxFaults
    /\ faults' = faults + 1
    /\ Rollback(c)
    /\ Goto(c, "next")
    /\ UNCHANGED << place, receives, dlq, inbox, handled >>

(* inbox.Complete and the commit of everything. *)
Commit(c) ==
    /\ pc[c] = "commit"
    /\ LET m == Message(c) IN
       /\ inbox' = [inbox EXCEPT ![Id[m]] = Body[m]]
       /\ handled' = [handled EXCEPT ![Id[m]] = @ + 1]
    /\ Rollback(c)
    /\ Goto(c, "delete")
    /\ UNCHANGED << place, receives, dlq, faults >>

-----------------------------------------------------------------------------
(***************************************************************************)
(* What becomes of the message.                                            *)
(***************************************************************************)

(* DeleteMessage works only with the newest receipt of a message in flight. *)
ReceiptHolds(c) ==
    place[Message(c)] = "flight" /\ receives[Message(c)] = receipt[c][Message(c)]

(* DeleteMessage, after a commit or after the copy for the dead letter queue;
   a receipt that has expired deletes nothing, with or without an error.   *)
Delete(c) ==
    /\ pc[c] \in {"delete", "drop"}
    /\ IF ReceiptHolds(c)
       THEN GoOn(c) /\ place' = [place EXCEPT ![Message(c)] = "gone"]
       ELSE (GoOn(c) \/ GiveUp(c)) /\ UNCHANGED place
    /\ UNCHANGED << receives, dlq, inbox, inserting, handled, faults >>

(* Mutant: moveToDLQ does not look at the error of SendMessage. *)
BugIgnoreSendError(c) ==
    /\ pc[c] = "bury"
    /\ dlq' \in {dlq, dlq \cup {Message(c)}}
    /\ Goto(c, "drop")
    /\ UNCHANGED << place, receives, inbox, inserting, handled, faults >>

(* moveToDLQ: the copy is sent before the original is deleted. *)
Bury(c) ==
    /\ pc[c] = "bury"
    /\ dlq' = dlq \cup {Message(c)}
    /\ Goto(c, "drop")
    /\ UNCHANGED << place, receives, inbox, inserting, handled, faults >>

(* A call fails transiently, its answer is lost, the consumer is stopped or it
   dies: an open transaction is rolled back, what is done stays done.      *)
Fail(c) ==
    /\ pc[c] # "poll" /\ faults < MaxFaults
    /\ faults' = faults + 1
    /\ Rollback(c)
    /\ GiveUp(c)
    /\ UNCHANGED << place, receives, dlq, inbox, handled >>

(* A long poll that brings nothing. *)
PollEmpty(c) == pc[c] = "poll" /\ UNCHANGED vars

Consume(c) ==
    \/ \E B \in SUBSET Messages : Receive(c, B)
    \/ Refuse(c) \/ Register(c) \/ Process(c) \/ Reject(c) \/ Commit(c)
    \/ Delete(c) \/ Bury(c)

Next ==
    \/ \E m \in Messages : Expire(m) \/ Redrive(m)
    \/ \E c \in Consumers : Consume(c) \/ Retry(c) \/ Fail(c) \/ PollEmpty(c)

Spec == Init /\ [][Next]_vars

(* Consumers poll for ever, and the queue keeps its promises. *)
Fairness ==
    /\ \A c \in Consumers : WF_vars(Consume(c))
    /\ \A m \in Messages : WF_vars(Expire(m)) /\ WF_vars(Redrive(m))

FairSpec == Spec /\ Fairness

-----------------------------------------------------------------------------
(***************************************************************************)
(* Properties.                                                             *)
(***************************************************************************)

(* One transaction at most processes a messageId, however often and to however
   many consumers at once the queue delivers it.                           *)
HandledOnce == \A i \in Ids : handled[i] <= 1

Settled(m) == m \in dlq \/ inbox[Id[m]] = Body[m]

(* A message leaves the queue only when its outcome is committed or a copy of
   it is in the dead letter queue.                                         *)
NothingLost == \A m \in Messages : place[m] = "gone" => Settled(m)

(* The order of a wallet's messages survives failures, redeliveries and
   competing consumers: when a message takes effect (its id being nobody
   else's), those sent before it in its group have, or are dead letters.   *)
GroupOrder ==
    \A m, n \in Messages :
        /\ m < n /\ Group[m] = Group[n]
        /\ inbox[Id[n]] = Body[n]
        /\ \A k \in Messages : Id[k] = Id[n] => k = n
        => Settled(m)

(* Every message leaves the queue in the end. *)
MessagesLeave == \A m \in Messages : <>(place[m] = "gone")
=============================================================================

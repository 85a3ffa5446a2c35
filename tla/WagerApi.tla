------------------------------ MODULE WagerApi ------------------------------
(***************************************************************************)
(* The HTTP API on top of the transaction manager: clients send requests,  *)
(* the handlers authorise them and run the services' closures in database  *)
(* transactions that are retried after a conflict, and every error becomes *)
(* a status.  Transactions fail, their commits succeed without an answer,  *)
(* instances die, and clients send again what got 503 or no answer.        *)
(*                                                                         *)
(* WagerService has what happens inside Process: here a closure reads the  *)
(* committed rows and inserts one of its own, in one step, and waits for   *)
(* the uncommitted row of another transaction with the same unique key.    *)
(***************************************************************************)
EXTENDS Naturals, FiniteSets

CONSTANTS
    Calls,          \* requests of clients; a resent request is the same call
    Request,        \* [Calls -> Requests]: what each of them carries
    Mixes,          \* sets of calls that are made together
    Malformed,      \* bodies the binding or the required-field check refuses
    Invalid,        \* bodies the parser or newTransaction refuses
    Mismatched,     \* bodies whose wallet lockWallet or a foreign key refuses
    Referring,      \* bodies that name a reference
    None,
    MaxAttempts,    \* maxTransactionAttempts
    MaxFaults       \* bound on failures

Operations == {"create", "get", "find", "open"}

(* A request carries a token; none, or one that go-oidc does not accept, is
   one that is not signed.                                                 *)
NoToken == [signed |-> FALSE, type |-> None, subject |-> None, party |-> None,
            provider |-> None, roles |-> {}]

ASSUME LimitAssumption == MaxAttempts \in Nat \ {0} /\ MaxFaults \in Nat
ASSUME RequestAssumption ==
    /\ \A c \in Calls : Request[c].op \in Operations
    /\ Mixes \subseteq SUBSET Calls

Statuses == {"PENDING", "PENDING_REFERENCE", "PROCESSED", "REJECTED", "FAILED"}

(* wager_transactions and wallets; None is no row. *)
StoredRow ==
    LET posted == {Request[c] : c \in {d \in Calls : Request[d].op = "create"}}
    IN  [id : Calls \X Nat, provider : {q.provider : q \in posted}, key : {q.key : q \in posted},
         ext : {q.ext : q \in posted}, body : {q.body : q \in posted}, status : Statuses]
StoredWallet ==
    LET opened == {Request[c] : c \in {d \in Calls : Request[d].op = "open"}}
    IN  [id : Calls \X Nat, player : {q.body : q \in opened}]

ASSUME NoneAssumption == None \notin StoredRow \cup StoredWallet

VARIABLES
    made,       \* the calls clients make in this behaviour
    rows,       \* committed rows of wager_transactions
    wallets,    \* committed wallets
    pc,         \* where each call is
    sends,      \* how often it was sent
    attempt,    \* the attempt of its transaction
    held,       \* the row its open transaction has inserted, or None
    result,     \* what the closure has left for the caller
    answers,    \* every answer the service gave, delivered or not
    faults

vars == << made, rows, wallets, pc, sends, attempt, held, result, answers, faults >>

Principal(c) == [provider |-> Request[c].token.provider, roles |-> Request[c].token.roles]
Id(c) == << c, sends[c] >>      \* the uuid.New() of a sending

(* What a call ends with: a status, the row shown, the replay flag, and what
   went wrong.                                                             *)
Ok(status, row, replay) == [status |-> status, row |-> row, replay |-> replay, cause |-> "none"]
Error(status, cause) == [status |-> status, row |-> None, replay |-> FALSE, cause |-> cause]
NoResult == Error(0, "none")

Init ==
    /\ made \in Mixes
    /\ rows = {} /\ wallets = {}
    /\ pc = [c \in Calls |-> "idle"]
    /\ sends = [c \in Calls |-> 0]
    /\ attempt = [c \in Calls |-> 0]
    /\ held = [c \in Calls |-> None]
    /\ result = [c \in Calls |-> NoResult]
    /\ answers = {}
    /\ faults = 0

-----------------------------------------------------------------------------
(***************************************************************************)
(* Authentication, authorisation and the checks of the handlers.           *)
(***************************************************************************)

(* Keycloak's Verify: a signed access token with a subject and a client. *)
Verified(token) ==
    token.signed /\ token.type = "Bearer" /\ token.subject # None /\ token.party # None

IsProvider(p) == p.provider # None /\ "provider" \in p.roles
IsInternal(p) == "internal" \in p.roles

Authorised(c) == IF Request[c].op = "open" THEN IsInternal(Principal(c)) ELSE IsProvider(Principal(c))

(* The provider a request names is the one of its token. *)
SameProvider(c) == Request[c].op \in {"create", "find"} => Request[c].provider = Principal(c).provider

(* The refusal of a request before any service is called; 0: none. *)
Refusal(c) ==
    CASE ~Verified(Request[c].token) -> 401
      [] ~Authorised(c) -> 403
      [] Request[c].op \in {"create", "open"} /\ Request[c].body \in Malformed -> 400
      [] ~SameProvider(c) -> 403
      [] Request[c].op = "create" /\ Request[c].key = None -> 400
      [] OTHER -> 0

Answer(c, res) ==
    /\ pc' = [pc EXCEPT ![c] = "answered"]
    /\ result' = [result EXCEPT ![c] = res]
    /\ answers' = answers \cup {[id |-> << c, sends'[c] >>, call |-> c, res |-> res]}

(* A client sends what it has not sent yet, or heard nothing of, or was told to
   send again.                                                             *)
ToldToSend(c) == pc[c] = "idle" \/ (pc[c] = "answered" /\ result[c].status = 503)

(* A request reaches an instance, and the handler checks it. *)
Send(c) ==
    /\ ToldToSend(c)
    /\ sends' = [sends EXCEPT ![c] = @ + 1]
    /\ attempt' = [attempt EXCEPT ![c] = 1]
    /\ IF Refusal(c) # 0
       THEN Answer(c, Error(Refusal(c), "input"))
       ELSE /\ pc' = [pc EXCEPT ![c] = "begin"]
            /\ result' = [result EXCEPT ![c] = NoResult]
            /\ UNCHANGED answers
    /\ UNCHANGED << made, rows, wallets, held, faults >>

(* The signing keys cannot be downloaded: Verify fails, whatever the token. *)
KeysUnavailable(c) ==
    /\ faults < MaxFaults /\ faults' = faults + 1
    /\ ToldToSend(c)
    /\ sends' = [sends EXCEPT ![c] = @ + 1]
    /\ UNCHANGED << made, rows, wallets, attempt, held >>
    /\ Answer(c, Error(401, "keys"))

-----------------------------------------------------------------------------
(***************************************************************************)
(* WithinTransaction and the closures.                                     *)
(***************************************************************************)

Provider(c) == IF Request[c].op = "create" THEN Request[c].provider ELSE Principal(c).provider
Row(c, status) ==
    [id |-> Id(c), provider |-> Provider(c), key |-> Request[c].key,
     ext |-> Request[c].ext, body |-> Request[c].body, status |-> status]
Wallet(c) == [id |-> Id(c), player |-> Request[c].body]

Clashes(r, c) ==
    /\ r.provider = Provider(c)
    /\ r.key = Request[c].key \/ r.ext = Request[c].ext

(* The insert waits for a transaction that holds the same unique key. *)
Unblocked(c) ==
    \A d \in Calls \ {c} : held[d] # None =>
        IF Request[d].op = "create"
        THEN Request[c].op = "create" => ~Clashes(held[d], c)
        ELSE Request[c].op = "open" => held[d].player # Request[c].body

(* 202 while the transaction waits for its reference. *)
StatusCode(row) == IF row.status = "PENDING_REFERENCE" THEN 202 ELSE 200

Decisions(c) ==
    {"PROCESSED", "REJECTED"}
        \cup (IF Request[c].body \in Referring THEN {"PENDING_REFERENCE"} ELSE {})

(* Mutant: the external id is looked up before the key. *)
BugExternalFirst(c) ==
    LET byKey == {r \in rows : r.provider = Provider(c) /\ r.key = Request[c].key}
        byExt == {r \in rows : r.provider = Provider(c) /\ r.ext = Request[c].ext}
        row == CHOOSE r \in byKey : TRUE
    IN  IF byExt # {} THEN Error(409, "external")
        ELSE IF row.body = Request[c].body THEN Ok(StatusCode(row), row.id, TRUE)
        ELSE Error(409, "idempotency")

(* resolveExistingTransaction *)
Existing(c) ==
    LET byKey == {r \in rows : r.provider = Provider(c) /\ r.key = Request[c].key}
        row == CHOOSE r \in byKey : TRUE
    IN  IF byKey = {} THEN Error(409, "external")
        ELSE IF row.body = Request[c].body THEN Ok(StatusCode(row), row.id, TRUE)
        ELSE Error(409, "idempotency")

(* The closure leaves a result, and a row when it inserted one. *)
Leaves(c, row, res) ==
    /\ held' = [held EXCEPT ![c] = row]
    /\ result' = [result EXCEPT ![c] = res]
    /\ pc' = [pc EXCEPT ![c] = "end"]
    /\ UNCHANGED << made, rows, wallets, sends, attempt, answers, faults >>

(* WagerService.Process: validation, the insert, and what follows it. *)
Process(c) ==
    /\ pc[c] = "begin" /\ Request[c].op = "create" /\ Unblocked(c)
    /\ IF Request[c].body \in Invalid THEN Leaves(c, None, Error(422, "input"))
       ELSE IF \E r \in rows : Clashes(r, c) THEN Leaves(c, None, Existing(c))
       ELSE IF Request[c].body \in Mismatched
            THEN Leaves(c, Row(c, "PENDING"), Error(422, "input"))
       ELSE \E status \in Decisions(c) :
                Leaves(c, Row(c, status), Ok(StatusCode(Row(c, status)), Id(c), FALSE))

(* WalletService.Create *)
OpenWallet(c) ==
    /\ pc[c] = "begin" /\ Request[c].op = "open" /\ Unblocked(c)
    /\ IF Request[c].body \in Invalid THEN Leaves(c, None, Error(422, "input"))
       ELSE IF \E w \in wallets : w.player = Request[c].body
            THEN Leaves(c, None, Error(409, "wallet"))
       ELSE Leaves(c, Wallet(c), Ok(201, Id(c), FALSE))

(* Mutant: a transaction is committed although its closure failed. *)
BugCommitAnyway(c) == held[c] # None

(* BeginTxFunc commits unless the closure returned an error. *)
Commits(c) == held[c] # None /\ result[c].cause = "none"

Store(c) ==
    /\ rows' = IF Commits(c) /\ Request[c].op = "create" THEN rows \cup {held[c]} ELSE rows
    /\ wallets' = IF Commits(c) /\ Request[c].op = "open" THEN wallets \cup {held[c]} ELSE wallets

Release(c) == held' = [held EXCEPT ![c] = None]

(* The transaction ends, and the call with it. *)
End(c) ==
    /\ pc[c] = "end"
    /\ UNCHANGED << made, sends, attempt, faults >>
    /\ Store(c)
    /\ Release(c)
    /\ Answer(c, result[c])

-----------------------------------------------------------------------------
(***************************************************************************)
(* Failures.                                                               *)
(***************************************************************************)

(* "conflict": a deadlock or a serialization failure; "timeout": another
   SQLSTATE of an overloaded database, such as the end of lock_timeout or
   statement_timeout; "network": a slow or refused connection; "broken": one
   that ends within a message (io.ErrUnexpectedEOF); "bug": else.          *)
Failures == {"conflict", "timeout", "network", "broken", "bug"}

(* Mutant: whatever is transient is tried again. *)
BugRetryTransient(failure) == failure # "bug"

isRetryableConflict(failure) == failure = "conflict"

(* Mutant: a conflict that outlasts the attempts is an internal error. *)
BugConflictIsFinal(failure) == failure \in {"timeout", "network", "broken"}

isUnavailable(failure) ==
    isRetryableConflict(failure) \/ failure \in {"timeout", "network", "broken"}

(* resolveError, for a call within a transaction and for one without: of these
   errors IsTransient knows the network's only, and what isUnavailable marks. *)
Within(failure) == Error(IF isUnavailable(failure) THEN 503 ELSE 500, failure)
Without(failure) == Error(IF failure = "network" THEN 503 ELSE 500, failure)

(* An attempt has failed: another one follows a pause, or the call ends. *)
AfterFailure(c, failure) ==
    IF isRetryableConflict(failure) /\ attempt[c] < MaxAttempts
    THEN pc' = [pc EXCEPT ![c] = "pause"] /\ UNCHANGED << result, answers >>
    ELSE Answer(c, Within(failure))

(* A statement or the commit of an attempt fails, and it is rolled back. *)
Fail(c, failure) ==
    /\ faults < MaxFaults /\ faults' = faults + 1
    /\ pc[c] = "end" \/ (pc[c] = "begin" /\ Request[c].op \in {"create", "open"})
    /\ UNCHANGED << made, rows, wallets, sends, attempt >>
    /\ Release(c)
    /\ AfterFailure(c, failure)

(* The transaction commits and the connection breaks before the answer. *)
CommitLost(c) ==
    /\ faults < MaxFaults /\ faults' = faults + 1
    /\ pc[c] = "end" /\ Commits(c)
    /\ UNCHANGED << made, sends, attempt >>
    /\ Store(c)
    /\ Release(c)
    /\ AfterFailure(c, "network")

(* waitRetry *)
Retry(c) ==
    /\ pc[c] = "pause"
    /\ attempt' = [attempt EXCEPT ![c] = @ + 1]
    /\ pc' = [pc EXCEPT ![c] = "begin"]
    /\ UNCHANGED << made, rows, wallets, sends, held, result, answers, faults >>

(* The context ends during the pause. *)
StopRetrying(c) ==
    /\ faults < MaxFaults /\ faults' = faults + 1
    /\ pc[c] = "pause"
    /\ UNCHANGED << made, rows, wallets, sends, attempt, held >>
    /\ Answer(c, Within("conflict"))

(* The instance dies, or the client's connection breaks before the answer. *)
Die(c) ==
    /\ faults < MaxFaults /\ faults' = faults + 1
    /\ pc[c] # "idle"
    /\ Release(c)
    /\ pc' = [pc EXCEPT ![c] = "idle"]
    /\ UNCHANGED << made, rows, wallets, sends, attempt, result, answers >>

-----------------------------------------------------------------------------
(***************************************************************************)
(* Reads, outside of any transaction.                                      *)
(***************************************************************************)

(* Mutant: a transaction is shown to whoever knows its id. *)
BugShowAny(c, r) == TRUE

(* GetByID hides the transactions of other providers. *)
Visible(c, r) == r.provider = Principal(c).provider

(* GetByID, of any transaction there is, or GetByExternalTransactionID. *)
Read(c) ==
    /\ pc[c] = "begin" /\ Request[c].op \in {"get", "find"}
    /\ UNCHANGED << made, rows, wallets, sends, attempt, held, faults >>
    /\ \/ /\ Request[c].op = "find" => ~\E r \in rows :
                r.provider = Provider(c) /\ r.ext = Request[c].ext
          /\ Answer(c, Error(404, "input"))
       \/ \E r \in rows :
             /\ IF Request[c].op = "get" THEN Visible(c, r)
                ELSE r.provider = Provider(c) /\ r.ext = Request[c].ext
             /\ Answer(c, Ok(200, r.id, FALSE))

ReadFails(c, failure) ==
    /\ faults < MaxFaults /\ faults' = faults + 1
    /\ pc[c] = "begin" /\ Request[c].op \in {"get", "find"}
    /\ UNCHANGED << made, rows, wallets, sends, attempt, held >>
    /\ Answer(c, Without(failure))

(* The retrier finishes a transaction that waited; WagerService has how. *)
Finish(r, status) ==
    /\ r.status = "PENDING_REFERENCE"
    /\ rows' = (rows \ {r}) \cup {[r EXCEPT !.status = status]}
    /\ UNCHANGED << made, wallets, pc, sends, attempt, held, result, answers, faults >>

Handle(c) ==
    Process(c) \/ OpenWallet(c) \/ End(c) \/ Retry(c) \/ Read(c)

Next ==
    \/ \E c \in made : Send(c) \/ KeysUnavailable(c) \/ Handle(c) \/ CommitLost(c) \/ StopRetrying(c) \/ Die(c)
    \/ \E c \in made, failure \in Failures : Fail(c, failure) \/ ReadFails(c, failure)
    \/ \E r \in rows, status \in {"PROCESSED", "REJECTED", "FAILED"} : Finish(r, status)

Spec == Init /\ [][Next]_vars

(* Clients need not send anything; who has begun does as Retry-After says. *)
Resend(c) == sends[c] > 0 /\ Send(c)

(* Instances run their handlers, and clients send again. *)
FairSpec == Spec /\ \A c \in Calls : WF_vars(Resend(c)) /\ WF_vars(Handle(c))

-----------------------------------------------------------------------------
(***************************************************************************)
(* Properties.                                                             *)
(***************************************************************************)

Succeeded(a) == a.res.status \in {200, 201, 202}
Wager(a) == Request[a.call].op # "open"

(* Every transaction the service has shown is committed and belongs to the
   provider of the token that asked, and one shown to POST is the one its key
   and body describe, whatever was retried, lost or resent.                *)
AnswersTrue ==
    \A a \in answers : Succeeded(a) =>
        IF Wager(a)
        THEN \E r \in rows :
               /\ r.id = a.res.row
               /\ r.provider = Principal(a.call).provider
               /\ Request[a.call].op = "create" =>
                    r.key = Request[a.call].key /\ r.body = Request[a.call].body
        ELSE \E w \in wallets : w.id = a.res.row

(* idempotentReplay tells the truth: FALSE for the sending that stored the
   transaction, TRUE for every other, however many attempts it took.       *)
ReplayFlagTrue ==
    \A a \in answers : Succeeded(a) /\ Request[a.call].op = "create" =>
        (a.res.replay <=> a.res.row # a.id)

Stored(id) == \E r \in rows \cup wallets : r.id = id

(* A refusal or an internal error leaves nothing behind. *)
RefusalsStoreNothing ==
    \A a \in answers : a.res.status \in {400, 401, 403, 404, 409, 422, 500} => ~Stored(a.id)

(* A conflict is reported only when another transaction really stands in the
   way: the same key with another body, or the same external id with another
   key.                                                                    *)
ConflictsReal ==
    \A a \in answers : Wager(a) /\ a.res.status = 409 =>
        \E r \in rows :
            /\ r.provider = Provider(a.call)
            /\ IF a.res.cause = "idempotency"
               THEN r.key = Request[a.call].key /\ r.body # Request[a.call].body
               ELSE r.ext = Request[a.call].ext /\ r.key # Request[a.call].key

(* The answer is about the request: not that of a transaction that failed by
   conflict, timeout or connection, which is worth sending again.  Not so of
   reads, and of the 401 of signing keys that cannot be downloaded.        *)
Definite(c) ==
    /\ pc[c] = "answered" /\ result[c].status # 503
    /\ Request[c].op \in {"create", "open"} =>
           result[c].cause \notin {"conflict", "timeout", "network", "broken"}

(* A client that sends again what got 503 or no answer gets a definite answer:
   transient failures of a transaction are never reported as final.        *)
ClientsAreAnswered == \A c \in Calls : <>[](sends[c] = 0 \/ Definite(c))
=============================================================================

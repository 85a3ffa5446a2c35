--------------------------- MODULE WagerApiProofs ---------------------------
(***************************************************************************)
(* Proofs that the answers of the API are true, for any calls, mixes of    *)
(* calls and number of failures.                                           *)
(*                                                                         *)
(* An answer is about one sending of one call.  The uuid of a sending is   *)
(* in no table while its transaction is open, and a transaction that ends  *)
(* leaves a result its caller can be given: both are needed for a replay   *)
(* flag that tells apart who stored a row, and both are what a retry after *)
(* a lost commit would break.                                              *)
(***************************************************************************)
EXTENDS WagerApi, TLAPS

InFlight == {"begin", "pause", "end"}

ApiTypes ==
    /\ made \subseteq Calls
    /\ pc \in [Calls -> {"idle", "answered"} \cup InFlight]
    /\ sends \in [Calls -> Nat]
    /\ rows \subseteq StoredRow
    /\ DOMAIN held = Calls /\ held = [c \in Calls |-> held[c]]
    /\ DOMAIN result = Calls /\ result = [c \in Calls |-> result[c]]

(* A sending is over: it was not the last, or its call has left the service. *)
Over(id) ==
    \E c \in Calls : \E n \in 0 .. sends[c] :
        id = << c, n >> /\ (pc[c] \in InFlight => n # sends[c])

(* What is stored or answered belongs to a sending that is over. *)
SendingsOver ==
    /\ \A r \in rows \cup wallets : Over(r.id)
    /\ \A a \in answers : a.call \in Calls /\ a.id[1] = a.call /\ Over(a.id)

(* Requests that the handler refuses never get to a service. *)
Accepted == \A c \in Calls : pc[c] \in InFlight => Refusal(c) = 0

(* The transaction res shows to a call is one of R. *)
ShowsRow(c, res, R) ==
    \E r \in R :
        /\ r.id = res.row
        /\ r.provider = Principal(c).provider
        /\ Request[c].op = "create" => r.key = Request[c].key /\ r.body = Request[c].body

(* One of R stands in the way of a call. *)
StandsInTheWay(c, res, R) ==
    \E r \in R :
        /\ r.provider = Provider(c)
        /\ IF res.cause = "idempotency"
           THEN r.key = Request[c].key /\ r.body # Request[c].body
           ELSE r.ext = Request[c].ext /\ r.key # Request[c].key

Success(res) == res.status \in {200, 201, 202}

(* The result res for the sending id of c is true of the rows R and wallets W. *)
TrueOf(c, id, res, R, W) ==
    /\ Success(res) =>
         IF Request[c].op # "open" THEN ShowsRow(c, res, R) ELSE \E w \in W : w.id = res.row
    /\ Success(res) /\ Request[c].op = "create" => (res.replay <=> res.row # id)
    /\ Request[c].op # "open" /\ res.status = 409 => StandsInTheWay(c, res, R)

RowsAfter(c) == IF Commits(c) /\ Request[c].op = "create" THEN rows \cup {held[c]} ELSE rows
WalletsAfter(c) == IF Commits(c) /\ Request[c].op = "open" THEN wallets \cup {held[c]} ELSE wallets

(* A closure has left a result that is true once its transaction commits. *)
Ready(c) ==
    /\ held[c] # None => held[c].id = Id(c)
    /\ held[c] # None /\ Request[c].op = "create" => held[c] \in StoredRow
    /\ Commits(c) => Success(result[c])
    /\ TrueOf(c, Id(c), result[c], RowsAfter(c), WalletsAfter(c))
ClosuresReady == \A c \in Calls : pc[c] = "end" => Ready(c)

(* Every answer is true of what is stored; a refusal has stored nothing. *)
Answered == \A a \in answers : TrueOf(a.call, a.id, a.res, rows, wallets)

ApiInv == ApiTypes /\ SendingsOver /\ Accepted /\ ClosuresReady /\ Answered /\ RefusalsStoreNothing

-----------------------------------------------------------------------------
(***************************************************************************)
(* What steps do.                                                          *)
(***************************************************************************)

(* Only c takes part. *)
Alone(c) ==
    \A d \in Calls \ {c} :
        pc'[d] = pc[d] /\ sends'[d] = sends[d] /\ held'[d] = held[d] /\ result'[d] = result[d]

(* A sending begins, and gets to a service or is refused. *)
Begins(c) ==
    /\ pc[c] \notin InFlight /\ sends' = [sends EXCEPT ![c] = @ + 1]
    /\ rows' = rows /\ wallets' = wallets
    /\ \/ pc'[c] = "begin" /\ answers' = answers /\ Refusal(c) = 0
       \/ \E status \in {400, 401, 403} : \E cause : Answer(c, Error(status, cause))

(* An attempt is given up, or the next one is made. *)
Moves(c) ==
    /\ sends' = sends /\ rows' = rows /\ wallets' = wallets /\ answers' = answers
    /\ pc'[c] = "idle" \/ (pc[c] \in InFlight /\ pc'[c] \in {"pause", "begin"})

(* A call that is in a service is answered, and its transaction ends. *)
Answers(c) ==
    /\ pc[c] \in InFlight /\ sends' = sends
    /\ \/ /\ rows' = rows /\ wallets' = wallets
          /\ \E status \in {500, 503} : \E cause : Answer(c, Error(status, cause))
       \/ pc[c] = "end" /\ Store(c) /\ Answer(c, result[c])
       \/ pc[c] = "end" /\ Commits(c) /\ Store(c) /\ \E cause : Answer(c, Error(503, cause))
       \/ Read(c)

Finishes ==
    \E r \in rows, status \in {"PROCESSED", "REJECTED", "FAILED"} : Finish(r, status)

(* The statuses of the handlers' checks; who passes them names its provider. *)
LEMMA RefusalFacts ==
    ASSUME NEW c \in Calls
    PROVE  Refusal(c) \in {0, 400, 401, 403} /\ (Refusal(c) = 0 => SameProvider(c))
  BY SMT DEF Refusal

(* A failed attempt is followed by another, or by an error. *)
LEMMA FailureFacts ==
    ASSUME NEW c \in Calls, NEW failure \in Failures, AfterFailure(c, failure)
    PROVE  \/ pc' = [pc EXCEPT ![c] = "pause"] /\ UNCHANGED << result, answers >>
           \/ \E status \in {500, 503} : \E cause : Answer(c, Error(status, cause))
  BY DEF AfterFailure, Within

(* The closures of the services end with a result and perhaps a row. *)
LEMMA ClosureLeaves ==
    ASSUME NEW c, Process(c) \/ OpenWallet(c)
    PROVE  \E row, res : Leaves(c, row, res)
  <1>1. CASE Process(c)
    <2>1. CASE Leaves(c, None, Error(422, "input"))
      BY <2>1
    <2>2. CASE Leaves(c, None, Existing(c))
      BY <2>2
    <2>3. CASE Leaves(c, Row(c, "PENDING"), Error(422, "input"))
      BY <2>3
    <2>4. ASSUME NEW status \in Decisions(c),
                 Leaves(c, Row(c, status), Ok(StatusCode(Row(c, status)), Id(c), FALSE))
          PROVE  \E row, res : Leaves(c, row, res)
      BY <2>4
    <2> QED
      BY <1>1, <2>1, <2>2, <2>3, <2>4 DEF Process
  <1>2. CASE OpenWallet(c)
    <2>1. CASE Leaves(c, None, Error(422, "input"))
      BY <2>1
    <2>2. CASE Leaves(c, None, Error(409, "wallet"))
      BY <2>2
    <2>3. CASE Leaves(c, Wallet(c), Ok(201, Id(c), FALSE))
      BY <2>3
    <2> QED
      BY <1>2, <2>1, <2>2, <2>3 DEF OpenWallet
  <1> QED
    BY <1>1, <1>2

(* Every step is one of these, by one call or by the retrier. *)
LEMMA Steps ==
    ASSUME ApiTypes, [Next]_vars
    PROVE  \/ UNCHANGED vars
           \/ Finishes
           \/ \E c \in Calls :
                 Alone(c) /\ (Begins(c) \/ Moves(c) \/ Process(c) \/ OpenWallet(c) \/ Answers(c))
  <1> DEFINE Does(c) ==
        Alone(c) /\ (Begins(c) \/ Moves(c) \/ Process(c) \/ OpenWallet(c) \/ Answers(c))
  <1>0. /\ \A c \in made : c \in Calls
        /\ DOMAIN pc = Calls /\ DOMAIN sends = Calls /\ DOMAIN held = Calls /\ DOMAIN result = Calls
    BY DEF ApiTypes
  <1>a. ASSUME NEW c \in Calls, NEW res, Answer(c, res)
        PROVE  \A d \in Calls \ {c} : pc'[d] = pc[d] /\ result'[d] = result[d]
    BY <1>0, <1>a DEF Answer
  <1>b. ASSUME NEW c \in Calls, NEW row, NEW res, Leaves(c, row, res) PROVE Alone(c)
    BY <1>0, <1>b DEF Leaves, Alone
  <1>c. ASSUME NEW c \in Calls, NEW failure \in Failures, AfterFailure(c, failure)
        PROVE  \A d \in Calls \ {c} : pc'[d] = pc[d] /\ result'[d] = result[d]
    BY <1>0, <1>a, <1>c, FailureFacts
  <1>1. ASSUME NEW c \in Calls, Send(c) PROVE Does(c)
    <2>1. CASE Refusal(c) = 0
      BY <1>0, <1>1, <2>1 DEF Send, ToldToSend, Alone, Begins, InFlight
    <2>2. CASE Refusal(c) # 0
      <3>1. Refusal(c) \in {400, 401, 403}
        BY <2>2, RefusalFacts
      <3>2. Answer(c, Error(Refusal(c), "input"))
        BY <1>1, <2>2 DEF Send
      <3> QED
        BY <1>0, <1>1, <1>a, <3>1, <3>2 DEF Send, ToldToSend, Alone, Begins, InFlight
    <2> QED
      BY <2>1, <2>2
  <1>2. ASSUME NEW c \in Calls, KeysUnavailable(c) PROVE Does(c)
    BY <1>0, <1>2, <1>a DEF KeysUnavailable, ToldToSend, Alone, Begins, InFlight
  <1>3. ASSUME NEW c \in Calls, Process(c) PROVE Does(c)
    BY <1>3, <1>b, ClosureLeaves
  <1>4. ASSUME NEW c \in Calls, OpenWallet(c) PROVE Does(c)
    BY <1>4, <1>b, ClosureLeaves
  <1>5. ASSUME NEW c \in Calls, End(c) PROVE Does(c)
    BY <1>0, <1>5, <1>a DEF End, Release, Alone, Answers, InFlight
  <1>6. ASSUME NEW c \in Calls, Retry(c) PROVE Does(c)
    BY <1>0, <1>6 DEF Retry, Alone, Moves, InFlight
  <1>7. ASSUME NEW c \in Calls, Read(c) PROVE Does(c)
    <2>1. Alone(c)
      BY <1>7, <1>a DEF Read, Alone
    <2> QED
      BY <1>7, <2>1 DEF Read, Answers, InFlight
  <1>8. ASSUME NEW c \in Calls, CommitLost(c) PROVE Does(c)
    <2>1. Answer(c, Error(503, "network"))
      BY <1>8 DEF CommitLost, AfterFailure, Within, isUnavailable, isRetryableConflict
    <2> QED
      BY <1>0, <1>8, <1>a, <2>1 DEF CommitLost, Release, Alone, Answers, InFlight
  <1>9. ASSUME NEW c \in Calls, StopRetrying(c) PROVE Does(c)
    BY <1>0, <1>9, <1>a DEF StopRetrying, Within, Alone, Answers, InFlight
  <1>10. ASSUME NEW c \in Calls, Die(c) PROVE Does(c)
    BY <1>0, <1>10 DEF Die, Release, Alone, Moves
  <1>11. ASSUME NEW c \in Calls, NEW failure \in Failures, Fail(c, failure) PROVE Does(c)
    <2>1. Alone(c)
      BY <1>0, <1>11, <1>c DEF Fail, Release, Alone
    <2>2. /\ pc[c] \in InFlight /\ sends' = sends /\ rows' = rows /\ wallets' = wallets
          /\ AfterFailure(c, failure)
      BY <1>11 DEF Fail, InFlight
    <2> QED
      BY <1>0, <2>1, <2>2, FailureFacts DEF Moves, Answers
  <1>12. ASSUME NEW c \in Calls, NEW failure \in Failures, ReadFails(c, failure) PROVE Does(c)
    BY <1>0, <1>12, <1>a DEF ReadFails, Without, Alone, Answers, InFlight
  <1> QED
    BY <1>0, <1>1, <1>2, <1>3, <1>4, <1>5, <1>6, <1>7, <1>8, <1>9, <1>10, <1>11, <1>12
       DEF Next, Handle, Finishes

(* The tables change when a transaction ends, or the retrier finishes one. *)
LEMMA TableSteps ==
    ASSUME ApiTypes, [Next]_vars
    PROVE  \/ rows' = rows /\ wallets' = wallets
           \/ Finishes
           \/ \E c \in Calls :
                 /\ pc[c] = "end" /\ Store(c) /\ sends' = sends
                 /\ Answer(c, result[c]) \/ (Commits(c) /\ \E cause : Answer(c, Error(503, cause)))
  <1>1. CASE UNCHANGED vars
    BY <1>1 DEF vars
  <1>2. CASE Finishes
    BY <1>2
  <1>3. ASSUME NEW c \in Calls, Begins(c) \/ Moves(c) PROVE rows' = rows /\ wallets' = wallets
    BY <1>3 DEF Begins, Moves
  <1>4. ASSUME NEW c \in Calls, NEW row, NEW res, Leaves(c, row, res)
        PROVE  rows' = rows /\ wallets' = wallets
    BY <1>4 DEF Leaves
  <1>5. ASSUME NEW c \in Calls, Process(c) PROVE rows' = rows /\ wallets' = wallets
    BY <1>4, <1>5, ClosureLeaves
  <1>6. ASSUME NEW c \in Calls, OpenWallet(c) PROVE rows' = rows /\ wallets' = wallets
    BY <1>4, <1>6, ClosureLeaves
  <1>7. ASSUME NEW c \in Calls, Read(c) PROVE rows' = rows /\ wallets' = wallets
    BY <1>7 DEF Read
  <1>8. ASSUME NEW c \in Calls, Answers(c)
        PROVE  \/ rows' = rows /\ wallets' = wallets
               \/ /\ pc[c] = "end" /\ Store(c) /\ sends' = sends
                  /\ Answer(c, result[c]) \/ (Commits(c) /\ \E cause : Answer(c, Error(503, cause)))
    BY <1>7, <1>8 DEF Answers
  <1> QED
    BY <1>1, <1>2, <1>3, <1>5, <1>6, <1>8, Steps

(* Who adds an answer begins with it, or is in a service. *)
LEMMA AnswerSteps ==
    ASSUME ApiTypes, [Next]_vars
    PROVE  \/ answers' = answers
           \/ \E c \in Calls : (Begins(c) \/ Answers(c)) /\ \E res : Answer(c, res)
  <1>1. CASE UNCHANGED vars \/ Finishes
    BY <1>1 DEF vars, Finishes, Finish
  <1>2. ASSUME NEW c \in Calls, Moves(c) PROVE answers' = answers
    BY <1>2 DEF Moves
  <1>3. ASSUME NEW c \in Calls, NEW row, NEW res, Leaves(c, row, res) PROVE answers' = answers
    BY <1>3 DEF Leaves
  <1>4. ASSUME NEW c \in Calls, Process(c) PROVE answers' = answers
    BY <1>3, <1>4, ClosureLeaves
  <1>5. ASSUME NEW c \in Calls, OpenWallet(c) PROVE answers' = answers
    BY <1>3, <1>5, ClosureLeaves
  <1>6. ASSUME NEW c \in Calls, Begins(c) PROVE answers' = answers \/ \E res : Answer(c, res)
    BY <1>6 DEF Begins
  <1>7. ASSUME NEW c \in Calls, Read(c) PROVE \E res : Answer(c, res)
    BY <1>7 DEF Read
  <1>8. ASSUME NEW c \in Calls, Answers(c) PROVE \E res : Answer(c, res)
    BY <1>7, <1>8 DEF Answers
  <1> QED
    BY <1>1, <1>2, <1>4, <1>5, <1>6, <1>8, Steps

-----------------------------------------------------------------------------
(***************************************************************************)
(* Types, and sendings.                                                    *)
(***************************************************************************)

(* The types before any request. *)
LEMMA ApiInit == Init => ApiInv
  BY RequestAssumption
     DEF Init, ApiInv, ApiTypes, SendingsOver, Accepted, ClosuresReady, Answered,
         RefusalsStoreNothing, InFlight

(* A row of a new transaction is a row of the table. *)
LEMMA RowType ==
    ASSUME ApiTypes, NEW c \in Calls, Request[c].op = "create", NEW status \in Statuses
    PROVE  Row(c, status) \in StoredRow
  <1>1. Id(c) \in Calls \X Nat
    BY DEF Id, ApiTypes
  <1>2. Request[c] \in {Request[d] : d \in {e \in Calls : Request[e].op = "create"}}
    OBVIOUS
  <1>3. Provider(c) = Request[c].provider
    BY DEF Provider
  <1> QED
    BY <1>1, <1>2, <1>3 DEF Row, StoredRow

(* A wallet is not mistaken for no wallet. *)
LEMMA WalletType ==
    ASSUME ApiTypes, NEW c \in Calls, Request[c].op = "open"
    PROVE  Wallet(c) \in StoredWallet
  <1>1. Id(c) \in Calls \X Nat
    BY DEF Id, ApiTypes
  <1>2. Request[c] \in {Request[d] : d \in {e \in Calls : Request[e].op = "open"}}
    OBVIOUS
  <1> QED
    BY <1>1, <1>2 DEF Wallet, StoredWallet

Same(r, s) ==
    s.id = r.id /\ s.provider = r.provider /\ s.key = r.key /\ s.ext = r.ext /\ s.body = r.body

(* Finish changes nothing of a row but its status. *)
LEMMA FinishFacts ==
    ASSUME ApiTypes, Finishes
    PROVE  \E r \in rows, s \in StoredRow : Same(r, s) /\ rows' = (rows \ {r}) \cup {s}
  <1>1. PICK r \in rows, status \in {"PROCESSED", "REJECTED", "FAILED"} : Finish(r, status)
    BY DEF Finishes
  <1>2. r \in StoredRow
    BY DEF ApiTypes
  <1> DEFINE s == [r EXCEPT !.status = status]
  <1>3. s \in StoredRow /\ Same(r, s)
    BY <1>2 DEF StoredRow, Same, Statuses
  <1> QED
    BY <1>1, <1>3 DEF Finish

(* The types, and that only rows get into the table of rows. *)
LEMMA TypesStep ==
    ASSUME ApiTypes, ClosuresReady, [Next]_vars
    PROVE  ApiTypes'
  <1>1. made' \subseteq Calls
    <2>1. ASSUME NEW c, NEW row, NEW res, Leaves(c, row, res) PROVE made' = made
      BY <2>1 DEF Leaves
    <2>2. ASSUME NEW c, Process(c) PROVE made' = made
      BY <2>1, <2>2, ClosureLeaves
    <2>3. ASSUME NEW c, OpenWallet(c) PROVE made' = made
      BY <2>1, <2>3, ClosureLeaves
    <2>4. ASSUME NEW c, Send(c) \/ KeysUnavailable(c) \/ End(c) \/ Retry(c) \/ Read(c)
          PROVE  made' = made
      BY <2>4 DEF Send, KeysUnavailable, End, Retry, Read
    <2>5. ASSUME NEW c, CommitLost(c) \/ StopRetrying(c) \/ Die(c) PROVE made' = made
      BY <2>5 DEF CommitLost, StopRetrying, Die
    <2>6. ASSUME NEW c, NEW failure, Fail(c, failure) \/ ReadFails(c, failure) PROVE made' = made
      BY <2>6 DEF Fail, ReadFails
    <2>7. ASSUME Finishes \/ UNCHANGED vars PROVE made' = made
      BY <2>7 DEF Finishes, Finish, vars
    <2>8. made' = made
      BY <2>2, <2>3, <2>4, <2>5, <2>6, <2>7 DEF Next, Handle, Finishes
    <2> QED
      BY <2>8 DEF ApiTypes
  <1>2. pc' \in [Calls -> {"idle", "answered"} \cup InFlight]
    <2> DEFINE Pc == pc' \in [Calls -> {"idle", "answered"} \cup InFlight]
    <2>1. pc \in [Calls -> {"idle", "answered"} \cup InFlight]
      BY DEF ApiTypes
    <2>2. ASSUME NEW c, NEW v \in {"idle", "answered"} \cup InFlight, pc' = [pc EXCEPT ![c] = v]
          PROVE  Pc
      BY <2>1, <2>2
    <2>3. ASSUME pc' = pc PROVE Pc
      BY <2>1, <2>3
    <2> HIDE DEF Pc
    <2>4. ASSUME NEW c, NEW res, Answer(c, res) PROVE Pc
      BY <2>2, <2>4 DEF Answer
    <2>5. ASSUME NEW c, NEW row, NEW res, Leaves(c, row, res) PROVE Pc
      BY <2>2, <2>5 DEF Leaves, InFlight
    <2>6. ASSUME NEW c, NEW failure, AfterFailure(c, failure) PROVE Pc
      BY <2>2, <2>4, <2>6 DEF AfterFailure, InFlight
    <2>7. ASSUME NEW c, Send(c) \/ KeysUnavailable(c) PROVE Pc
      BY <2>2, <2>4, <2>7 DEF Send, KeysUnavailable, InFlight
    <2>8. ASSUME NEW c, Process(c) PROVE Pc
      BY <2>5, <2>8, ClosureLeaves
    <2>a. ASSUME NEW c, OpenWallet(c) PROVE Pc
      BY <2>5, <2>a, ClosureLeaves
    <2>9. ASSUME NEW c, End(c) \/ Retry(c) \/ Read(c) PROVE Pc
      BY <2>2, <2>4, <2>9 DEF End, Retry, Read, InFlight
    <2>10. ASSUME NEW c, CommitLost(c) \/ StopRetrying(c) \/ Die(c) PROVE Pc
      BY <2>2, <2>4, <2>6, <2>10 DEF CommitLost, StopRetrying, Die
    <2>11. ASSUME NEW c, NEW failure, Fail(c, failure) \/ ReadFails(c, failure) PROVE Pc
      BY <2>4, <2>6, <2>11 DEF Fail, ReadFails
    <2>12. ASSUME Finishes \/ UNCHANGED vars PROVE Pc
      BY <2>3, <2>12 DEF Finishes, Finish, vars
    <2>13. Pc
      BY <2>7, <2>8, <2>a, <2>9, <2>10, <2>11, <2>12 DEF Next, Handle, Finishes
    <2> QED
      BY <2>13 DEF Pc
  <1>5. sends' \in [Calls -> Nat]
    <2>1. sends \in [Calls -> Nat] /\ made \subseteq Calls
      BY DEF ApiTypes
    <2>2. ASSUME NEW c \in Calls, Process(c) \/ OpenWallet(c) PROVE sends' = sends
      BY <2>2 DEF Process, OpenWallet, Leaves
    <2>3. sends' = sends \/ \E c \in Calls : sends' = [sends EXCEPT ![c] = @ + 1]
      BY <2>2, Steps DEF Begins, Moves, Answers, Finishes, Finish, vars
    <2> QED
      BY <2>1, <2>3
  <1>3. rows' \subseteq StoredRow
    <2>0. rows \subseteq StoredRow
      BY DEF ApiTypes
    <2>1. CASE Finishes
      BY <2>0, <2>1, FinishFacts
    <2>2. ASSUME NEW c \in Calls, Store(c), pc[c] = "end" PROVE rows' \subseteq StoredRow
      BY <2>0, <2>2 DEF Store, ClosuresReady, Ready, Commits
    <2> QED
      BY <2>0, <2>1, <2>2, TableSteps
  <1>4. /\ DOMAIN held' = Calls /\ held' = [c \in Calls |-> held'[c]]
        /\ DOMAIN result' = Calls /\ result' = [c \in Calls |-> result'[c]]
    <2> DEFINE Held == DOMAIN held' = Calls /\ held' = [c \in Calls |-> held'[c]]
    <2> DEFINE Result == DOMAIN result' = Calls /\ result' = [c \in Calls |-> result'[c]]
    <2>1. /\ DOMAIN held = Calls /\ held = [c \in Calls |-> held[c]]
          /\ DOMAIN result = Calls /\ result = [c \in Calls |-> result[c]]
      BY DEF ApiTypes
    <2>2. ASSUME NEW c, NEW res, Answer(c, res) PROVE Result
      BY <2>1, <2>2 DEF Answer
    <2>3. ASSUME NEW c, NEW row, NEW res, Leaves(c, row, res) PROVE Held /\ Result
      BY <2>1, <2>3 DEF Leaves
    <2>4. ASSUME NEW c, NEW failure, AfterFailure(c, failure) PROVE Result
      BY <2>1, <2>2, <2>4 DEF AfterFailure
    <2>5. ASSUME NEW c, Release(c) PROVE Held
      BY <2>1, <2>5 DEF Release
    <2>6. ASSUME held' = held PROVE Held
      BY <2>1, <2>6
    <2>7. ASSUME result' = result PROVE Result
      BY <2>1, <2>7
    <2>8. ASSUME NEW c, result' = [result EXCEPT ![c] = NoResult] PROVE Result
      BY <2>1, <2>8
    <2> HIDE DEF Held, Result
    <2>9. ASSUME NEW c, Send(c) \/ KeysUnavailable(c) PROVE Held /\ Result
      BY <2>2, <2>6, <2>8, <2>9 DEF Send, KeysUnavailable
    <2>10. ASSUME NEW c, Process(c) PROVE Held /\ Result
      BY <2>3, <2>10, ClosureLeaves
    <2>a. ASSUME NEW c, OpenWallet(c) PROVE Held /\ Result
      BY <2>3, <2>a, ClosureLeaves
    <2>11. ASSUME NEW c, End(c) \/ Retry(c) \/ Read(c) PROVE Held /\ Result
      BY <2>2, <2>5, <2>6, <2>7, <2>11 DEF End, Retry, Read
    <2>12. ASSUME NEW c, CommitLost(c) \/ StopRetrying(c) \/ Die(c) PROVE Held /\ Result
      BY <2>2, <2>4, <2>5, <2>6, <2>7, <2>12 DEF CommitLost, StopRetrying, Die
    <2>13. ASSUME NEW c, NEW failure, Fail(c, failure) \/ ReadFails(c, failure) PROVE Held /\ Result
      BY <2>2, <2>4, <2>5, <2>6, <2>13 DEF Fail, ReadFails
    <2>14. ASSUME NEW r, NEW status, Finish(r, status) PROVE Held /\ Result
      BY <2>6, <2>7, <2>14 DEF Finish
    <2>15. ASSUME UNCHANGED vars PROVE Held /\ Result
      BY <2>6, <2>7, <2>15 DEF vars
    <2>16. Held /\ Result
      BY <2>9, <2>10, <2>a, <2>11, <2>12, <2>13, <2>14, <2>15 DEF Next, Handle
    <2> QED
      BY <2>16 DEF Held, Result
  <1> QED
    BY <1>1, <1>2, <1>3, <1>4, <1>5 DEF ApiTypes

(* A sending that is over stays over. *)
LEMMA OverKept ==
    ASSUME ApiTypes, [Next]_vars, NEW id, Over(id)
    PROVE  Over(id)'
  <1>1. PICK c \in Calls : \E n \in 0 .. sends[c] :
            id = << c, n >> /\ (pc[c] \in InFlight => n # sends[c])
    BY DEF Over
  <1>2. PICK n \in 0 .. sends[c] : id = << c, n >> /\ (pc[c] \in InFlight => n # sends[c])
    BY <1>1
  <1>3. sends \in [Calls -> Nat]
    BY DEF ApiTypes
  <1> SUFFICES n \in 0 .. sends'[c] /\ (pc'[c] \in InFlight => n # sends'[c])
    BY <1>2 DEF Over
  <1>4. ASSUME sends'[c] = sends[c], pc'[c] \in InFlight => pc[c] \in InFlight
        PROVE  n \in 0 .. sends'[c] /\ (pc'[c] \in InFlight => n # sends'[c])
    BY <1>2, <1>4
  <1>5. ASSUME Begins(c)
        PROVE  n \in 0 .. sends'[c] /\ (pc'[c] \in InFlight => n # sends'[c])
    <2>1. sends'[c] = sends[c] + 1 /\ sends[c] \in Nat
      BY <1>3, <1>5 DEF Begins
    <2> QED
      BY <2>1
  <1>6. ASSUME Moves(c) \/ Process(c) \/ OpenWallet(c) \/ Answers(c)
        PROVE  sends'[c] = sends[c] /\ (pc'[c] \in InFlight => pc[c] \in InFlight)
    BY <1>6 DEF Moves, Process, OpenWallet, Leaves, Answers, InFlight
  <1>7. ASSUME NEW d \in Calls \ {c}, Alone(d)
        PROVE  sends'[c] = sends[c] /\ pc'[c] = pc[c]
    BY <1>7 DEF Alone
  <1>8. ASSUME UNCHANGED vars \/ Finishes PROVE sends'[c] = sends[c] /\ pc'[c] = pc[c]
    BY <1>8 DEF vars, Finishes, Finish
  <1> QED
    BY <1>4, <1>5, <1>6, <1>7, <1>8, Steps

(* The uuid of a call in a service is not in use yet, nor is that of the next. *)
LEMMA IdIsFresh ==
    ASSUME ApiTypes, SendingsOver, NEW c \in Calls
    PROVE  /\ pc[c] \in InFlight =>
                /\ \A r \in rows \cup wallets : r.id # Id(c)
                /\ \A a \in answers : a.id # Id(c)
           /\ \A r \in rows \cup wallets : r.id # << c, sends[c] + 1 >>
  <1>1. sends[c] \in Nat
    BY DEF ApiTypes
  <1>2. ASSUME NEW id, Over(id)
        PROVE  (pc[c] \in InFlight => id # << c, sends[c] >>) /\ id # << c, sends[c] + 1 >>
    <2>1. PICK d \in Calls : \E n \in 0 .. sends[d] :
            id = << d, n >> /\ (pc[d] \in InFlight => n # sends[d])
      BY <1>2 DEF Over
    <2>2. PICK n \in 0 .. sends[d] : id = << d, n >> /\ (pc[d] \in InFlight => n # sends[d])
      BY <2>1
    <2>3. d = c => n <= sends[c]
      BY <1>1, <2>2
    <2> QED
      BY <1>1, <2>2, <2>3
  <1> QED
    BY <1>2 DEF SendingsOver, Id

(* The tables grow, up to the status of a row. *)
LEMMA TablesGrow ==
    ASSUME ApiTypes, [Next]_vars
    PROVE  (\A r \in rows : \E s \in rows' : Same(r, s)) /\ wallets \subseteq wallets'
  <1>1. CASE Finishes
    <2>1. PICK r \in rows, s \in StoredRow : Same(r, s) /\ rows' = (rows \ {r}) \cup {s}
      BY <1>1, FinishFacts
    <2> QED
      BY <1>1, <2>1 DEF Same, Finishes, Finish
  <1>2. ASSUME rows \subseteq rows', wallets \subseteq wallets'
        PROVE  (\A r \in rows : \E s \in rows' : Same(r, s)) /\ wallets \subseteq wallets'
    BY <1>2 DEF Same
  <1>3. ASSUME NEW c \in Calls, Store(c) PROVE rows \subseteq rows' /\ wallets \subseteq wallets'
    BY <1>3 DEF Store
  <1> QED
    BY <1>1, <1>2, <1>3, TableSteps

(* A step that adds an answer does so as its sending ends. *)
LEMMA NewAnswer ==
    ASSUME ApiTypes, [Next]_vars, NEW a \in answers', a \notin answers
    PROVE  \E c \in Calls : \E res :
              /\ a = [id |-> << c, sends'[c] >>, call |-> c, res |-> res]
              /\ pc'[c] = "answered"
  <1>0. \A c \in Calls : c \in DOMAIN pc
    BY DEF ApiTypes
  <1>1. ASSUME NEW c \in Calls, NEW res, Answer(c, res)
        PROVE  a = [id |-> << c, sends'[c] >>, call |-> c, res |-> res] /\ pc'[c] = "answered"
    BY <1>0, <1>1 DEF Answer
  <1>2. PICK c \in Calls : \E res : Answer(c, res)
    BY AnswerSteps
  <1> QED
    BY <1>1, <1>2

(* A row with a new id was held by a transaction that ends with this step. *)
LEMMA NewRow ==
    ASSUME ApiTypes, ClosuresReady, [Next]_vars, NEW r \in rows' \cup wallets',
           \A s \in rows \cup wallets : s.id # r.id
    PROVE  \E c \in Calls :
              /\ r.id = Id(c) /\ sends' = sends /\ pc[c] = "end" /\ pc'[c] = "answered"
              /\ Commits(c)
              /\ Answer(c, result[c]) \/ \E cause : Answer(c, Error(503, cause))
  <1>0. \A c \in Calls : c \in DOMAIN pc
    BY DEF ApiTypes
  <1>1. ASSUME Finishes PROVE FALSE
    <2>1. PICK q \in rows, s \in StoredRow : Same(q, s) /\ rows' = (rows \ {q}) \cup {s}
      BY <1>1, FinishFacts
    <2>2. wallets' = wallets
      BY <1>1 DEF Finishes, Finish
    <2>3. r = s => r.id = q.id
      BY <2>1 DEF Same
    <2> QED
      BY <2>1, <2>2, <2>3
  <1>2. ASSUME rows' = rows, wallets' = wallets PROVE FALSE
    BY <1>2
  <1>4. PICK c \in Calls :
          /\ pc[c] = "end" /\ Store(c) /\ sends' = sends
          /\ Answer(c, result[c]) \/ (Commits(c) /\ \E cause : Answer(c, Error(503, cause)))
    BY <1>1, <1>2, TableSteps
  <1>5. Commits(c) /\ r = held[c]
    BY <1>4 DEF Store
  <1>6. r.id = Id(c)
    BY <1>4, <1>5 DEF ClosuresReady, Ready, Commits
  <1>7. pc'[c] = "answered"
    BY <1>0, <1>4 DEF Answer
  <1> QED
    BY <1>4, <1>5, <1>6, <1>7

(* A sending is over when it is answered, and stores its row no later. *)
LEMMA SendingsStep ==
    ASSUME ApiTypes, ApiTypes', ClosuresReady, SendingsOver, [Next]_vars
    PROVE  SendingsOver'
  <1>0. ASSUME NEW c \in Calls, pc'[c] = "answered", NEW id, id = << c, sends'[c] >>
        PROVE  Over(id)'
    <2>1. sends'[c] \in 0 .. sends'[c]
      BY DEF ApiTypes
    <2> QED
      BY <1>0, <2>1 DEF Over, InFlight
  <1>1. ASSUME NEW r \in rows' \cup wallets' PROVE Over(r.id)'
    <2> PICK id : id = r.id
      OBVIOUS
    <2>1. CASE \E s \in rows \cup wallets : s.id = id
      <3>1. Over(id)'
        BY <2>1, OverKept DEF SendingsOver
      <3> QED
        BY <3>1
    <2>2. CASE ~\E s \in rows \cup wallets : s.id = id
      <3>1. PICK c \in Calls : id = << c, sends'[c] >> /\ pc'[c] = "answered"
        BY <1>1, <2>2, NewRow DEF Id
      <3>2. Over(id)'
        BY <1>0, <3>1
      <3> QED
        BY <3>2
    <2> QED
      BY <2>1, <2>2
  <1>2. ASSUME NEW a \in answers' PROVE a.call \in Calls /\ a.id[1] = a.call /\ Over(a.id)'
    <2> PICK id : id = a.id
      OBVIOUS
    <2>1. CASE a \in answers
      <3>1. a.call \in Calls /\ a.id[1] = a.call /\ Over(id)
        BY <2>1 DEF SendingsOver
      <3>2. Over(id)'
        BY <3>1, OverKept
      <3> QED
        BY <3>1, <3>2
    <2>2. CASE a \notin answers
      <3>1. PICK c \in Calls : \E res :
              a = [id |-> << c, sends'[c] >>, call |-> c, res |-> res] /\ pc'[c] = "answered"
        BY <1>2, <2>2, NewAnswer
      <3>2. id = << c, sends'[c] >> /\ a.call = c
        BY <3>1
      <3>3. Over(id)'
        BY <1>0, <3>1, <3>2
      <3> QED
        BY <3>2, <3>3
    <2> QED
      BY <2>1, <2>2
  <1> QED
    BY <1>1, <1>2 DEF SendingsOver

(* Who is in a service has passed the checks. *)
LEMMA AcceptedStep ==
    ASSUME ApiTypes, Accepted, [Next]_vars
    PROVE  Accepted'
  <1> SUFFICES ASSUME NEW c \in Calls, pc'[c] \in InFlight PROVE Refusal(c) = 0
    BY DEF Accepted, Refusal, Authorised, SameProvider, Principal
  <1>0. c \in DOMAIN pc
    BY DEF ApiTypes
  <1>1. CASE pc[c] \in InFlight
    BY <1>1 DEF Accepted
  <1>2. CASE pc[c] \notin InFlight
    <2>1. ASSUME NEW res, Answer(c, res) PROVE FALSE
      BY <1>0, <2>1 DEF Answer, InFlight
    <2>2. ASSUME Process(c) \/ OpenWallet(c) PROVE FALSE
      BY <1>2, <2>2 DEF Process, OpenWallet, InFlight
    <2>3. ASSUME NEW d \in Calls, Alone(d) PROVE d = c
      BY <1>2, <2>3 DEF Alone
    <2>4. ~Finishes /\ ~UNCHANGED vars
      BY <1>2 DEF Finishes, Finish, vars
    <2>5. Begins(c) \/ Moves(c) \/ Answers(c)
      BY <2>2, <2>3, <2>4, Steps
    <2> QED
      BY <1>2, <2>1, <2>5 DEF Begins, Moves, Answers, InFlight
  <1> QED
    BY <1>1, <1>2

-----------------------------------------------------------------------------
(***************************************************************************)
(* Results and answers.                                                    *)
(***************************************************************************)

(* What is true stays true while the tables grow. *)
LEMMA TrueKept ==
    ASSUME NEW c, NEW id, NEW res, NEW R, NEW W, NEW R2, NEW W2,
           \A r \in R : \E s \in R2 : Same(r, s), W \subseteq W2, TrueOf(c, id, res, R, W)
    PROVE  TrueOf(c, id, res, R2, W2)
  <1>1. ShowsRow(c, res, R) => ShowsRow(c, res, R2)
    BY DEF ShowsRow, Same
  <1>2. StandsInTheWay(c, res, R) => StandsInTheWay(c, res, R2)
    BY DEF StandsInTheWay, Same
  <1> QED
    BY <1>1, <1>2 DEF TrueOf

(* An error other than a conflict says nothing of the tables. *)
LEMMA ErrorTrue ==
    ASSUME NEW c, NEW id, NEW cause, NEW R, NEW W,
           NEW status \in {400, 401, 403, 404, 422, 500, 503}
    PROVE  TrueOf(c, id, Error(status, cause), R, W)
  BY DEF TrueOf, Error, Success

(* A closure's result, in terms of what it leaves. *)
LEMMA LeavesReady ==
    ASSUME ApiTypes, NEW c \in Calls, NEW row, NEW res, Leaves(c, row, res),
           row # None => row.id = Id(c),
           row # None /\ Request[c].op = "create" => row \in StoredRow,
           row # None /\ res.cause = "none" => Success(res),
           TrueOf(c, Id(c), res,
                IF (row # None /\ res.cause = "none") /\ Request[c].op = "create"
                THEN rows \cup {row} ELSE rows,
                IF (row # None /\ res.cause = "none") /\ Request[c].op = "open"
                THEN wallets \cup {row} ELSE wallets)
    PROVE  Ready(c)'
  <1>1. held'[c] = row /\ result'[c] = res /\ sends' = sends /\ rows' = rows /\ wallets' = wallets
    BY DEF Leaves, ApiTypes
  <1>2. Id(c)' = Id(c)
    BY <1>1 DEF Id
  <1>3. Commits(c)' <=> (row # None /\ res.cause = "none")
    BY <1>1 DEF Commits
  <1>4. RowsAfter(c)' = IF (row # None /\ res.cause = "none") /\ Request[c].op = "create"
                        THEN rows \cup {row} ELSE rows
    BY <1>1, <1>3 DEF RowsAfter
  <1>5. WalletsAfter(c)' = IF (row # None /\ res.cause = "none") /\ Request[c].op = "open"
                           THEN wallets \cup {row} ELSE wallets
    BY <1>1, <1>3 DEF WalletsAfter
  <1>6. TrueOf(c, Id(c), result[c], RowsAfter(c), WalletsAfter(c))'
    BY <1>1, <1>2, <1>4, <1>5 DEF TrueOf, ShowsRow, StandsInTheWay, Principal, Provider, Success
  <1>7. Success(res) = Success(result'[c])
    BY <1>1
  <1> QED
    BY <1>1, <1>2, <1>3, <1>6 DEF Ready, Success

(* A closure that leaves no row, or one that its error rolls back. *)
LEMMA NothingReady ==
    ASSUME ApiTypes, NEW c \in Calls, NEW row, NEW res, Leaves(c, row, res),
           row = None \/ res.cause # "none",
           row # None => row.id = Id(c), row # None => row \in StoredRow,
           TrueOf(c, Id(c), res, rows, wallets)
    PROVE  Ready(c)'
  <1>1. held'[c] = row /\ result'[c] = res /\ sends' = sends /\ rows' = rows /\ wallets' = wallets
    BY DEF Leaves, ApiTypes
  <1>2. Id(c)' = Id(c) /\ ~Commits(c)'
    BY <1>1 DEF Id, Commits
  <1>3. RowsAfter(c)' = rows /\ WalletsAfter(c)' = wallets
    BY <1>1, <1>2 DEF RowsAfter, WalletsAfter
  <1>4. TrueOf(c, Id(c), result[c], RowsAfter(c), WalletsAfter(c))'
    BY <1>1, <1>2, <1>3 DEF TrueOf, ShowsRow, StandsInTheWay, Principal, Provider, Success
  <1> QED
    BY <1>1, <1>2, <1>4 DEF Ready

(* resolveExistingTransaction replays the row of the key, or says what is in the way. *)
LEMMA ExistingTrue ==
    ASSUME ApiTypes, SendingsOver, Accepted, NEW c \in Calls, pc[c] = "begin",
           Request[c].op = "create", \E r \in rows : Clashes(r, c)
    PROVE  TrueOf(c, Id(c), Existing(c), rows, wallets)
  <1>1. Provider(c) = Principal(c).provider
    BY RefusalFacts DEF Accepted, InFlight, Provider, SameProvider
  <1> DEFINE byKey == {r \in rows : r.provider = Provider(c) /\ r.key = Request[c].key}
  <1>2. CASE byKey = {}
    <2>1. Existing(c) = Error(409, "external")
      BY <1>2 DEF Existing
    <2>2. PICK r \in rows : Clashes(r, c)
      OBVIOUS
    <2>3. r.provider = Provider(c) /\ r.ext = Request[c].ext /\ r.key # Request[c].key
      BY <1>2, <2>2 DEF Clashes
    <2> QED
      BY <2>1, <2>3 DEF TrueOf, StandsInTheWay, Error, Success
  <1>3. CASE byKey # {}
    <2> DEFINE row == CHOOSE r \in byKey : TRUE
    <2>1. row \in byKey
      BY <1>3
    <2>2. CASE row.body = Request[c].body
      <3>1. Existing(c) = Ok(StatusCode(row), row.id, TRUE)
        BY <1>3, <2>2 DEF Existing
      <3>2. row.id # Id(c)
        BY <2>1, IdIsFresh DEF InFlight
      <3> HIDE DEF row
      <3>3. ShowsRow(c, Existing(c), rows)
        BY <1>1, <2>1, <2>2, <3>1 DEF ShowsRow, Ok
      <3>4. StatusCode(row) # 409
        BY DEF StatusCode
      <3> QED
        BY <3>1, <3>2, <3>3, <3>4 DEF TrueOf, Ok
    <2>3. CASE row.body # Request[c].body
      <3>1. Existing(c) = Error(409, "idempotency")
        BY <1>3, <2>3 DEF Existing
      <3> HIDE DEF row
      <3> QED
        BY <2>1, <2>3, <3>1 DEF TrueOf, StandsInTheWay, Error, Success
    <2> QED
      BY <2>2, <2>3
  <1> QED
    BY <1>2, <1>3

(* WagerService.Process leaves a result that is true once it commits. *)
LEMMA ProcessReady ==
    ASSUME ApiTypes, SendingsOver, Accepted, NEW c \in Calls, Process(c)
    PROVE  Ready(c)'
  <1>0. pc[c] = "begin" /\ Request[c].op = "create"
    BY DEF Process
  <1>1. Provider(c) = Principal(c).provider
    BY <1>0, RefusalFacts DEF Accepted, InFlight, Provider, SameProvider
  <1>2. ASSUME Leaves(c, None, Error(422, "input")) PROVE Ready(c)'
    <2>1. TrueOf(c, Id(c), Error(422, "input"), rows, wallets)
      BY ErrorTrue
    <2> QED
      BY <1>2, <2>1, NothingReady
  <1>3. ASSUME \E r \in rows : Clashes(r, c), Leaves(c, None, Existing(c)) PROVE Ready(c)'
    BY <1>0, <1>3, NothingReady, ExistingTrue
  <1>4. ASSUME Leaves(c, Row(c, "PENDING"), Error(422, "input")) PROVE Ready(c)'
    <2> PICK row : row = Row(c, "PENDING")
      OBVIOUS
    <2> PICK res : res = Error(422, "input")
      OBVIOUS
    <2>1. row \in StoredRow /\ row.id = Id(c)
      BY <1>0, RowType DEF Statuses, Row
    <2>2. res.cause # "none"
      BY DEF Error
    <2>3. TrueOf(c, Id(c), res, rows, wallets)
      BY ErrorTrue
    <2>4. Leaves(c, row, res)
      BY <1>4
    <2> QED
      BY <2>1, <2>2, <2>3, <2>4, NothingReady
  <1>5. ASSUME NEW status \in Decisions(c),
               Leaves(c, Row(c, status), Ok(StatusCode(Row(c, status)), Id(c), FALSE))
        PROVE  Ready(c)'
    <2> DEFINE row == Row(c, status)
    <2> DEFINE res == Ok(StatusCode(row), Id(c), FALSE)
    <2>1. row \in StoredRow /\ row # None
      BY <1>0, RowType, NoneAssumption DEF Decisions, Statuses
    <2>2. /\ row.id = Id(c) /\ row.provider = Provider(c)
          /\ row.key = Request[c].key /\ row.body = Request[c].body
      BY DEF Row
    <2>3. StatusCode(row) \in {200, 202}
      BY DEF StatusCode
    <2> HIDE DEF row
    <2>4. res.cause = "none" /\ res.row = Id(c) /\ ~res.replay /\ Success(res) /\ res.status # 409
      BY <2>3 DEF Ok, Success
    <2> HIDE DEF res
    <2>5. ShowsRow(c, res, rows \cup {row})
      <3>1. row \in rows \cup {row}
        OBVIOUS
      <3> QED
        BY <1>1, <2>2, <2>4, <3>1 DEF ShowsRow
    <2>6. TrueOf(c, Id(c), res, rows \cup {row}, wallets)
      BY <1>0, <2>4, <2>5 DEF TrueOf
    <2>7. Leaves(c, row, res)
      BY <1>5 DEF row, res
    <2> QED
      BY <1>0, <2>1, <2>2, <2>4, <2>6, <2>7, LeavesReady
  <1> QED
    BY <1>2, <1>3, <1>4, <1>5 DEF Process

(* WalletService.Create leaves a result that is true once it commits. *)
LEMMA OpenReady ==
    ASSUME ApiTypes, NEW c \in Calls, OpenWallet(c)
    PROVE  Ready(c)'
  <1>0. Request[c].op = "open"
    BY DEF OpenWallet
  <1>1. ASSUME Leaves(c, None, Error(422, "input")) PROVE Ready(c)'
    <2>1. TrueOf(c, Id(c), Error(422, "input"), rows, wallets)
      BY ErrorTrue
    <2> QED
      BY <1>1, <2>1, NothingReady
  <1>2. ASSUME Leaves(c, None, Error(409, "wallet")) PROVE Ready(c)'
    <2>1. TrueOf(c, Id(c), Error(409, "wallet"), rows, wallets)
      BY <1>0 DEF TrueOf, Error, Success
    <2> QED
      BY <1>2, <2>1, NothingReady
  <1>3. ASSUME Leaves(c, Wallet(c), Ok(201, Id(c), FALSE)) PROVE Ready(c)'
    <2> DEFINE row == Wallet(c)
    <2> DEFINE res == Ok(201, Id(c), FALSE)
    <2>1. row # None
      BY <1>0, WalletType, NoneAssumption
    <2>2. row.id = Id(c)
      BY DEF Wallet
    <2>3. res.cause = "none" /\ res.row = Id(c) /\ Success(res) /\ res.status # 409
      BY DEF Ok, Success
    <2>4. Leaves(c, row, res)
      BY <1>3
    <2> HIDE DEF row, res
    <2>5. TrueOf(c, Id(c), res, rows, wallets \cup {row})
      BY <1>0, <2>2, <2>3 DEF TrueOf
    <2> QED
      BY <1>0, <2>1, <2>2, <2>3, <2>4, <2>5, LeavesReady
  <1> QED
    BY <1>1, <1>2, <1>3 DEF OpenWallet

(* A result that is ready stays so until its transaction ends. *)
LEMMA ReadyStep ==
    ASSUME ApiTypes, SendingsOver, Accepted, ClosuresReady, [Next]_vars
    PROVE  ClosuresReady'
  <1> SUFFICES ASSUME NEW d \in Calls, pc'[d] = "end" PROVE Ready(d)'
    BY DEF ClosuresReady
  <1>0. d \in DOMAIN pc
    BY DEF ApiTypes
  <1>1. CASE Process(d) \/ OpenWallet(d)
    BY <1>1, ProcessReady, OpenReady
  <1>2. CASE ~(Process(d) \/ OpenWallet(d))
    <2>1. ASSUME NEW res, Answer(d, res) PROVE FALSE
      BY <1>0, <2>1 DEF Answer
    <2>a. ~Begins(d) /\ ~Moves(d)
      BY <2>1 DEF Begins, Moves
    <2>b. ~Read(d)
      BY <2>1 DEF Read
    <2>2. ~Begins(d) /\ ~Moves(d) /\ ~Answers(d)
      BY <2>1, <2>a, <2>b DEF Answers
    <2>3. pc[d] = "end" /\ held'[d] = held[d] /\ result'[d] = result[d] /\ sends'[d] = sends[d]
      BY <1>2, <2>2, Steps DEF vars, Finishes, Finish, Alone
    <2>4. Ready(d)
      BY <2>3 DEF ClosuresReady
    <2>5. Id(d)' = Id(d) /\ (Commits(d)' <=> Commits(d))
      BY <2>3 DEF Id, Commits
    <2>6. /\ \A r \in RowsAfter(d) : \E s \in RowsAfter(d)' : Same(r, s)
          /\ WalletsAfter(d) \subseteq WalletsAfter(d)'
      BY <2>3, <2>5, TablesGrow DEF RowsAfter, WalletsAfter, Same
    <2>7. TrueOf(d, Id(d), result[d], RowsAfter(d)', WalletsAfter(d)')
      BY <2>4, <2>6, TrueKept DEF Ready
    <2>8. TrueOf(d, Id(d), result[d], RowsAfter(d), WalletsAfter(d))'
      BY <2>3, <2>5, <2>7 DEF TrueOf, ShowsRow, StandsInTheWay, Principal, Provider, Success
    <2> QED
      BY <2>3, <2>4, <2>5, <2>8 DEF Ready, Success
  <1> QED
    BY <1>1, <1>2

(* What a read shows is there, and the client's. *)
LEMMA ReadTrue ==
    ASSUME ApiTypes, NEW c \in Calls, Read(c), NEW a \in answers', a \notin answers
    PROVE  TrueOf(c, a.id, a.res, rows', wallets')
  <1>0. rows' = rows /\ wallets' = wallets /\ Request[c].op \in {"get", "find"}
    BY DEF Read
  <1>1. ASSUME NEW res, Answer(c, res) PROVE a.res = res
    BY <1>1 DEF Answer
  <1>2. CASE Answer(c, Error(404, "input"))
    BY <1>1, <1>2, ErrorTrue
  <1>3. ASSUME NEW r \in rows, Answer(c, Ok(200, r.id, FALSE)),
               IF Request[c].op = "get" THEN Visible(c, r)
               ELSE r.provider = Provider(c) /\ r.ext = Request[c].ext
        PROVE  TrueOf(c, a.id, a.res, rows', wallets')
    <2>1. a.res.row = r.id /\ a.res.status = 200
      BY <1>1, <1>3 DEF Ok
    <2>2. r.provider = Principal(c).provider
      BY <1>0, <1>3 DEF Visible, Provider
    <2> QED
      BY <1>0, <2>1, <2>2 DEF TrueOf, ShowsRow
  <1> QED
    BY <1>2, <1>3 DEF Read

(* An answer is true when it is given, and about the sending that is under way. *)
LEMMA NewAnswerTrue ==
    ASSUME ApiTypes, ClosuresReady, [Next]_vars, NEW a \in answers', a \notin answers
    PROVE  /\ TrueOf(a.call, a.id, a.res, rows', wallets')
           /\ \E c \in Calls : \/ pc[c] \in InFlight /\ a.id = Id(c)
                               \/ a.id = << c, sends[c] + 1 >> /\ rows' = rows /\ wallets' = wallets
  <1>0. sends \in [Calls -> Nat]
    BY DEF ApiTypes
  <1>1. ASSUME NEW c, NEW res, Answer(c, res)
        PROVE  a.id = << c, sends'[c] >> /\ a.call = c /\ a.res = res
    BY <1>1 DEF Answer
  <1>3. PICK c \in Calls : Begins(c) \/ Answers(c)
    BY AnswerSteps
  <1>4. CASE Begins(c)
    <2>1. PICK status \in {400, 401, 403} : \E cause : Answer(c, Error(status, cause))
      BY <1>4 DEF Begins
    <2>2. PICK cause : Answer(c, Error(status, cause))
      BY <2>1
    <2>3. a.id = << c, sends[c] + 1 >> /\ rows' = rows /\ wallets' = wallets
      BY <1>0, <1>1, <1>4, <2>2 DEF Begins
    <2>4. TrueOf(c, a.id, Error(status, cause), rows', wallets')
      BY ErrorTrue
    <2> QED
      BY <1>1, <2>2, <2>3, <2>4
  <1>5. CASE Answers(c)
    <2>1. pc[c] \in InFlight /\ sends' = sends
      BY <1>5 DEF Answers
    <2>2. ASSUME NEW res, Answer(c, res)
          PROVE  a.id = Id(c) /\ a.call = c /\ a.res = res
      BY <1>1, <2>1, <2>2 DEF Id
    <2>3. ASSUME NEW status \in {500, 503}, NEW cause, Answer(c, Error(status, cause))
          PROVE  a.id = Id(c) /\ TrueOf(a.call, a.id, a.res, rows', wallets')
      <3>1. TrueOf(c, a.id, Error(status, cause), rows', wallets')
        BY ErrorTrue
      <3> QED
        BY <2>2, <2>3, <3>1
    <2>4. ASSUME pc[c] = "end", Store(c), Answer(c, result[c])
          PROVE  a.id = Id(c) /\ TrueOf(a.call, a.id, a.res, rows', wallets')
      <3>1. TrueOf(c, Id(c), result[c], RowsAfter(c), WalletsAfter(c))
        BY <2>4 DEF ClosuresReady, Ready
      <3>2. rows' = RowsAfter(c) /\ wallets' = WalletsAfter(c)
        BY <2>4 DEF Store, RowsAfter, WalletsAfter
      <3> QED
        BY <2>2, <2>4, <3>1, <3>2
    <2>5. ASSUME Read(c) PROVE a.id = Id(c) /\ TrueOf(a.call, a.id, a.res, rows', wallets')
      <3>1. PICK res : Answer(c, res)
        BY <2>5 DEF Read
      <3> QED
        BY <2>2, <2>5, <3>1, ReadTrue
    <2> QED
      BY <1>5, <2>1, <2>3, <2>4, <2>5 DEF Answers
  <1> QED
    BY <1>3, <1>4, <1>5

(* Answers that were true stay so; a new one is true. *)
LEMMA AnsweredStep ==
    ASSUME ApiTypes, ClosuresReady, Answered, [Next]_vars
    PROVE  Answered'
  <1>1. ASSUME NEW a \in answers' PROVE TrueOf(a.call, a.id, a.res, rows', wallets')
    <2>1. CASE a \in answers
      BY <2>1, TablesGrow, TrueKept DEF Answered
    <2>2. CASE a \notin answers
      BY <1>1, <2>2, NewAnswerTrue
    <2> QED
      BY <2>1, <2>2
  <1> QED
    BY <1>1 DEF Answered, TrueOf, ShowsRow, StandsInTheWay, Principal, Provider, Success

(* A refused sending has no open transaction that could still store a row. *)
LEMMA RefusalsStep ==
    ASSUME ApiTypes, SendingsOver, ClosuresReady, RefusalsStoreNothing, [Next]_vars
    PROVE  RefusalsStoreNothing'
  <1> SUFFICES ASSUME NEW a \in answers', a.res.status \in {400, 401, 403, 404, 409, 422, 500},
                      NEW r \in rows' \cup wallets', r.id = a.id
               PROVE  FALSE
    BY DEF RefusalsStoreNothing, Stored
  <1>1. CASE \E s \in rows \cup wallets : s.id = a.id
    <2>1. a \notin answers
      BY <1>1 DEF RefusalsStoreNothing, Stored
    <2> QED
      BY <1>1, <2>1, NewAnswerTrue, IdIsFresh
  <1>2. CASE ~\E s \in rows \cup wallets : s.id = a.id
    <2>1. PICK c \in Calls :
              /\ r.id = Id(c) /\ sends' = sends /\ pc[c] = "end" /\ Commits(c)
              /\ Answer(c, result[c]) \/ \E cause : Answer(c, Error(503, cause))
      BY <1>2, NewRow
    <2>2. a \notin answers
      <3>1. pc[c] \in InFlight /\ a.id = Id(c)
        BY <2>1 DEF InFlight
      <3> QED
        BY <3>1, IdIsFresh
    <2>3. a.res = result[c] \/ \E cause : a.res = Error(503, cause)
      BY <2>1, <2>2 DEF Answer
    <2>4. Success(result[c])
      BY <2>1 DEF ClosuresReady, Ready
    <2>5. a.res.status \in {200, 201, 202, 503}
      <3>1. \A cause : Error(503, cause).status = 503
        BY DEF Error
      <3> QED
        BY <2>3, <2>4, <3>1 DEF Success
    <2> QED
      BY <2>5
  <1> QED
    BY <1>1, <1>2

-----------------------------------------------------------------------------
(* Sendings, results and answers agree with the tables throughout. *)
THEOREM ApiInvariant == Spec => []ApiInv
  <1>1. ApiInv /\ [Next]_vars => ApiInv'
    BY TypesStep, SendingsStep, AcceptedStep, ReadyStep, AnsweredStep, RefusalsStep DEF ApiInv
  <1> QED
    BY <1>1, ApiInit, PTL DEF Spec

(* Every transaction shown to a client is committed and of its provider, and
   one shown to POST has its key and body: after retries, lost commits and
   resent requests alike.                                                  *)
THEOREM AnswersCorrect == Spec => []AnswersTrue
  <1>1. ApiInv => AnswersTrue
    BY DEF ApiInv, SendingsOver, Answered, TrueOf, ShowsRow, AnswersTrue, Success, Succeeded, Wager
  <1> QED
    BY <1>1, ApiInvariant, PTL

(* idempotentReplay is FALSE for the sending whose transaction stored the row,
   and TRUE for every other.                                               *)
THEOREM ReplayFlagCorrect == Spec => []ReplayFlagTrue
  <1>1. ApiInv => ReplayFlagTrue
    BY DEF ApiInv, SendingsOver, Answered, TrueOf, ReplayFlagTrue, Success, Succeeded
  <1> QED
    BY <1>1, ApiInvariant, PTL

(* What was refused, or failed within the service, is in no table: not now and
   not by a transaction that is still open.                                *)
THEOREM RefusalsCorrect == Spec => []RefusalsStoreNothing
  BY ApiInvariant, PTL DEF ApiInv

(* A 409 to a wager names a transaction that is really in its way, and stays. *)
THEOREM ConflictsCorrect == Spec => []ConflictsReal
  <1>1. ApiInv => ConflictsReal
    BY DEF ApiInv, SendingsOver, Answered, TrueOf, StandsInTheWay, ConflictsReal, Wager
  <1> QED
    BY <1>1, ApiInvariant, PTL
=============================================================================

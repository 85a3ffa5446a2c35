# A TLA+ model of the wallet and wager service

The service moves players' wallets on behalf of game providers. Operations (`BET`, `WIN`, `LOSS`,
`REFUND`, `ROLLBACK`) arrive over HTTP or SQS, any number of instances run against one PostgreSQL
database, and every change leaves a ledger entry and events. This directory models the parts in which
concurrency, failure and time decide whether money is right, checks small instances with TLC and proves
every safety property that holds with TLAPS for every instance. `PROJECT.json` relates definitions to
source lines and lists runs, mutants, hazards and theorems.

## 1. Inventory

| Component | State it keeps | Operations | Talks to |
| --- | --- | --- | --- |
| Wager domain (`internal/domain`) | none: validation, transitions, reference rules, money | `NewExternalWagerTransaction`, `ResolveReference`, `MovementDirection`, `MarkProcessed`, `MarkRejected`, `MarkFailed`, `Rehydrate…` | called by the services and by every load |
| Wager service (`application/wager_service.go`) | rows of `wager_transactions`, `wallets`, `wallet_ledger_entries`, `outbox_events` | `Process` | HTTP handler, SQS handler, repositories |
| Reference retrier (`application/wager_reference.go`) | retry columns of a `PENDING_REFERENCE` row | `RetryNextPendingReference`, `failPendingReference` | worker loop; same rows and locks as `Process` |
| Wallet service | wallets, openings | `Create`, `Get`, `ListLedger`, `Reconcile` | HTTP |
| Transaction manager, clock | the transaction in the context | begin, commit, roll back, three attempts; `clock_timestamp()` | every service |
| Outbox dispatcher | claim, attempts and `published_at` of `outbox_events` | `DispatchNext` | worker loop, SQS event queue |
| SQS consumer and inbox | receipts of a batch; `inbox_messages` | `PollOnce`, `Handle`, `Register`, `Complete`, `moveToDLQ`, `release` | wager queue, its dead letter queue, `Process` |
| Worker loop | stop, work and done channels, error delay | `Start`, `Stop`, `run` | drives the three workers of an instance |
| HTTP and authentication | none between requests | authorisation, input checks, error to status; ledger pages, reconciliation | clients, services, Keycloak's signing keys |
| Wiring (`cmd/server`, `internal/wiring`) | the hooks of Fx | start in order, stop in the opposite order within 20 s | pool, loops, HTTP server |
| Metrics, configuration, web console | none that the wallets depend on | observation | – |

They interact through the database (row locks, unique indexes, foreign keys, leases) and through two
queues; no two goroutines share memory that matters here. What is hard:

* **Interleaving under READ COMMITTED.** A request inserts its row, then locks the wallet, then decides
  and writes. Requests and retriers of all instances mix; only the wallet's row lock, the row lock of a
  claimed row and the unique indexes order them. Every request holds `FOR KEY SHARE` on the wallet,
  through its foreign key, when it asks for the lock.
* **Order of business events.** A refund may come before its bet; refund and rollback of one bet may race.
* **Time.** Stamps must not run back, although a request may wait for a lock; waiting for a reference ends
  at a TTL; a claim on an outbox event ends with its lease.
* **Retries around retries.** The transaction manager tries three times, clients and the queue send again, and
  a commit may succeed without an answer.
* **Shutdown.** Steps and requests are in flight when the service is told to stop, and may hang.
* **Failure.** Transactions die between any two statements; the dispatcher dies between publishing and
  confirming; SQS delivers again while a consumer still works; `failPendingReference` runs after the
  failed transaction has released its locks.

What makes the components correct: balances never negative or out of range; ledger, balance and version
agree; nothing is applied twice or reversed twice; answers stay true; terminal rows do not change; no
deadlock and no lost update; each outcome is in the outbox once; each event reaches the queue; each
message takes effect at most once, in the order of its wallet, and is never lost; an answer shows what is
stored and to its owner only; a walk through the ledger misses nothing; a shutdown cuts nothing off before
its deadline. The hazards in `PROJECT.json` name the lines where each of these could fail.

## 2. Modules

| Module | Models | Extends |
| --- | --- | --- |
| `WagerDomain` | the pure rules of `internal/domain`, payload hash, backoff | – |
| `WagerService` | `Process`, the retrier and `WalletService.Create` over PostgreSQL | `WagerDomain` |
| `OutboxDispatcher` | recording, claiming, publishing, confirming, retrying an event | – |
| `SqsConsumer` | the FIFO queue, `PollOnce`, `Handle` with the inbox, dead letters | – |
| `WalletBook` | abstract: a book of balances in which every operation is one step | – |
| `WagerServiceBook` | the refinement mapping from the committed tables to the book | `WagerService`, instantiates `WalletBook` |
| `WagerApi` | HTTP handlers, authorisation, transaction manager, errors and statuses, clients that send again | – |
| `LedgerPages` | ledger pagination and reconciliation while movements commit | – |
| `WorkerLoop` | `Start`, `Stop` and `run` of a loop | – |
| `ServiceLifecycle` | start and shutdown of an instance: pool, loops, HTTP server | `WorkerLoop` |
| `MC…` | scenarios for TLC | the above |
| `WagerServiceSafety` → `WagerServiceOutcomes` | proofs about `WagerService`: types, locks and ledger; decisions, waits, replies and outbox | `WagerService` |
| `WagerServiceRefinement` | proof that `WagerService` implements `WalletBook` | `WagerServiceOutcomes`, `WagerServiceBook` |
| `OutboxDispatcherProofs`, `SqsConsumerProofs`, `WagerApiProofs`, `LedgerPagesProofs` | proofs about the module of the name | that module |
| `ServiceLifecycleProofs` | proofs about the loops and the service that runs them | `ServiceLifecycle` |

Operators whose name starts with `Bug` are mutants: plausible mistakes at that place of the code, used to
show that each property notices one. No action uses them.

### WagerService

`wallets`, `wagers`, `ledger` and `outbox` are the **committed** tables. A transaction's own writes are
invisible until it commits: a request whose `pc` is `lock`, `decide` or `commit` has inserted its row, and
everything else it writes appears in its committing step, atomically. Each submission is a process of its
own with a command from the constant `Command`, so a client's retry or a redelivery is a second request
with the same command. Rows are named by the request that inserted them; a wallet names its `OPENING` row.

| pc | Code | Actions |
| --- | --- | --- |
| `idle` | `parseWagerRequest`, `newTransaction` | `Begin`, `RefuseInvalid` |
| `insert` | `wagers.Create`, `resolveExistingTransaction` | `Insert`, `Replay`, `RefuseDangling` |
| `lock` | `lockWallet`, then `clock.Now` | `LockWallet`, `RefuseMismatch` |
| `decide` | `resolveReference`, the duplicate check of `settle`, expiration | `Decide` |
| `commit` | `settle`, `applyMovement`, `reject`, `markPendingReference`, rescheduling | `CommitMovement`, `CommitLoss`, `CommitReject`, `CommitPending`, `Reschedule`, `CommitError` |
| `fail` | `failPendingReference`, a transaction of its own | `FailPending` |

`Claim` is `FOR UPDATE SKIP LOCKED`; `Abort` is any transient failure or crash, after which the transaction
manager, the client or the loop tries again. `CommitError` is a permanent error of the domain at the commit, `FailAttempt`
any other one of a retrier's attempt, whichever statement meets it: both lead to `failPendingReference`. Locks are PostgreSQL's: `Blocks` says who waits for whom, from
the conflict table of the modes the statements take, and an action is enabled when nobody blocks it.
The unique indexes on external id and idempotency key, the foreign key to the wallet and the versioned
`UPDATE` are control and so part of the actions. The CHECKs, the triggers of migration 13 and the index on
successful reversals only catch mistakes of the code: they are **not** guards, but the properties
`TypeOK`, `TerminalRowsKept`, `ReversalsNetToZero`, which say that they never fire. Loading a row validates
it; that no stored row is refused is the property `RowsLoadable`, not an assumption.

The foreign key from a row to its referenced row takes `FOR KEY SHARE` there too. It never meets a
retrier's `FOR UPDATE`: a reference is stored only once it is `PROCESSED`, and a retrier only claims rows
that are pending. The model therefore has no such lock.

### OutboxDispatcher

One action per statement of `DispatchNext`: `ReadClock`, `ClaimPending`, `Publish` or `PublishFails`,
`MarkPublished` or `ScheduleRetry`, with `Crash` between any two. The lease counts from the clock read
*before* the claim. `PublishFails` covers an error whose message was accepted anyway. The queue drops a
copy it remembers (`DedupWindow`), so `queue` holds what consumers see. `Record` lets the event be due from
the start of its transaction, at most `MaxTransaction` earlier. The clock reads of the confirming and of the
rescheduling step are merged with their updates.

### SqsConsumer

Messages are numbered in the order they were sent; `Group` is the wallet. The queue is modelled from how the
code and `init-sqs.sh` use it (FIFO groups, receipt handles, redrive after `MaxReceive`). Time is abstracted:
a message in flight may return at any moment (`Expire`), which includes every visibility timeout and every
delay `release` chooses; a `release` is thus the end of the consumer's interest in the message. `Register`,
`Process`, `Commit` are the handler's one transaction, in which `INSERT … ON CONFLICT DO NOTHING` waits for
an uncommitted row of the same id. `Process` itself is one step here; its inside is `WagerService`. `Retry` is
another attempt of `WithinTransaction`, in place; `Reject` a permanent error of any statement of the transaction or of its
commit, which ends in the dead letter queue; `Fail` what is transient beyond the attempts.
The consumers' stop between two messages is one of the failures of `Fail`.

### WalletBook and WagerServiceBook

`WalletBook` says what the service promises, without transactions, locks, retries, ledger or clock: a wallet is
opened, and an operation is processed (`Bet`, `Win`, `Loss`, `Undo`), waits, is rejected or given up, each in one
step. Its `effect` is what it added to its wallet, and `Undo` adds the opposite of the effect of the one operation
it names, which nobody has undone. `WagerServiceBook` reads the committed tables as such a book: `fateBar` is
the status of a row, `effectBar` its signed movement, `undoesBar` the reference of a processed reversal.
Inserting, locking, deciding, aborting, rescheduling and replaying are stuttering steps of the book.

### WagerApi

A call is a request of a client with its token, key, external id and body; sending it again is the same call, and
each sending has the fresh id that `newTransaction` would give its row. `Send` is authentication, authorisation
and the checks of the handler, in their order (`Refusal`). `Process` and `OpenWallet` are the closures of the
services: they read the committed rows, insert one and leave a result, in one step, since `WagerService` has the
inside; the insert waits for an uncommitted row with the same unique key. The body decides what the domain says of
it (`Malformed`, `Invalid`, `Mismatched`, `Referring`). `End` commits unless the closure failed, and answers.
`Fail` is an error of a statement or of the commit; `AfterFailure` is the loop of `WithinTransaction` and the mapping of
what is left by `resolveError`. `CommitLost` commits and loses the answer. `Die` is an instance or a connection to
a client that is gone. `ToldToSend` is a client that has not been answered, or with 503. `Read` and `ReadFails` are outside of `WithinTransaction`, where only `IsTransient` decides
between 503 and 500 (`Without`); within one, `isUnavailable` does (`Within`). `answers` keeps every answer given,
delivered or not. `made`, chosen at the start from `Mixes`, is the set of calls that clients make in a behaviour. Errors are five
classes, by what the code does with them: conflicts (40001, 40P01), other SQLSTATEs of `isUnavailable`, network errors that
both `isUnavailable` and `IsTransient` know, a connection that breaks within a message (`io.ErrUnexpectedEOF`, which
`isUnavailable` alone knows), and the rest.

### LedgerPages

One wallet; other wallets are separated by `wallet_id`. A movement is a transaction of several steps (`LockWallet`,
`StoreBalance`, `InsertEntry`, then `Commit` or `Rollback`): `balance` and `ledger` are what is committed, and `Entries` is the
table with the row that is not. Stamps never run back among the entries of a wallet, which `WagerService` shows (`LedgerInTimeOrder`), but may tie, and ids are
any unused ones, as random uuids are. `Page` asks for one row more than the limit, shows the limit, and points the
cursor at the last row shown. Each walk remembers what the ledger held when it began and what it has shown.
Encoding a cursor is JSON and base64 of a time PostgreSQL stored with microseconds: nothing is lost on the way
back. A page reads one table in one statement, and is one step.

`Reconcile` is one statement over two tables, and is not one step: `ReadBalance` takes the snapshot and reads the wallet,
`ReadEntries` adds up the entries, and movements write, commit and roll back in between. What makes the two agree is that
the entries are those of the transactions in the snapshot (`Joined`), neither those committed since nor one that is only
written. A statement of its own for the entries would not see them so (`BugReadApart`).

### WorkerLoop and ServiceLifecycle

Every `Start` that takes effect makes a run with contexts of its own; `current` is the run whose channels the
fields of the loop hold, which `Stop` takes and sets to nil (`Take`) before it signals, waits and, at its
return, cancels the work. The condition of the `for` and the call of the step are two steps of the model,
because a `Stop` may come between them. Pauses have no length: a timer may fire at any moment, and
`errorDelay` only counts.

`ServiceLifecycle` puts the loops into an instance: Fx starts the hooks of pool, loops and HTTP server in the order
they were appended, stops them in the opposite order under one deadline, and starts no hook of the shutdown after
it has passed (`Expire`). What hangs then ends with the process. Fx and Fiber are modelled from how the code uses them.

## 3. Runs

| Run | Properties | What it shows | States |
| --- | --- | --- | --- |
| `submissions` | `AppliedOnce`, `RepliesKept`, `LedgerInTimeOrder` | one bet sent four ways, or next to a win and refused commands; one transient failure | 146 000 |
| `waits` | `TypeOK`, `DecisionsStand`, `ReversalsNetToZero`, `LedgerExplainsWallet`, `OutboxTellsOutcome`, `NotFoundAfterTTL`, `TerminalRowsKept` | bet, refund and rollback in any order, or a waiting win that may not fit and `failPendingReference`; two retriers | 108 000 |
| `references` | `NoLostRace`, `RowsLoadable`, `ImplementsBook` | rollback of a spent win and of a rollback, or wrong amount, wrong wallet, a loss and two wallets | 78 000 |
| `retrier` | `NoLockCycle`, `Serialised`, `WaitsEnd` | a wait ends, nobody deadlocks, two retriers, one failure, transient or permanent | 51 000 |
| `late_reference` | `NotFoundMeansNotProcessed` (violated) | see section 6 | – |
| `outbox` | `LeaseIsExclusive`, `PublishedWasSent`, `EventsLeave` | two dispatchers, two events, a failure, leases that run out | 884 000 |
| `sqs` | `HandledOnce`, `NothingLost`, `GroupOrder` | two consumers, resent and reused ids, attempts repeated in place | 2 460 000 |
| `sqs_liveness` | `MessagesLeave` | every message leaves the queue | 87 000 |
| `api` | `AnswersTrue`, `ReplayFlagTrue`, `RefusalsStoreNothing`, `ConflictsReal`, `ClientsAreAnswered` | one transaction sent four ways, read by two providers, wallets opened twice, every refusal; failed attempts, lost commits, dead instances; `ClientsAreAnswered` is about transactions, not about reads or unavailable signing keys | 763 000 |
| `ledger_pages` | `WalkComplete`, `WalkDescends`, `NoFalseAlarm`, `WalksEnd` | walks through a growing ledger with equal times; a reconciliation read in steps beside movements that write and commit | 430 000 |
| `loop` | `WorkOutlivesStop`, `OneLateStep`, `SecondRunIsStopped`, `StopReturns`, `LoopGoesOn` | Starts, Stops and runs race; steps hang and fail | 53 000 |
| `lifecycle` | `PoolOutlivesWork`, `NothingCutOff`, `ShutdownDrains` | an instance with two loops and a request, from start to exit; the deadline is not what ends a shutdown | 800 |

Scenarios. The runs `submissions`, `waits` and `references` have more requests than race at once: a behaviour
submits the commands of one of the run's scenarios, which a `CONSTRAINT` on the requests sent says. In `api` the sets of
calls in `Scenarios` play that part: three of the ways to send a transaction, one with reads, two openings, and one with
each request to refuse.

Bounds. `MaxClock`, `MaxAborts`, `MaxFaults`, `MaxMoney`, `MaxReceive`, `MaxTransaction`, `BatchSize`, `MaxRuns`,
`MaxAttempts`, `MaxStamp` and `MaxBalance` are named constants. They are chosen so that the interesting case happens: the clock passes the TTL where a run
is about waiting (`waits`, `retrier`, `late_reference`) and stays below it in `references`, where only the
interleaving matters; balances reach zero and, with the waiting win of `waits`, `MaxMoney`; a
lease of 1 ends while its holder is at work; a message can be received until the redrive policy takes
it. Two processes on each contested object are the least that race; the scenarios have two to four requests.
The proofs remove the bounds for what they cover. `Permutations` of the consumers are a symmetry of `sqs`,
because no action names one; the runs with liveness use none.

In `api` a transaction has two attempts (`MaxAttempts`; three in the code: a first, some between,
and a last one are treated alike beyond the comparison with the bound), and the faults suffice for both to fail or for a lost commit and another
failure; in `ledger_pages` more entries come than a page holds, and there are fewer stamps than entries, so
that times tie across pages; in `loop` a loop may be started anew while callers still wait in `Stop`.

Deadlock is checked in the runs of `WagerService`, which ends in `Quiescent` (all answered, clock at its bound; where a
run has several scenarios the requests of the others stay unsent and possible), and
of `OutboxDispatcher`, `SqsConsumer` and `LedgerPages`, which go on for ever. A process that has exited, a loop that
was stopped and clients that have their answers do nothing more: the runs of `ServiceLifecycle`, `WorkerLoop` and
`WagerApi` do not check it, and their liveness properties say that nobody waits for ever.

Fairness. Weak fairness of `Tick`, of each retrier, dispatcher and consumer, of a running request, and of the
queue's `Expire` and `Redrive`. The code justifies it: `Loop.run` calls its step for ever, errors only delay
the next one; statements in a transaction wait for locks, never for a client; the queue's visibility timeout
ends by itself. Clients need not submit anything, and failures are bounded, so a fair run has an end of
failures, which is what a promise of progress must presuppose. `WaitsEnd` and `EventsLeave` except what lies
beyond the bounded clock: an expiration, a next attempt or a lease after `MaxClock`.
`LoopFairness` lets a step run for ever until its work context is cancelled, and then return: every call a step
makes takes that context. `LifeSpec` is fair to the hooks of the shutdown, to the exit, to handlers and to the goroutines of
the loops, whose steps end as they do in `LoopFairness`; it is not fair to `Expire`. `ShutdownDrains` therefore says
that a shutdown ends by itself, unless the deadline happens to pass first. It would not if `Stop` waited for a run without
having signalled it, if a hook waited for one that is stopped later, or if a start that failed half way left a hook that
cannot be stopped. That the deadline ends whatever hangs is a promise of Fx, which the model takes over (`Exit`). `WagerApi` is
fair to handlers and to clients that have begun and do as `Retry-After` says (`Resend`), not to a first sending, `LedgerPages` to clients that follow `nextCursor`.

## 4. Proofs

Every invariant and action property of the passing runs is also a theorem, and so is the refinement of the
book. All theorems hold for arbitrary requests, commands, wallets, retriers, events, dispatchers, consumers, loops,
ledgers, delays and bounds. They assume what the constants' `ASSUME`s say (types; requests, retriers, wallets and "none" are
different things; durations are positive), which TLC evaluates in the runs.

**WagerService.** `TypeCorrect` needs that a settled movement stays in `Money`: `LacksFunds` and `Overflows`
stand before the update (`BalanceInRange`), and that a retrier beyond `idle` has a row (`WorkOK`).

`Serialised` is the inductive invariant of the locks, in five parts: `LocksHeld` (locks are exactly where the
program counters say, and a claimed row is still pending), `RowsHaveWallets`, `CopyIsCurrent` (what was read
under the lock is what is stored), `ClockAhead` (no stamp is in the future, and who holds a wallet has read a
time no earlier than its stamps) and `ClashFree` (the unique indexes, also among uncommitted rows). None is
inductive alone: `CopyIsCurrent` rests on the exclusiveness in `LocksHeld`, `ClockAhead` on reading the clock
after the lock, `ClashFree` on an insert waiting for clashing ones. From it follow

* `NoLostRaceCorrect`: neither the versioned update nor a timestamp check ever fails;
* `AppliedOnceCorrect`, the committed part of `ClashFree`;
* `NoLockCycleCorrect`: a waiting process waits for one that is further on in insert < wallet, so no set waits
  on itself;
* `TerminalRowsKeptCorrect`, an action property: a commit writes the row of its own transaction, which is
  absent or pending;
* `LedgerCorrect`: with `CopyIsCurrent`, each movement appends an entry that continues the chain;
* `LedgerTimesCorrect`: by `ClockAhead`, the time a movement was given under the lock is no earlier than the
  wallet's, and the wallet's is that of its last entry.

`DecisionsStand` is the second invariant: running commands are well formed, a plan made under the wallet lock
still holds at the commit (`PlansStand`), and every processed row moved its wallet by its amount in the
direction of its kind (`RowsStand`). The step that matters is that another process cannot reverse the same
reference in between: its row would have the reference's wallet (`FitsMeans`), whose lock is taken. From it
follow `ReversalsCorrect` and, with the shape of the rows each commit writes, `RowsLoadableCorrect`. Three more
properties of the outcomes need something of their own beside it:

* `NotFoundCorrect` needs `WaitsTimed`: a waiting row expires no earlier than a TTL after its creation, and whoever
  is about to commit `REFERENCE_NOT_FOUND` is a retrier whose clock has passed that expiration. The row it claimed
  cannot change under it (`ClaimedRowKept`), and no other decision has this code (`PlanForKeepsLooking`).
* `RepliesCorrect`: rows never go away and terminal ones never change, so an old reply stays true (`PresentKept`);
  a new one is made from a row that is committed by the same step, or was found committed (`NewReply`).
* `OutboxCorrect` needs `MoversProcessed` (only a processed request has an entry). Events are written with the row
  and entry they tell of (`ToldWritten`), for a request that had written nothing but that it waits (`ToldBefore`), and
  later steps, which append entries of other transactions, leave the position and so the version told unchanged
  (`MovedKept`).

**WagerService implements WalletBook.** `BookImplemented` is `Spec => ImplementsBook`. The invariant is the conjunction
of the above and `PlansNamed`: a plan that is about to be committed names the row whose external id its command
gives. That every step maps to a step of the book or a stutter goes by kind of step: a settlement is a `Bet`, `Win`,
`Loss` or `Undo` (`SettleStep`, from `DecisionsStand`, since it is `PlansStand` that makes the undone operation
processed and not yet undone at the commit, and `OppositeMovement`), a waiting or refused one a `Stay`
(`UnsettledStep`), creation an `OpenWallet` (`CreateStep`), and everything else leaves the book as it was
(`OnlySettling`). That the operation is still open in the book (`StillOpen`) rests on `ClashFree`.

**OutboxDispatcher.** `ClaimStands` strengthens `LeaseIsExclusive` by the end of the claim in the table: that
is what keeps others away while `clock < readAt + Lease`. `MarkIsEarned` (who is about to confirm has sent)
makes `PublishedWasSent` inductive. `TypeCorrect` of that module is proved along the way.

**SqsConsumer.** The invariant says of each consumer at work where it stands (`InPlace`): it owns the uncommitted
inbox row of its message while it processes (`OwnsInsert`), it deletes only what is committed or a dead letter
(`EarnsDelete`), and in its batch nothing was skipped (`NothingSkipped`: what was sent earlier to the same group is
still in the batch, or settled). With `InboxCounts` (an id was handled once if the inbox has its row, and never
otherwise) this gives `HandledOnceCorrect`, `NothingLostCorrect` and `GroupOrderCorrect`. `NothingSkipped` is made
true by the queue's order at `Receive`, and kept because a consumer goes on only past a settled message and
otherwise gives up the whole batch. `TypeCorrect` of that module is proved and not part of a run. That the batch has a first message rests on `<` being well founded on the
natural numbers (`FirstExists`).

**WorkerLoop and ServiceLifecycle.** `LoopInv` says of the loops that runs are numbered without a gap and one that was
started is in the fields or was taken by some `Stop` (`RunsTaken`), that a work context is cancelled by the `Stop` that
took its run, which has returned with the run over or its deadline passed (`CancelEarned`), and that after a late
step a run can only end (`LateIsLast`). `StopLetsWorkFinish`, `AtMostOneLateStep` and `OlderRunIsStopped` follow, for any
number of loops, callers, runs and restarts. `ServiceRunsLoops` shows that a service takes only steps its loops allow
(`LifeSpec => Spec`), so `LoopInv` holds there. `LifeInv` adds how Fx uses them: each loop is started once and
stopped once (`FxLoop`), until the shutdown the pool is open and no `Stop` was called (`Starting`), and what is not
below the hook being stopped has come to rest unless the deadline has passed (`StoppedInOrder`). `PoolIsLast` (a closed
pool has nobody left to use it) and `GracefulExit` rest on all of them. The order of the hooks is a constant sequence
of loops of any length (`OrderFacts`).

**WagerApi.** `ApiInv` has four parts beside the types. `SendingsOver`: the uuid of a sending is in no table and in no
answer while its call is in a service. `Accepted`: who is in a service has passed the checks. `ClosuresReady`: what a
closure has left at the end of an attempt is true of the tables as they will be if it commits, and only successes
commit. `Answered`: every answer given is true of the tables. It stays so because tables only grow, up to the status of a row
(`TablesGrow`, `TrueKept`); a new one is true by `ClosuresReady` (`NewAnswerTrue`). `SendingsOver` is what makes the
replay flag right: a row found under the key cannot be the caller's own (`ExistingTrue`), because an attempt whose commit
may have taken effect is not repeated within the sending (`CommitLost` ends it). It also keeps a refused sending from
storing anything later (`RefusalsStep`). The proofs assume that a row and "none" differ (`NoneAssumption`).

**LedgerPages.** `OnCourse` says of a walk that is under way that its cursor divides (`CursorDivides`): what it began with
is shown or past the cursor, and nothing shown is past it. The operators of the query are proved first, for
finite sets of rows with ids of their own (`Rows`), on which `Newer` is a total order (`NewerOrder`): the first `k` rows
include whatever is newer than one of them (`FirstIsUpward`), a result shorter than its limit is complete
(`ShortIsAll`), so that asking for one row more tells whether another page follows, and the last row shown
separates the page from the rest (`PageFacts`). `WalksAreComplete` and `WalksDescend` follow for any ledger, page size,
ties of time and commits in between. `ReconciliationCorrect` is about a reconciliation read in two steps: `BalanceExplained` (the committed
balance is the sum of the committed entries) holds because an open movement has been computed from that balance
(`MovementFits`: nobody else moves the wallet while it is locked) and `Total` grows by the change of a new entry
(`TotalAdds`). `CheckFits` is what holds while a reconciliation is between its steps: the balance it has read is the sum of the rows in
its snapshot, picked from the table as it is now. Writing, rolling back or committing a movement adds no row of the
snapshot and takes none away (`CommitUnseen`).
`Total` recurs over an arbitrary choice of the next entry; that it defines a function (`SumExists`), that the order does
not matter (`SumAnyOrder`) and that the rest of the ledger does not either (`SumsAgree`) is shown without an induction
rule: of all subsets for which it fails, one has no smaller such subset (`SmallestSubset`), and there it holds.

**Only model-checked.** Liveness (`WaitsEnd`, `EventsLeave`, `MessagesLeave`, `ClientsAreAnswered`, `WalksEnd`,
`StopReturns`, `LoopGoesOn`, `ShutdownDrains`) is outside the prover's reach, as is what the recursive `doubled` computes for every attempt; the proofs only use that a delay is in its range.

## 5. What is not modelled

* Text: parsing and formatting of money, JSON, UUIDs, SQL and log messages. Money is a natural number of cents.
* `WalletService.Get`, the health checks, the backlog queries and the console: each reads and shows, and no
  property depends on it.
* Metrics and logging; reading the configuration, whose values are the constants of the modules.
* Signatures, issuer, audience and expiry of tokens: the library checks them, and `WagerApi` has one Boolean for it.
* Body limits, panics and correlation ids of the HTTP server.
* Duplicate `WalletService.Create` calls in `WagerService` (`WagerApi` has them). Creation is one step there: its
  rows are new, and no other transaction can see or wait for them before the commit.
* Ordering of outbox events between instances: events are claimed by `next_attempt_at`, and `ARCHITECTURE.md`
  section 12 tells consumers to order by wallet version. `OutboxTellsOutcome` shows that version to be right.

## 6. Findings

`late_reference`: a waiting transaction whose TTL is over is rejected with `REFERENCE_NOT_FOUND` without another
look for the reference (`wager_reference.go:153`), and the last attempt is scheduled at the expiration itself. A
reference that was processed between the last attempt but one and the TTL is therefore not used, whereas
`ARCHITECTURE.md:134` gives the code for a "referência não processada até o TTL" and the stored message says
"referenced transaction was not processed before expiration". TLC's counterexample: the refund waits, its bet
is processed in time, the clock reaches the expiration, the refund is rejected. `NotFoundAfterTTL`, the part
that does hold, is checked in `waits` and proved.

Further observations, met while modelling, that no run is made of:

* A connection that breaks between the commit and its answer is reported as 503 (`transaction_manager.go:63`),
  although the transaction is stored; `ARCHITECTURE.md:121` says of transient failures "nada é persistido". Nothing is
  lost or doubled by it: the client sends again and gets the stored result as a replay, which `AnswersTrue` and
  `ReplayFlagTrue` check under that fault (`CommitLost`).
* `pool.go:25` wants every wait to surface "as a retryable 503" and `ARCHITECTURE.md:74` says that long waits become
  503, but only `WithinTransaction` knows the SQLSTATEs; a `GET` that runs into `statement_timeout` is answered with
  500 (`ReadFails`).
* `verifier.go:57` wraps every failure as an invalid token. While the signing keys cannot be downloaded a good token
  gets 401 (`KeysUnavailable`), where `ARCHITECTURE.md:288` promises 503 with `Retry-After` for a dependency that is
  down.
* `Loop.Stop` sets the fields to nil before it waits. A `Start` in the meantime, or after a `Stop` that gave up, makes a
  second run ("Starting a running loop does nothing", `loop.go:50`), and a second `Stop` returns nil while the step is
  in flight (`loop.go:71`). The service is not exposed to it: Fx starts and stops every loop once, which is what
  `ServiceLifecycle` models. `SecondRunIsStopped` is the part that does hold.
* One permanent error is enough for `FAILED` (`wager_reference.go:117`), where `failure_codes.go` speaks of repeated
  unexpected errors, and `FAILED` leaves no event, which is why `OutboxTellsOutcome` expects none.

## 7. Plan

Done: all the modules above; every safety property that holds, and the refinement of `WalletBook`, are checked and
proved. Next, in order:

1. **Composition** of `SqsConsumer` with `WagerService`: the inbox and the idempotency key together.
2. `LedgerPages` as what a client sees of one wallet of `WagerService`: its `Commit`, with stamps that do not run back, is
   what `LedgerTimesCorrect` and `LedgerCorrect` say of the ledger there; a refinement mapping would say it in one step.

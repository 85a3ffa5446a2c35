----------------------------- MODULE WorkerLoop -----------------------------
(***************************************************************************)
(* The background loops of the service (outbox publisher, pending          *)
(* reference retrier, SQS consumer).  A Loop is started and stopped by any *)
(* goroutine; every Start that takes effect makes a run, which is a        *)
(* goroutine with a stop context, a work context and a done channel of its *)
(* own.  Pauses are abstracted: a timer may fire at any moment.  A step    *)
(* ends when it pleases, and in the end when its work context is cancelled.*)
(***************************************************************************)
EXTENDS Naturals

CONSTANTS
    Loops,          \* the Loop objects
    Callers,        \* goroutines that call Stop, each once
    NoLoop,
    MaxRuns,        \* bound on the runs of a loop
    MinErrorDelay, MaxErrorDelay    \* Options, in units of the smallest pause

ASSUME DelayAssumption ==
    /\ MinErrorDelay \in Nat \ {0} /\ MaxErrorDelay \in Nat
    /\ MinErrorDelay <= MaxErrorDelay
ASSUME RunsAssumption == MaxRuns \in Nat
ASSUME NoLoopAssumption == NoLoop \notin Loops

Runs == 1 .. MaxRuns

VARIABLES
    current,    \* the run whose channels the fields of a loop hold; 0: nil
    started,    \* how many runs a loop has had
    at,         \* where each run is
    stopped,    \* its stop context is cancelled
    cancelled,  \* its work context is cancelled
    errorDelay, \* the pause after its next failure
    late,       \* steps it has begun since its stop context was cancelled
    call        \* where each caller is in Stop (idle, signal, wait, returned), the loop
                \* and run it took, and whether it returned nil or the deadline's error

runVars == << current, started, at, stopped, cancelled, errorDelay, late >>
loopVars == << runVars, call >>

NoCall == [pc |-> "idle", loop |-> NoLoop, run |-> 0, result |-> "none"]

LoopInit ==
    /\ current = [l \in Loops |-> 0]
    /\ started = [l \in Loops |-> 0]
    /\ at = [l \in Loops |-> [r \in Runs |-> "none"]]
    /\ stopped = [l \in Loops |-> [r \in Runs |-> FALSE]]
    /\ cancelled = [l \in Loops |-> [r \in Runs |-> FALSE]]
    /\ errorDelay = [l \in Loops |-> [r \in Runs |-> MinErrorDelay]]
    /\ late = [l \in Loops |-> [r \in Runs |-> 0]]
    /\ call = [c \in Callers |-> NoCall]

-----------------------------------------------------------------------------
(***************************************************************************)
(* Start and Stop.  Both touch the fields of the loop under its mutex.     *)
(***************************************************************************)

(* Mutant: Start does not look whether the loop runs. *)
BugStartTwice(l) ==
    /\ started[l] < MaxRuns
    /\ started' = [started EXCEPT ![l] = @ + 1]
    /\ current' = [current EXCEPT ![l] = started[l] + 1]
    /\ at' = [at EXCEPT ![l][started[l] + 1] = "check"]
    /\ UNCHANGED << stopped, cancelled, errorDelay, late, call >>

(* The loop has no run: contexts and channel are made, the goroutine starts. *)
Start(l) ==
    /\ current[l] = 0 /\ started[l] < MaxRuns
    /\ started' = [started EXCEPT ![l] = @ + 1]
    /\ current' = [current EXCEPT ![l] = started[l] + 1]
    /\ at' = [at EXCEPT ![l][started[l] + 1] = "check"]
    /\ UNCHANGED << stopped, cancelled, errorDelay, late, call >>

(* Start of a loop whose fields are set returns at once. *)
StartAgain(l) == current[l] # 0 /\ UNCHANGED loopVars

(* Stop takes the fields, and leaves nil behind. *)
Take(c, l) ==
    /\ call[c].pc = "idle"
    /\ current' = [current EXCEPT ![l] = 0]
    /\ call' = [call EXCEPT ![c] =
                  [pc |-> IF current[l] = 0 THEN "returned" ELSE "signal", loop |-> l,
                   run |-> current[l], result |-> IF current[l] = 0 THEN "nil" ELSE "none"]]
    /\ UNCHANGED << started, at, stopped, cancelled, errorDelay, late >>

(* Mutant: stop() cancels the work context as well. *)
BugStopCancelsWork(c) ==
    /\ call[c].pc = "signal"
    /\ stopped' = [stopped EXCEPT ![call[c].loop][call[c].run] = TRUE]
    /\ cancelled' = [cancelled EXCEPT ![call[c].loop][call[c].run] = TRUE]
    /\ call' = [call EXCEPT ![c].pc = "wait"]
    /\ UNCHANGED << current, started, at, errorDelay, late >>

(* Mutant: Stop waits for the run without having told it to stop. *)
BugWaitOnly(c) ==
    /\ call[c].pc = "signal"
    /\ call' = [call EXCEPT ![c].pc = "wait"]
    /\ UNCHANGED << current, started, at, stopped, cancelled, errorDelay, late >>

(* stop() *)
Signal(c) ==
    /\ call[c].pc = "signal"
    /\ stopped' = [stopped EXCEPT ![call[c].loop][call[c].run] = TRUE]
    /\ call' = [call EXCEPT ![c].pc = "wait"]
    /\ UNCHANGED << current, started, at, cancelled, errorDelay, late >>

(* Mutant: a Stop that times out does not cancel the work. *)
BugLeaveWork(c, result) ==
    /\ call[c].pc = "wait"
    /\ cancelled' = [cancelled EXCEPT ![call[c].loop][call[c].run] = result = "nil"]
    /\ call' = [call EXCEPT ![c].pc = "returned", ![c].result = result]
    /\ UNCHANGED << current, started, at, stopped, errorDelay, late >>

(* Stop returns, and the deferred cancelWork() runs. *)
ReturnFromStop(c, result) ==
    /\ call[c].pc = "wait"
    /\ cancelled' = [cancelled EXCEPT ![call[c].loop][call[c].run] = TRUE]
    /\ call' = [call EXCEPT ![c].pc = "returned", ![c].result = result]
    /\ UNCHANGED << current, started, at, stopped, errorDelay, late >>

(* <-done *)
Drained(c) ==
    /\ call[c].pc = "wait" /\ at[call[c].loop][call[c].run] = "over"
    /\ ReturnFromStop(c, "nil")

(* <-ctx.Done(): the deadline of the caller passes. *)
DeadlinePassed(c) == ReturnFromStop(c, "deadline")

-----------------------------------------------------------------------------
(***************************************************************************)
(* run                                                                     *)
(***************************************************************************)

(* Mutant: run watches the wrong context. *)
BugWatchWork(l, r) == cancelled[l][r]

(* stop.Err() != nil *)
Stopping(l, r) == stopped[l][r]

(* The condition of the for statement. *)
Check(l, r) ==
    /\ at[l][r] = "check"
    /\ at' = [at EXCEPT ![l][r] = IF Stopping(l, r) THEN "over" ELSE "call"]
    /\ UNCHANGED << current, started, stopped, cancelled, errorDelay, late, call >>

(* The step is called; Stop may have come in between. *)
BeginStep(l, r) ==
    /\ at[l][r] = "call"
    /\ at' = [at EXCEPT ![l][r] = "step"]
    /\ late' = [late EXCEPT ![l][r] = IF stopped[l][r] THEN @ + 1 ELSE @]
    /\ UNCHANGED << current, started, stopped, cancelled, errorDelay, call >>

Longer(d) == IF 2 * d < MaxErrorDelay THEN 2 * d ELSE MaxErrorDelay

(* Mutant: a step that fails ends the loop. *)
BugErrorEnds(l, r, outcome) ==
    /\ at[l][r] = "step"
    /\ at' = [at EXCEPT ![l][r] = IF Stopping(l, r) \/ outcome = "error" THEN "over"
                                  ELSE IF outcome = "found" THEN "check" ELSE "sleep"]
    /\ UNCHANGED << current, started, stopped, cancelled, errorDelay, late, call >>

(* The step returns: work found, nothing found, or an error. *)
EndStep(l, r, outcome) ==
    /\ at[l][r] = "step"
    /\ at' = [at EXCEPT ![l][r] = IF Stopping(l, r) THEN "over"
                                  ELSE IF outcome = "found" THEN "check" ELSE "sleep"]
    /\ errorDelay' = [errorDelay EXCEPT ![l][r] =
                        IF Stopping(l, r) THEN @
                        ELSE IF outcome = "error" THEN Longer(@) ELSE MinErrorDelay]
    /\ UNCHANGED << current, started, stopped, cancelled, late, call >>

(* sleep: the timer fires, or the stop context ends the run. *)
Wake(l, r) ==
    /\ at[l][r] = "sleep"
    /\ \/ at' = [at EXCEPT ![l][r] = "check"]
       \/ Stopping(l, r) /\ at' = [at EXCEPT ![l][r] = "over"]
    /\ UNCHANGED << current, started, stopped, cancelled, errorDelay, late, call >>

Outcomes == {"found", "idle", "error"}
Run(l, r) ==
    \/ Check(l, r) \/ BeginStep(l, r) \/ Wake(l, r)
    \/ \E outcome \in Outcomes : EndStep(l, r, outcome)

StopStep(c) == Signal(c) \/ Drained(c) \/ DeadlinePassed(c)

Init == LoopInit
Next ==
    \/ \E l \in Loops : Start(l) \/ StartAgain(l)
    \/ \E c \in Callers : StopStep(c) \/ \E l \in Loops : Take(c, l)
    \/ \E l \in Loops, r \in Runs : Run(l, r)

Spec == Init /\ [][Next]_loopVars

(* Goroutines are scheduled, and a step obeys its work context: every call a
   step makes takes it and returns once it is cancelled.  A step whose work
   context lives may take for ever.                                        *)
LoopFairness ==
    /\ \A c \in Callers : WF_loopVars(StopStep(c))
    /\ \A l \in Loops, r \in Runs :
          /\ WF_loopVars(Check(l, r)) /\ WF_loopVars(BeginStep(l, r)) /\ WF_loopVars(Wake(l, r))
          /\ WF_loopVars(cancelled[l][r] /\ \E outcome \in Outcomes : EndStep(l, r, outcome))

FairSpec == Spec /\ LoopFairness

-----------------------------------------------------------------------------
(***************************************************************************)
(* Properties.                                                             *)
(***************************************************************************)

Took(c, l, r) == call[c].loop = l /\ call[c].run = r

(* Graceful shutdown: the work of a step in flight is cancelled only when the
   deadline of the Stop that took its run has passed, whatever other Stops
   and Starts go on.                                                       *)
WorkOutlivesStop ==
    \A l \in Loops, r \in Runs :
        cancelled[l][r] /\ at[l][r] # "over" =>
            \E c \in Callers : Took(c, l, r) /\ call[c].result = "deadline"

(* Stop stops fetching new work: beside the step that is in flight, or about
   to be called, a run begins none.                                        *)
OneLateStep == \A l \in Loops, r \in Runs : late[l][r] <= 1

(* Two runs of a loop are never live unless a Stop has taken the older one:
   the mutex keeps concurrent Starts apart.                                *)
SecondRunIsStopped ==
    \A l \in Loops : \A r, q \in Runs :
        /\ r < q /\ at[l][r] \notin {"none", "over"} /\ at[l][q] # "none"
        => \E c \in Callers : Took(c, l, r)

(* Stop returns, and the run that it took ends, also when its step would have
   hung.                                                                   *)
StopReturns ==
    /\ \A c \in Callers : call[c].pc = "signal" ~> call[c].pc = "returned"
    /\ \A l \in Loops, r \in Runs :
           (\E c \in Callers : Took(c, l, r)) ~> at[l][r] = "over"

(* Failures delay a loop, within the bounds of its pause, and never end it:
   unless it is stopped, a run that is not in a step gets back to one.     *)
LoopGoesOn ==
    \A l \in Loops, r \in Runs :
        /\ [](errorDelay[l][r] \in MinErrorDelay .. MaxErrorDelay)
        /\ (at[l][r] # "none") ~> (at[l][r] = "step" \/ stopped[l][r])
=============================================================================

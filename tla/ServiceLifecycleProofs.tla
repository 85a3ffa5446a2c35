----------------------- MODULE ServiceLifecycleProofs -----------------------
(***************************************************************************)
(* Proofs about the worker loops, for any number of loops, runs and        *)
(* callers, and about the service that starts and stops them.  The first   *)
(* part is about WorkerLoop alone and uses no assumption of                *)
(* ServiceLifecycle.                                                       *)
(***************************************************************************)
EXTENDS ServiceLifecycle, TLAPS

-----------------------------------------------------------------------------
(***************************************************************************)
(* The invariant of the loops, in parts.                                   *)
(***************************************************************************)

Call == [pc : {"idle", "signal", "wait", "returned"}, loop : Loops \cup {NoLoop},
         run : 0 .. MaxRuns, result : {"none", "nil", "deadline"}]

LoopTypes ==
    /\ current \in [Loops -> 0 .. MaxRuns]
    /\ started \in [Loops -> 0 .. MaxRuns]
    /\ at \in [Loops -> [Runs -> {"none", "check", "call", "step", "sleep", "over"}]]
    /\ stopped \in [Loops -> [Runs -> BOOLEAN]]
    /\ cancelled \in [Loops -> [Runs -> BOOLEAN]]
    /\ errorDelay \in [Loops -> [Runs -> MinErrorDelay .. MaxErrorDelay]]
    /\ late \in [Loops -> [Runs -> Nat]]
    /\ call \in [Callers -> Call]
    /\ \A c \in Callers : call[c].pc \in {"signal", "wait"} =>
          call[c].loop \in Loops /\ call[c].run \in Runs

(* The runs of a loop are numbered without a gap, the fields hold the newest or
   nothing, and a run that was started and is not in the fields was taken. *)
RunsTaken ==
    /\ \A c \in Callers : call[c].pc = "idle" => call[c].run = 0
    /\ \A l \in Loops :
          /\ current[l] \in {0, started[l]}
          /\ \A r \in Runs : at[l][r] # "none" <=> r <= started[l]
          /\ \A r \in Runs :
                r <= started[l] /\ r # current[l] => \E c \in Callers : Took(c, l, r)

(* A work context is cancelled by the Stop that took its run, as it returns. *)
CancelEarned ==
    \A l \in Loops, r \in Runs : cancelled[l][r] =>
        \E c \in Callers : /\ Took(c, l, r) /\ call[c].pc = "returned"
                           /\ at[l][r] = "over" \/ call[c].result = "deadline"

(* After a late step a run has nothing to do but to end. *)
LateIsLast ==
    \A l \in Loops, r \in Runs :
        \/ late[l][r] = 0
        \/ late[l][r] = 1 /\ stopped[l][r] /\ at[l][r] \in {"step", "over"}

LoopInv == LoopTypes /\ RunsTaken /\ CancelEarned /\ LateIsLast

-----------------------------------------------------------------------------
(* The loops before any of them has run. *)
LEMMA LoopInvInit == LoopInit => LoopInv
  BY DelayAssumption, RunsAssumption
  DEF LoopInit, LoopInv, LoopTypes, RunsTaken, CancelEarned, LateIsLast, Call, NoCall, Runs, Took

(* The delay after one more error stays within its bounds. *)
LEMMA LongerBounds ==
    ASSUME NEW d \in MinErrorDelay .. MaxErrorDelay
    PROVE  Longer(d) \in MinErrorDelay .. MaxErrorDelay
  <1>1. d \in Nat /\ MinErrorDelay \in Nat /\ MaxErrorDelay \in Nat /\ MinErrorDelay <= d
    BY DelayAssumption
  <1>2. CASE 2 * d < MaxErrorDelay
    BY <1>1, <1>2 DEF Longer
  <1>3. CASE ~(2 * d < MaxErrorDelay)
    BY <1>1, <1>3, DelayAssumption DEF Longer
  <1> QED
    BY <1>2, <1>3

(* A call of Stop that goes on keeps its loop and its run. *)
LEMMA CallsTyped ==
    ASSUME LoopTypes, NEW c \in Callers, call[c].pc \in {"signal", "wait"},
           NEW x \in Call, x.loop = call[c].loop, x.run = call[c].run,
           call' = [call EXCEPT ![c] = x]
    PROVE  /\ call' \in [Callers -> Call]
           /\ \A d \in Callers : call'[d].pc \in {"signal", "wait"} =>
                 call'[d].loop \in Loops /\ call'[d].run \in Runs
  <1>1. call' \in [Callers -> Call]
    BY DEF LoopTypes
  <1>2. ASSUME NEW d \in Callers, call'[d].pc \in {"signal", "wait"}
        PROVE  call'[d].loop \in Loops /\ call'[d].run \in Runs
    <2>1. CASE d = c
      BY <2>1 DEF LoopTypes
    <2>2. CASE d # c
      BY <1>2, <2>2 DEF LoopTypes
    <2> QED
      BY <2>1, <2>2
  <1> QED
    BY <1>1, <1>2

(* What a run does keeps the types of the variables. *)
LEMMA TypesStep ==
    ASSUME LoopTypes, [Next]_loopVars
    PROVE  LoopTypes'
  <1> DEFINE Places == {"none", "check", "call", "step", "sleep", "over"}
  <1> USE DelayAssumption, RunsAssumption DEF LoopTypes, Runs
  <1>0. ASSUME NEW l \in Loops, NEW r \in Runs, NEW place \in Places,
               at' = [at EXCEPT ![l][r] = place]
        PROVE  at' \in [Loops -> [Runs -> Places]]
    BY <1>0
  <1>1. ASSUME NEW l \in Loops, Start(l) PROVE LoopTypes'
    <2>1. started[l] + 1 \in Runs
      BY <1>1 DEF Start
    <2>2. at' \in [Loops -> [Runs -> Places]]
      BY <1>0, <1>1, <2>1 DEF Start
    <2>3. /\ started' \in [Loops -> 0 .. MaxRuns] /\ current' \in [Loops -> 0 .. MaxRuns]
          /\ UNCHANGED << stopped, cancelled, errorDelay, late, call >>
      BY <1>1, <2>1 DEF Start
    <2> QED
      BY <2>2, <2>3
  <1>2. ASSUME NEW l \in Loops, StartAgain(l) PROVE LoopTypes'
    BY <1>2 DEF StartAgain, loopVars, runVars
  <1>3. ASSUME NEW c \in Callers, NEW l \in Loops, Take(c, l) PROVE LoopTypes'
    <2>1. call' \in [Callers -> Call]
      BY <1>3 DEF Take, Call
    <2>2. current' \in [Loops -> 0 .. MaxRuns]
      BY <1>3 DEF Take
    <2> QED
      BY <1>3, <2>1, <2>2 DEF Take
  <1>4. ASSUME NEW c \in Callers, Signal(c) PROVE LoopTypes'
    <2>1. PICK x \in Call : /\ call' = [call EXCEPT ![c] = x]
                            /\ x.loop = call[c].loop /\ x.run = call[c].run
      <3>1. [call[c] EXCEPT !.pc = "wait"] \in Call
        BY DEF Call
      <3> QED
        BY <1>4, <3>1 DEF Signal, Call
    <2>2. stopped' \in [Loops -> [Runs -> BOOLEAN]]
      BY <1>4 DEF Signal
    <2> QED
      BY <1>4, <2>1, <2>2, CallsTyped DEF Signal
  <1>5. ASSUME NEW c \in Callers, NEW result \in {"nil", "deadline"}, ReturnFromStop(c, result)
        PROVE LoopTypes'
    <2>1. PICK x \in Call : /\ call' = [call EXCEPT ![c] = x]
                            /\ x.loop = call[c].loop /\ x.run = call[c].run
      <3>1. [call[c] EXCEPT !.pc = "returned", !.result = result] \in Call
        BY DEF Call
      <3> QED
        BY <1>5, <3>1 DEF ReturnFromStop, Call
    <2>2. cancelled' \in [Loops -> [Runs -> BOOLEAN]]
      BY <1>5 DEF ReturnFromStop
    <2> QED
      BY <1>5, <2>1, <2>2, CallsTyped DEF ReturnFromStop
  <1>6. ASSUME NEW l \in Loops, NEW r \in Runs, Check(l, r) \/ BeginStep(l, r) \/ Wake(l, r)
        PROVE LoopTypes'
    <2>1. PICK place \in Places : at' = [at EXCEPT ![l][r] = place]
      BY <1>6 DEF Check, BeginStep, Wake
    <2>2. late' \in [Loops -> [Runs -> Nat]]
      <3>1. CASE BeginStep(l, r)
        <4> DEFINE n == IF stopped[l][r] THEN late[l][r] + 1 ELSE late[l][r]
        <4>1. n \in Nat
          OBVIOUS
        <4>2. late' = [late EXCEPT ![l][r] = n]
          BY <3>1 DEF BeginStep
        <4> HIDE DEF n
        <4> QED
          BY <4>1, <4>2
      <3>2. CASE Check(l, r) \/ Wake(l, r)
        BY <3>2 DEF Check, Wake
      <3> QED
        BY <1>6, <3>1, <3>2
    <2>3. UNCHANGED << current, started, stopped, cancelled, errorDelay, call >>
      BY <1>6 DEF Check, BeginStep, Wake
    <2> QED
      BY <1>0, <2>1, <2>2, <2>3
  <1>7. ASSUME NEW l \in Loops, NEW r \in Runs, NEW outcome \in Outcomes, EndStep(l, r, outcome)
        PROVE LoopTypes'
    <2>1. PICK place \in Places : at' = [at EXCEPT ![l][r] = place]
      BY <1>7 DEF EndStep
    <2>2. PICK d \in MinErrorDelay .. MaxErrorDelay : errorDelay' = [errorDelay EXCEPT ![l][r] = d]
      <3>1. errorDelay[l][r] \in MinErrorDelay .. MaxErrorDelay
        OBVIOUS
      <3>2. Longer(errorDelay[l][r]) \in MinErrorDelay .. MaxErrorDelay
        BY <3>1, LongerBounds
      <3> DEFINE e == IF Stopping(l, r) THEN errorDelay[l][r]
                      ELSE IF outcome = "error" THEN Longer(errorDelay[l][r]) ELSE MinErrorDelay
      <3>3. e \in MinErrorDelay .. MaxErrorDelay
        BY <3>1, <3>2
      <3>4. errorDelay' = [errorDelay EXCEPT ![l][r] = e]
        BY <1>7 DEF EndStep
      <3> HIDE DEF e
      <3> QED
        BY <3>3, <3>4
    <2>3. UNCHANGED << current, started, stopped, cancelled, late, call >>
      BY <1>7 DEF EndStep
    <2>4. errorDelay' \in [Loops -> [Runs -> MinErrorDelay .. MaxErrorDelay]]
      BY <2>2
    <2> QED
      BY <1>0, <2>1, <2>3, <2>4
  <1>8. CASE UNCHANGED loopVars
    BY <1>8 DEF loopVars, runVars
  <1> QED
    BY <1>1, <1>2, <1>3, <1>4, <1>5, <1>6, <1>7, <1>8
    DEF Next, StopStep, Drained, DeadlinePassed, Run

(* A run that was taken stays taken by the same call, whose answer stays too. *)
LEMMA TookKept ==
    ASSUME LoopInv, [Next]_loopVars, NEW c \in Callers, NEW l \in Loops, NEW r \in Runs,
           Took(c, l, r)
    PROVE  /\ Took(c, l, r)'
           /\ call[c].pc = "returned" => call'[c] = call[c]
  <1> USE RunsAssumption DEF LoopInv, LoopTypes, RunsTaken, Runs, Took, Call
  <1>1. call[c].pc # "idle"
    OBVIOUS
  <1>2. ASSUME NEW d \in Callers, NEW m \in Loops, Take(d, m) PROVE call'[c] = call[c]
    BY <1>1, <1>2 DEF Take
  <1>3. ASSUME NEW d \in Callers, Signal(d)
        PROVE Took(c, l, r)' /\ (call[c].pc = "returned" => call'[c] = call[c])
    BY <1>3 DEF Signal
  <1>4. ASSUME NEW d \in Callers, NEW result, ReturnFromStop(d, result)
        PROVE Took(c, l, r)' /\ (call[c].pc = "returned" => call'[c] = call[c])
    BY <1>4 DEF ReturnFromStop
  <1>5. CASE call' = call
    BY <1>5
  <1> QED
    BY <1>2, <1>3, <1>4, <1>5
    DEF Next, StopStep, Drained, DeadlinePassed, Run, Start, StartAgain, Check, BeginStep, Wake,
        EndStep, loopVars, runVars

(* What Next may do to the place of one run, its stop context and its late steps. *)
LEMMA RunMoves ==
    ASSUME LoopInv, [Next]_loopVars, NEW l \in Loops, NEW r \in Runs
    PROVE  /\ at[l][r] = "over" => at'[l][r] = "over"
           /\ at[l][r] # "none" => at'[l][r] # "none"
           /\ at[l][r] = "none" /\ at'[l][r] # "none" => Start(l) /\ r = started[l] + 1
           /\ stopped[l][r] => stopped'[l][r]
           /\ late'[l][r] # late[l][r] =>
                 /\ at[l][r] = "call" /\ at'[l][r] = "step" /\ stopped[l][r]
                 /\ late'[l][r] = late[l][r] + 1 /\ stopped' = stopped
           /\ at[l][r] = "step" /\ stopped[l][r] => at'[l][r] \in {"step", "over"}
  <1> USE RunsAssumption DEF LoopInv, LoopTypes, Runs
  <1>1. ASSUME NEW m \in Loops, Start(m)
        PROVE /\ stopped' = stopped /\ late' = late
              /\ at[l][r] # "none" => at'[l][r] = at[l][r]
              /\ at[l][r] = "none" /\ at'[l][r] # "none" => Start(l) /\ r = started[l] + 1
    <2>1. started[m] + 1 \in Runs /\ at[m][started[m] + 1] = "none"
      <3>1. started[m] \in 0 .. MaxRuns /\ started[m] < MaxRuns
        BY <1>1 DEF Start
      <3>2. started[m] + 1 \in Runs /\ ~(started[m] + 1 <= started[m])
        BY <3>1
      <3> QED
        BY <3>2 DEF RunsTaken
    <2> QED
      BY <1>1, <2>1 DEF Start
  <1>2. ASSUME NEW m \in Loops, NEW q \in Runs, Check(m, q) \/ Wake(m, q)
        PROVE /\ stopped' = stopped /\ late' = late
              /\ at[l][r] \in {"none", "over", "step", "call"} => at'[l][r] = at[l][r]
              /\ at'[l][r] = "none" => at[l][r] = "none"
    <2>1. CASE Check(m, q)
      BY <2>1 DEF Check
    <2>2. CASE Wake(m, q)
      <3>1. PICK place \in {"check", "over"} : at' = [at EXCEPT ![m][q] = place]
        BY <2>2 DEF Wake
      <3> QED
        BY <2>2, <3>1 DEF Wake
    <2> QED
      BY <1>2, <2>1, <2>2
  <1>3. ASSUME NEW m \in Loops, NEW q \in Runs, BeginStep(m, q)
        PROVE /\ stopped' = stopped
              /\ at[l][r] # at'[l][r] => at[l][r] = "call" /\ at'[l][r] = "step"
              /\ late'[l][r] # late[l][r] =>
                    /\ at[l][r] = "call" /\ at'[l][r] = "step" /\ stopped[l][r]
                    /\ late'[l][r] = late[l][r] + 1
    BY <1>3 DEF BeginStep
  <1>4. ASSUME NEW m \in Loops, NEW q \in Runs, NEW outcome \in Outcomes, EndStep(m, q, outcome)
        PROVE /\ stopped' = stopped /\ late' = late
              /\ at[l][r] # "step" => at'[l][r] = at[l][r]
              /\ at'[l][r] # "none" \/ at'[l][r] = at[l][r]
              /\ stopped[l][r] /\ at[l][r] = "step" => at'[l][r] \in {"step", "over"}
    BY <1>4 DEF EndStep, Stopping
  <1>5. ASSUME NEW d \in Callers, Signal(d)
        PROVE at' = at /\ late' = late /\ (stopped[l][r] => stopped'[l][r])
    BY <1>5 DEF Signal
  <1>6. ASSUME at' = at, late' = late, stopped' = stopped
        PROVE  /\ at'[l][r] = at[l][r] /\ late'[l][r] = late[l][r]
               /\ stopped'[l][r] = stopped[l][r]
    BY <1>6
  <1> QED
    BY <1>1, <1>2, <1>3, <1>4, <1>5, <1>6
    DEF Next, StopStep, Drained, DeadlinePassed, Run, StartAgain, Take, ReturnFromStop,
        loopVars, runVars

(* Only Start and the locked part of Stop write the fields of a loop. *)
LEMMA FieldsOfLoops ==
    ASSUME [Next]_loopVars
    PROVE  \/ \E l \in Loops : Start(l)
           \/ \E c \in Callers, l \in Loops : Take(c, l)
           \/ UNCHANGED << current, started >>
  <1>1. ASSUME NEW c \in Callers, StopStep(c) PROVE UNCHANGED << current, started >>
    BY <1>1 DEF StopStep, Signal, Drained, DeadlinePassed, ReturnFromStop
  <1>2. ASSUME NEW l \in Loops, NEW r \in Runs, Run(l, r) PROVE UNCHANGED << current, started >>
    BY <1>2 DEF Run, Check, BeginStep, Wake, EndStep
  <1>3. ASSUME NEW l \in Loops, StartAgain(l) PROVE UNCHANGED << current, started >>
    BY <1>3 DEF StartAgain, loopVars, runVars
  <1>4. CASE UNCHANGED loopVars
    BY <1>4 DEF loopVars, runVars
  <1> QED
    BY <1>1, <1>2, <1>3, <1>4 DEF Next

(* A run leaves the fields of its loop only through a Stop, which takes it. *)
LEMMA RunsTakenStep ==
    ASSUME LoopInv, [Next]_loopVars
    PROVE  RunsTaken'
  <1> USE RunsAssumption DEF LoopInv, LoopTypes, RunsTaken, Runs
  <1>1. ASSUME NEW c \in Callers, call'[c].pc = "idle" PROVE call'[c].run = 0
    <2>1. ASSUME NEW d \in Callers, NEW m \in Loops, Take(d, m) PROVE call'[c].run = 0
      BY <1>1, <2>1 DEF Take, Call
    <2>2. ASSUME NEW d \in Callers, Signal(d) PROVE call'[c].run = 0
      BY <1>1, <2>2 DEF Signal, Call
    <2>3. ASSUME NEW d \in Callers, NEW result, ReturnFromStop(d, result) PROVE call'[c].run = 0
      BY <1>1, <2>3 DEF ReturnFromStop, Call
    <2>4. CASE call' = call
      BY <1>1, <2>4
    <2> QED
      BY <2>1, <2>2, <2>3, <2>4
      DEF Next, StopStep, Drained, DeadlinePassed, Run, Start, StartAgain, Check, BeginStep,
          Wake, EndStep, loopVars, runVars
  <1>2. ASSUME NEW l \in Loops
        PROVE  (/\ current[l] \in {0, started[l]}
                /\ \A r \in Runs : at[l][r] # "none" <=> r <= started[l]
                /\ \A r \in Runs :
                      r <= started[l] /\ r # current[l] => \E c \in Callers : Took(c, l, r))'
    <2>1. CASE Start(l)
      <3>1. /\ current'[l] = started[l] + 1 /\ started'[l] = started[l] + 1
            /\ started[l] + 1 \in Runs /\ current[l] = 0
            /\ at'[l] = [at[l] EXCEPT ![started[l] + 1] = "check"]
        BY <2>1 DEF Start
      <3>2. ASSUME NEW r \in Runs, r <= started[l] PROVE \E c \in Callers : Took(c, l, r)'
        <4>1. r # current[l]
          BY <3>1
        <4>2. PICK c \in Callers : Took(c, l, r)
          BY <3>2, <4>1
        <4> QED
          BY <4>2, TookKept
      <3>3. ASSUME NEW r \in Runs PROVE at'[l][r] # "none" <=> r <= started'[l]
        <4>1. at[l][r] # "none" <=> r <= started[l]
          OBVIOUS
        <4>2. at'[l][r] = IF r = started[l] + 1 THEN "check" ELSE at[l][r]
          BY <3>1
        <4> QED
          BY <3>1, <4>1, <4>2
      <3>4. ASSUME NEW r \in Runs, r <= started'[l], r # current'[l]
            PROVE  \E c \in Callers : Took(c, l, r)'
        <4>1. r <= started[l]
          BY <3>1, <3>4
        <4> QED
          BY <3>2, <4>1
      <3> QED
        BY <3>1, <3>3, <3>4
    <2>2. CASE ~Start(l)
      <3>1. started'[l] = started[l]
        <4>1. ASSUME NEW m \in Loops, Start(m) PROVE started'[l] = started[l]
          BY <2>2, <4>1 DEF Start
        <4>2. ASSUME NEW c \in Callers, NEW m \in Loops, Take(c, m) PROVE started'[l] = started[l]
          BY <4>2 DEF Take
        <4> QED
          BY <4>1, <4>2, FieldsOfLoops
      <3>2. ASSUME NEW r \in Runs PROVE at'[l][r] # "none" <=> r <= started[l]
        <4>1. at[l][r] # "none" <=> r <= started[l]
          OBVIOUS
        <4>2. at[l][r] # "none" <=> at'[l][r] # "none"
          BY <2>2, RunMoves
        <4> QED
          BY <4>1, <4>2
      <3>3. CASE current'[l] = current[l]
        BY <3>1, <3>2, <3>3, TookKept
      <3>4. CASE current'[l] # current[l]
        <4>1. PICK c \in Callers : Take(c, l)
          <5>1. ASSUME NEW m \in Loops, Start(m) PROVE FALSE
            BY <2>2, <3>4, <5>1 DEF Start
          <5>2. ASSUME NEW c \in Callers, NEW m \in Loops, Take(c, m) PROVE m = l
            BY <3>4, <5>2 DEF Take
          <5> QED
            BY <3>4, <5>1, <5>2, FieldsOfLoops
        <4>2. current'[l] = 0 /\ current[l] = started[l] /\ Took(c, l, started[l])'
          BY <3>4, <4>1 DEF Take, Took
        <4>3. ASSUME NEW r \in Runs, r <= started[l] PROVE \E d \in Callers : Took(d, l, r)'
          <5>1. CASE r = started[l]
            BY <3>1, <4>2, <5>1
          <5>2. CASE r # started[l]
            <6>1. PICK d \in Callers : Took(d, l, r)
              BY <4>2, <4>3, <5>2
            <6> QED
              BY <6>1, TookKept
          <5> QED
            BY <5>1, <5>2
        <4> QED
          BY <3>1, <3>2, <4>2, <4>3
      <3> QED
        BY <3>3, <3>4
    <2> QED
      BY <2>1, <2>2
  <1> QED
    BY <1>1, <1>2

(* Only the return of the Stop that took a run cancels its work. *)
LEMMA CancelEarnedStep ==
    ASSUME LoopInv, [Next]_loopVars
    PROVE  CancelEarned'
  <1> SUFFICES ASSUME NEW l \in Loops, NEW r \in Runs, cancelled'[l][r]
               PROVE  \E c \in Callers :
                         /\ Took(c, l, r)' /\ call'[c].pc = "returned"
                         /\ at'[l][r] = "over" \/ call'[c].result = "deadline"
    BY DEF CancelEarned
  <1>1. CASE cancelled[l][r]
    BY <1>1, TookKept, RunMoves DEF LoopInv, CancelEarned
  <1>2. CASE ~cancelled[l][r]
    <2>1. PICK c \in Callers : Drained(c) \/ DeadlinePassed(c)
      BY <1>2 DEF Next, StopStep, Run, Start, StartAgain, Check, BeginStep, Wake, EndStep,
        loopVars, runVars, Take, Signal
    <2>2. PICK result \in {"nil", "deadline"} :
             /\ ReturnFromStop(c, result)
             /\ result = "nil" => at[call[c].loop][call[c].run] = "over"
      BY <2>1 DEF Drained, DeadlinePassed
    <2>3. call[c].loop = l /\ call[c].run = r
      BY <1>2, <2>2 DEF ReturnFromStop, LoopInv, LoopTypes
    <2> QED
      BY <2>2, <2>3 DEF ReturnFromStop, LoopInv, LoopTypes, Call, Took
  <1> QED
    BY <1>1, <1>2

(* A step begun after the stop is the last one of its run. *)
LEMMA LateIsLastStep ==
    ASSUME LoopInv, [Next]_loopVars
    PROVE  LateIsLast'
  <1> SUFFICES ASSUME NEW l \in Loops, NEW r \in Runs
               PROVE  (\/ late[l][r] = 0
                       \/ late[l][r] = 1 /\ stopped[l][r] /\ at[l][r] \in {"step", "over"})'
    BY DEF LateIsLast
  <1>1. late[l][r] \in Nat
    BY DEF LoopInv, LoopTypes
  <1>2. \/ late[l][r] = 0
        \/ late[l][r] = 1 /\ stopped[l][r] /\ at[l][r] \in {"step", "over"}
    BY DEF LoopInv, LateIsLast
  <1> QED
    BY <1>1, <1>2, RunMoves

(* The invariant of the loops, part by part. *)
LEMMA LoopInvStep == LoopInv /\ [Next]_loopVars => LoopInv'
  BY TypesStep, RunsTakenStep, CancelEarnedStep, LateIsLastStep DEF LoopInv

(* LoopInv holds throughout. *)
LEMMA LoopInvariant == Spec => []LoopInv
  BY LoopInvInit, LoopInvStep, PTL DEF Spec, Init

(* What the parts of LoopInv say of the properties. *)
LEMMA LoopInvEnough == LoopInv => WorkOutlivesStop /\ OneLateStep /\ SecondRunIsStopped
  <1> SUFFICES ASSUME LoopInv PROVE WorkOutlivesStop /\ OneLateStep /\ SecondRunIsStopped
    OBVIOUS
  <1>1. WorkOutlivesStop
    BY DEF LoopInv, CancelEarned, WorkOutlivesStop
  <1>2. OneLateStep
    BY DEF LoopInv, LateIsLast, OneLateStep
  <1>3. SecondRunIsStopped
    <2> SUFFICES ASSUME NEW l \in Loops, NEW r \in Runs, NEW q \in Runs, r < q,
                        at[l][q] # "none"
                 PROVE  \E c \in Callers : Took(c, l, r)
      BY DEF SecondRunIsStopped
    <2>1. started[l] \in Nat /\ q <= started[l] /\ current[l] \in {0, started[l]}
      BY RunsAssumption DEF LoopInv, LoopTypes, RunsTaken, Runs
    <2> QED
      BY <2>1, RunsAssumption DEF LoopInv, RunsTaken, Runs
  <1> QED
    BY <1>1, <1>2, <1>3

(* Loop.Stop, for any number of loops, runs and callers: the work of a step in
   flight is cancelled only by a Stop whose deadline has passed.           *)
THEOREM StopLetsWorkFinish == Spec => []WorkOutlivesStop
  BY LoopInvariant, LoopInvEnough, PTL

(* Loop.run: after Stop has cancelled the stop context a run begins at most one
   step.                                                                   *)
THEOREM AtMostOneLateStep == Spec => []OneLateStep
  BY LoopInvariant, LoopInvEnough, PTL

(* Loop.Start and Loop.Stop share a mutex: a live run beside a newer one is one
   that some Stop has taken.                                               *)
THEOREM OlderRunIsStopped == Spec => []SecondRunIsStopped
  BY LoopInvariant, LoopInvEnough, PTL

-----------------------------------------------------------------------------
(***************************************************************************)
(* The service.  Fx starts and stops each loop once, in order, so that what *)
(* is still at work is found among the hooks that are up.                  *)
(***************************************************************************)

Below(l, hook) == \E i \in 1 .. Len(Order) : Order[i] = l /\ i + 1 <= hook
Quiet(l) == \A r \in Runs : at[l][r] \in {"none", "over"}

LifeTypes ==
    /\ phase \in {"starting", "running", "stopping", "exited"}
    /\ up \in 0 .. HttpHook
    /\ listening \in BOOLEAN /\ expired \in BOOLEAN
    /\ pool \in {"open", "closed"}

(* Fx starts and stops a loop once; a Stop that returned nil has seen it end. *)
FxLoop(l) ==
    /\ started[l] <= 1
    /\ call[l].pc = "idle" => current[l] = started[l]
    /\ call[l].pc # "idle" => current[l] = 0 /\ call[l].loop = l /\ call[l].run = started[l]
    /\ call[l].pc = "returned" /\ call[l].result # "deadline" => Quiet(l)
    /\ call[l].result = "deadline" => expired

(* While it starts, the service only has the loops it has come to. *)
Starting ==
    phase \in {"starting", "running"} =>
        /\ pool = "open" /\ ~expired
        /\ \A l \in Loops : call[l].pc = "idle"
        /\ phase = "starting" => ~listening /\ requests = {} /\ up < HttpHook
        /\ phase = "running" => up = HttpHook

(* What is not below the hook that is being stopped has come to rest. *)
StoppedInOrder ==
    ~expired =>
        /\ \A l \in Loops : Below(l, up) \/ Quiet(l)
        /\ up < HttpHook => requests = {} /\ ~listening
        /\ phase = "exited" => up = 0

(* A closed pool has nobody left to use it. *)
PoolIsLast ==
    pool = "closed" => requests = {} /\ ~listening /\ \A l \in Loops : Quiet(l)

LifeInv ==
    LifeTypes /\ (\A l \in Loops : FxLoop(l)) /\ Starting /\ StoppedInOrder /\ PoolIsLast

(* Which loops a hook has below it, one hook up and one down. *)
LEMMA OrderFacts ==
    /\ Len(Order) \in Nat
    /\ \A hook \in Nat : IsLoop(hook) => LoopOf(hook) \in Loops /\ Below(LoopOf(hook), hook)
    /\ \A l \in Loops : Below(l, Len(Order) + 1) /\ ~Below(l, 0) /\ ~Below(l, 1)
    /\ \A l \in Loops, hook \in Nat :
          /\ Below(l, hook) => Below(l, hook + 1)
          /\ IsLoop(hook) /\ Below(l, hook) /\ l # LoopOf(hook) => Below(l, hook - 1)
  <1>1. Len(Order) \in Nat /\ \A i \in 1 .. Len(Order) : Order[i] \in Loops
    BY OrderAssumption
  <1>2. \A hook \in Nat : IsLoop(hook) => LoopOf(hook) \in Loops /\ Below(LoopOf(hook), hook)
    BY <1>1 DEF IsLoop, LoopOf, Below
  <1>3. \A l \in Loops : Below(l, Len(Order) + 1) /\ ~Below(l, 0) /\ ~Below(l, 1)
    <2> SUFFICES ASSUME NEW l \in Loops
                 PROVE  Below(l, Len(Order) + 1) /\ ~Below(l, 0) /\ ~Below(l, 1)
      OBVIOUS
    <2>1. PICK i \in 1 .. Len(Order) : Order[i] = l
      BY OrderAssumption
    <2>2. \A j \in 1 .. Len(Order) : j + 1 <= Len(Order) + 1 /\ ~(j + 1 <= 0) /\ ~(j + 1 <= 1)
      BY <1>1
    <2> QED
      BY <2>1, <2>2 DEF Below
  <1>4. ASSUME NEW l \in Loops, NEW hook \in Nat, Below(l, hook)
        PROVE  /\ Below(l, hook + 1)
               /\ IsLoop(hook) /\ l # LoopOf(hook) => Below(l, hook - 1)
    BY <1>1, <1>4 DEF Below, IsLoop, LoopOf
  <1> QED
    BY <1>1, <1>2, <1>3, <1>4

(* Every step of the service is a step of its loops, or leaves them alone. *)
LEMMA LifeStepsAreLoopSteps ==
    ASSUME up \in Nat, [LifeNext]_vars
    PROVE  [Next]_loopVars
  <1>1. CASE StartLoop
    BY <1>1, OrderFacts DEF StartLoop, Next
  <1>2. CASE StopLoop
    <2>1. LoopOf(up) \in Loops
      BY <1>2, OrderFacts DEF StopLoop
    <2> QED
      BY <1>2, <2>1, CallersAssumption DEF StopLoop, Next, StopStep
  <1>3. ASSUME NEW l \in Loops, LoopRuns(l) PROVE Next
    BY <1>3 DEF LoopRuns, Next
  <1>4. CASE UNCHANGED loopVars
    BY <1>4
  <1> QED
    BY <1>1, <1>2, <1>3, <1>4
    DEF LifeNext, vars, StartPool, StartHttp, Sigterm, Expire, CloseListener, StopHttp, StopPool,
        Exit, Accept, Answer

(* The service before fx has called any hook. *)
LEMMA LifeInvInit == LifeInit => LoopInv /\ LifeInv
  <1> SUFFICES ASSUME LifeInit PROVE LoopInv /\ LifeInv
    OBVIOUS
  <1>1. LoopInv
    BY LoopInvInit DEF LifeInit
  <1>2. LifeTypes /\ up < HttpHook
    <2>1. Len(Order) \in Nat
      BY OrderFacts
    <2>2. up \in 0 .. HttpHook /\ up < HttpHook
      BY <2>1 DEF LifeInit, HttpHook
    <2> QED
      BY <2>2, Zenon DEF LifeInit, LifeTypes
  <1>3. \A l \in Loops : call[l] = NoCall /\ current[l] = 0 /\ started[l] = 0 /\ Quiet(l)
    BY CallersAssumption DEF LifeInit, LoopInit, Quiet
  <1>4. \A l \in Loops : FxLoop(l)
    <2>1. ASSUME NEW l \in Loops
          PROVE  call[l].pc = "idle" /\ call[l].result = "none" /\ current[l] = 0 /\ started[l] = 0
      BY <1>3 DEF NoCall
    <2>2. 0 <= 1
      OBVIOUS
    <2> QED
      BY <2>1, <2>2, Zenon DEF FxLoop
  <1>5. Starting
    BY <1>2, <1>3 DEF Starting, LifeInit, NoCall
  <1> QED
    BY <1>1, <1>2, <1>3, <1>4, <1>5 DEF LifeInv, LifeInit, StoppedInOrder, PoolIsLast

(* Who touches the loops, and that the deadline stays passed. *)
LEMMA LifeFrame ==
    ASSUME LifeInv, [LifeNext]_vars
    PROVE  /\ up \in Nat
           /\ expired => expired'
           /\ ~StartLoop => started' = started
           /\ ~StartLoop /\ ~StopLoop => current' = current /\ call' = call
  <1>1. up \in Nat
    BY OrderFacts DEF LifeInv, LifeTypes, HttpHook
  <1>2. expired => expired'
    BY Zenon DEF LifeNext, vars, lifeVars, StartPool, StartLoop, StartHttp, Sigterm, Expire,
      CloseListener, StopHttp, StopLoop, StopPool, Exit, Accept, Answer, LoopRuns
  <1>3. ASSUME NEW l \in Loops, LoopRuns(l)
        PROVE  started' = started /\ current' = current /\ call' = call
    BY <1>3 DEF LoopRuns, Run, Check, BeginStep, Wake, EndStep
  <1>4. ASSUME UNCHANGED loopVars PROVE started' = started /\ current' = current /\ call' = call
    BY <1>4 DEF loopVars, runVars
  <1>5. ASSUME StopLoop PROVE started' = started
    BY <1>5 DEF StopLoop, Take, Signal, Drained, DeadlinePassed, ReturnFromStop, loopVars, runVars
  <1> QED
    BY <1>1, <1>2, <1>3, <1>4, <1>5
    DEF LifeNext, vars, StartPool, StartHttp, Sigterm, Expire, CloseListener, StopHttp,
      StopPool, Exit, Accept, Answer

(* A loop at rest stays at rest unless it is started. *)
LEMMA QuietKept ==
    ASSUME LoopInv, LifeInv, [LifeNext]_vars, NEW l \in Loops, Quiet(l), ~Start(l)
    PROVE  Quiet(l)'
  <1>1. [Next]_loopVars
    BY LifeFrame, LifeStepsAreLoopSteps
  <1>2. ASSUME NEW r \in Runs PROVE at'[l][r] \in {"none", "over"}
    BY <1>1, RunMoves DEF Quiet
  <1> QED
    BY <1>2 DEF Quiet

(* No loop starts outside of its OnStart hook. *)
LEMMA NoStart ==
    ASSUME LoopInv, LifeInv, [LifeNext]_vars, ~StartLoop, NEW l \in Loops
    PROVE  ~Start(l)
  <1>1. started'[l] = started[l] /\ started[l] \in Nat
    BY LifeFrame, RunsAssumption DEF LoopInv, LoopTypes
  <1>2. ASSUME Start(l) PROVE started'[l] = started[l] + 1
    BY <1>2 DEF Start, LoopInv, LoopTypes
  <1> QED
    BY <1>1, <1>2

(* Nothing of a loop changes: its part of the invariant stays. *)
LEMMA FxLoopUntouched ==
    ASSUME LoopInv, LifeInv, [LifeNext]_vars, NEW l \in Loops, ~Start(l),
           current'[l] = current[l], started'[l] = started[l], call'[l] = call[l]
    PROVE  FxLoop(l)'
  <1>1. FxLoop(l)
    BY DEF LifeInv
  <1>2. Quiet(l) => Quiet(l)'
    BY QuietKept
  <1>3. expired => expired'
    BY LifeFrame
  <1> QED
    BY <1>1, <1>2, <1>3, Zenon DEF FxLoop

(* fx starts a loop once, and cancels it when its OnStop hook runs. *)
LEMMA FxLoopStep ==
    ASSUME LoopInv, LifeInv, [LifeNext]_vars, NEW l \in Loops
    PROVE  FxLoop(l)'
  <1> USE CallersAssumption
  <1>0. up \in Nat /\ (expired => expired') /\ FxLoop(l)
    BY LifeFrame DEF LifeInv
  <1>1. CASE StartLoop
    <2>1. phase = "starting" /\ Start(LoopOf(up + 1)) /\ LoopOf(up + 1) \in Loops
      BY <1>0, <1>1, OrderFacts DEF StartLoop
    <2>2. call[l].pc = "idle" /\ call[l].result # "deadline" /\ call' = call
      BY <2>1, Zenon DEF LifeInv, Starting, FxLoop, Start
    <2>3. CASE LoopOf(up + 1) = l
      <3>1. current[l] = 0 /\ started[l] = 0
        BY <1>0, <2>1, <2>2, <2>3 DEF Start, FxLoop
      <3>2. current'[l] = 1 /\ started'[l] = 1
        BY <2>1, <2>3, <3>1 DEF Start, LoopInv, LoopTypes
      <3>3. started'[l] <= 1
        BY <3>2
      <3> QED
        BY <2>2, <3>2, <3>3, Zenon DEF FxLoop
    <2>4. CASE LoopOf(up + 1) # l
      <3>1. current'[l] = current[l] /\ started'[l] = started[l]
        BY <2>1, <2>4 DEF Start, LoopInv, LoopTypes
      <3>2. ~Start(l)
        BY <3>1, RunsAssumption DEF Start, LoopInv, LoopTypes
      <3> QED
        BY <2>2, <3>1, <3>2, FxLoopUntouched
    <2> QED
      BY <2>3, <2>4
  <1>2. CASE StopLoop
    <2> DEFINE m == LoopOf(up)
    <2>1. /\ m \in Loops /\ ~Start(l) /\ started' = started
          /\ \/ Take(m, m) \/ Signal(m) \/ Drained(m)
             \/ expired /\ DeadlinePassed(m)
             \/ UNCHANGED loopVars
      <3>1. m \in Loops
        BY <1>0, <1>2, OrderFacts DEF StopLoop
      <3>2. ~StartLoop
        BY <1>2 DEF StopLoop, StartLoop
      <3> QED
        BY <1>2, <3>1, <3>2, NoStart, LifeFrame, Zenon DEF StopLoop
    <2> HIDE DEF m
    <2>2. CASE m # l \/ UNCHANGED loopVars
      <3>1. current'[l] = current[l] /\ call'[l] = call[l]
        BY <2>1, <2>2 DEF Take, Signal, Drained, DeadlinePassed, ReturnFromStop, loopVars,
          runVars, LoopInv, LoopTypes
      <3> QED
        BY <2>1, <3>1, FxLoopUntouched
    <2>3. CASE m = l /\ Take(l, l)
      <3>1. /\ current'[l] = 0 /\ call'[l].loop = l /\ call'[l].run = started[l]
            /\ call'[l].pc = IF started[l] = 0 THEN "returned" ELSE "signal"
            /\ call'[l].result # "deadline"
        BY <1>0, <2>3 DEF Take, FxLoop, LoopInv, LoopTypes
      <3>2. started[l] = 0 => Quiet(l)
        BY RunsAssumption DEF LoopInv, RunsTaken, Quiet, Runs
      <3>3. started[l] = 0 => Quiet(l)'
        BY <2>1, <3>2, QuietKept
      <3> QED
        BY <1>0, <2>1, <3>1, <3>3, Zenon DEF FxLoop
    <2>4. CASE m = l /\ Signal(l)
      <3>1. /\ current'[l] = current[l] /\ call'[l].loop = call[l].loop
            /\ call'[l].run = call[l].run /\ call[l].pc = "signal"
            /\ call'[l].pc = "wait" /\ call'[l].result = call[l].result
        BY <2>4 DEF Signal, LoopInv, LoopTypes, Call
      <3> QED
        BY <1>0, <2>1, <3>1, Zenon DEF FxLoop
    <2>5. ASSUME NEW result \in {"nil", "deadline"}, ReturnFromStop(l, result),
                 result = "nil" => at[call[l].loop][call[l].run] = "over",
                 result = "deadline" => expired
          PROVE  FxLoop(l)'
      <3>1. /\ current'[l] = current[l] /\ call'[l].loop = call[l].loop
            /\ call'[l].run = call[l].run /\ call[l].pc = "wait"
            /\ call'[l].pc = "returned" /\ call'[l].result = result
        BY <2>5 DEF ReturnFromStop, LoopInv, LoopTypes, Call
      <3>2. result = "nil" => Quiet(l)
        <4>1. call[l].loop = l /\ call[l].run = started[l] /\ started[l] <= 1
          BY <1>0, <3>1 DEF FxLoop
        <4>2. SUFFICES ASSUME result = "nil", NEW r \in Runs PROVE at[l][r] \in {"none", "over"}
          BY DEF Quiet
        <4>3. started[l] \in Nat /\ (at[l][r] # "none" => r <= started[l])
          BY RunsAssumption DEF LoopInv, LoopTypes, RunsTaken
        <4>4. at[l][r] # "none" => r = started[l]
          BY <4>1, <4>3, RunsAssumption DEF Runs
        <4> QED
          BY <2>5, <4>1, <4>2, <4>4
      <3>3. result = "nil" => Quiet(l)'
        BY <2>1, <3>2, QuietKept
      <3> QED
        BY <1>0, <2>1, <2>5, <3>1, <3>3, Zenon DEF FxLoop
    <2>6. CASE m = l /\ Drained(l)
      BY <2>5, <2>6, Zenon DEF Drained
    <2>7. CASE m = l /\ expired /\ DeadlinePassed(l)
      BY <2>5, <2>7, Zenon DEF DeadlinePassed
    <2> QED
      BY <2>1, <2>2, <2>3, <2>4, <2>6, <2>7, Zenon
  <1>3. CASE ~StartLoop /\ ~StopLoop
    <2>1. current' = current /\ call' = call /\ started' = started /\ ~Start(l)
      BY <1>3, LifeFrame, NoStart
    <2> QED
      BY <2>1, FxLoopUntouched
  <1> QED
    BY <1>1, <1>2, <1>3

(* Types of the state of the lifecycle. *)
LEMMA LifeTypesStep ==
    ASSUME LifeInv, [LifeNext]_vars
    PROVE  LifeTypes'
  <1>1. Len(Order) \in Nat /\ up \in 0 .. HttpHook
    BY OrderFacts DEF LifeInv, LifeTypes
  <1>2. up' \in 0 .. HttpHook
    <2>1. CASE StartPool
      BY <1>1, <2>1 DEF StartPool, HttpHook
    <2>2. CASE StartLoop
      BY <1>1, <2>2 DEF StartLoop, IsLoop, HttpHook
    <2>3. CASE StartHttp
      BY <1>1, <2>3 DEF StartHttp, HttpHook
    <2>4. CASE StopHttp
      BY <1>1, <2>4 DEF StopHttp, HttpHook
    <2>5. CASE StopLoop
      BY <1>1, <2>5 DEF StopLoop, IsLoop, HttpHook
    <2>6. CASE StopPool
      BY <1>1, <2>6 DEF StopPool, HttpHook
    <2>7. CASE up' = up
      BY <1>1, <2>7
    <2> QED
      BY <2>1, <2>2, <2>3, <2>4, <2>5, <2>6, <2>7
      DEF LifeNext, vars, lifeVars, Sigterm, Expire, CloseListener, Exit, Accept, Answer, LoopRuns
  <1>3. /\ phase' \in {"starting", "running", "stopping", "exited"}
        /\ listening' \in BOOLEAN /\ expired' \in BOOLEAN
        /\ pool' \in {"open", "closed"}
    BY Zenon DEF LifeInv, LifeTypes, LifeNext, vars, lifeVars, StartPool, StartLoop, StartHttp,
      Sigterm, Expire, CloseListener, StopHttp, StopLoop, StopPool, Exit, Accept, Answer, LoopRuns
  <1> QED
    BY <1>2, <1>3, Zenon DEF LifeTypes

(* Until fx begins to stop the hooks, the pool is open and no Stop is called. *)
LEMMA StartingStep ==
    ASSUME LoopInv, LifeInv, [LifeNext]_vars
    PROVE  Starting'
  <1> SUFFICES ASSUME phase' \in {"starting", "running"} PROVE Starting'
    BY Zenon DEF Starting
  <1>0. Len(Order) \in Nat /\ up \in 0 .. HttpHook
    BY OrderFacts DEF LifeInv, LifeTypes
  <1>1. phase \in {"starting", "running"} /\ ~StopLoop
    BY Zenon DEF LifeInv, LifeTypes, LifeNext, vars, lifeVars, StartPool, StartLoop, StartHttp,
      Sigterm, Expire, CloseListener, StopHttp, StopLoop, StopPool, Exit, Accept, Answer, LoopRuns
  <1>2. /\ pool = "open" /\ ~expired
        /\ \A l \in Loops : call[l].pc = "idle"
        /\ phase = "starting" => ~listening /\ requests = {} /\ up < HttpHook
        /\ phase = "running" => up = HttpHook
    BY <1>1, Zenon DEF LifeInv, Starting
  <1>3. call' = call
    <2>1. CASE StartLoop
      BY <2>1 DEF StartLoop, Start
    <2> QED
      BY <1>1, <2>1, LifeFrame
  <1>4. CASE StartPool
    BY <1>0, <1>2, <1>3, <1>4 DEF StartPool, HttpHook, Starting
  <1>5. CASE StartLoop
    BY <1>0, <1>2, <1>3, <1>5 DEF StartLoop, HttpHook, Starting, IsLoop
  <1>6. CASE StartHttp
    BY <1>0, <1>2, <1>3, <1>6 DEF StartHttp, HttpHook, Starting
  <1>7. ASSUME NEW q \in Requests, Accept(q) \/ Answer(q) PROVE Starting'
    BY <1>2, <1>3, <1>7, Zenon DEF Accept, Answer, Starting
  <1>8. CASE UNCHANGED lifeVars
    BY <1>2, <1>3, <1>8, Zenon DEF lifeVars, Starting
  <1> QED
    BY <1>1, <1>2, <1>4, <1>5, <1>6, <1>7, <1>8, Zenon
    DEF LifeNext, vars, Sigterm, Expire, CloseListener, StopHttp, StopPool, Exit, LoopRuns

(* A loop that is not at rest is below the hook to be stopped next. *)
LEMMA BelowOrQuietStep ==
    ASSUME LoopInv, LifeInv, [LifeNext]_vars, ~expired', NEW l \in Loops
    PROVE  Below(l, up') \/ Quiet(l)'
  <1>0. /\ Len(Order) \in Nat /\ up \in Nat /\ up \in 0 .. HttpHook /\ ~expired
        /\ Below(l, up) \/ Quiet(l)
    BY LifeFrame, OrderFacts DEF LifeInv, LifeTypes, StoppedInOrder
  <1>1. CASE StartLoop
    <2>1. up' = up + 1 /\ Start(LoopOf(up + 1)) /\ IsLoop(up + 1)
      BY <1>1 DEF StartLoop
    <2>2. CASE Below(l, up) \/ l = LoopOf(up + 1)
      BY <1>0, <2>1, <2>2, OrderFacts
    <2>3. CASE Quiet(l) /\ l # LoopOf(up + 1)
      <3>1. LoopOf(up + 1) \in Loops
        BY <1>0, <2>1, OrderFacts
      <3>2. started'[l] = started[l] /\ started[l] \in Nat
        BY <2>1, <2>3, <3>1, RunsAssumption DEF Start, LoopInv, LoopTypes
      <3>3. ~Start(l)
        BY <3>2 DEF Start, LoopInv, LoopTypes
      <3> QED
        BY <2>3, <3>3, QuietKept
    <2> QED
      BY <1>0, <2>2, <2>3
  <1>2. CASE ~StartLoop
    <2>1. Quiet(l) => Quiet(l)'
      BY <1>2, NoStart, QuietKept
    <2>2. ASSUME Below(l, up) PROVE Below(l, up') \/ Quiet(l)
      <3>1. CASE StartPool \/ StartHttp
        BY <1>0, <2>2, <3>1, OrderFacts DEF StartPool, StartHttp
      <3>2. CASE StopHttp
        <4>1. up' = Len(Order) + 1
          BY <1>0, <3>2 DEF StopHttp, HttpHook
        <4> QED
          BY <4>1, OrderFacts
      <3>3. CASE StopLoop /\ up' # up
        <4>1. /\ up' = up - 1 /\ IsLoop(up) /\ LoopOf(up) \in Loops
              /\ call[LoopOf(up)].pc = "returned"
          BY <1>0, <3>3, OrderFacts DEF StopLoop
        <4>2. FxLoop(LoopOf(up))
          BY <4>1 DEF LifeInv
        <4>3. Quiet(LoopOf(up))
          BY <1>0, <4>1, <4>2, Zenon DEF FxLoop
        <4> QED
          BY <1>0, <2>2, <4>1, <4>3, OrderFacts
      <3>4. CASE StopPool
        BY <2>2, <3>4, OrderFacts DEF StopPool, PoolHook
      <3>5. CASE up' = up
        BY <2>2, <3>5
      <3> QED
        BY <1>2, <3>1, <3>2, <3>3, <3>4, <3>5
        DEF LifeNext, vars, lifeVars, Sigterm, Expire, CloseListener, Exit, Accept, Answer, LoopRuns
    <2> QED
      BY <1>0, <2>1, <2>2
  <1> QED
    BY <1>1, <1>2

(* While fx stops the hooks, whatever is above the current one has been stopped. *)
LEMMA StoppedInOrderStep ==
    ASSUME LoopInv, LifeInv, [LifeNext]_vars
    PROVE  StoppedInOrder'
  <1> SUFFICES ASSUME ~expired'
               PROVE  /\ up' < HttpHook => requests' = {} /\ ~listening'
                      /\ phase' = "exited" => up' = 0
    BY BelowOrQuietStep, Zenon DEF StoppedInOrder, HttpHook, Below
  <1>0. /\ Len(Order) \in Nat /\ up \in 0 .. HttpHook /\ ~expired
        /\ up < HttpHook => requests = {} /\ ~listening
        /\ phase = "exited" => up = 0
    BY LifeFrame, OrderFacts DEF LifeInv, LifeTypes, StoppedInOrder
  <1>1. phase' = "exited" => up' = 0
    <2>1. CASE phase = "exited"
      BY <1>0, <2>1, Zenon DEF LifeNext, vars, lifeVars, StartPool, StartLoop, StartHttp,
        Sigterm, Expire, CloseListener, StopHttp, StopLoop, StopPool, Exit, Accept, Answer, LoopRuns
    <2>2. CASE phase # "exited"
      BY <1>0, <2>2, Zenon DEF LifeNext, vars, lifeVars, StartPool, StartLoop, StartHttp,
        Sigterm, Expire, CloseListener, StopHttp, StopLoop, StopPool, Exit, Accept, Answer, LoopRuns
    <2> QED
      BY <2>1, <2>2
  <1>2. ASSUME up' < HttpHook PROVE requests' = {} /\ ~listening'
    <2>1. CASE StopHttp
      BY <1>0, <2>1, Zenon DEF StopHttp
    <2>2. CASE ~StopHttp
      <3>1. up < HttpHook
        <4>1. CASE up = HttpHook
          <5>1. ~StartPool /\ ~StartLoop /\ ~StopLoop /\ ~StopPool /\ ~StartHttp
            BY <1>0, <4>1 DEF StartPool, StartLoop, StopLoop, StopPool, StartHttp, IsLoop,
              PoolHook, HttpHook
          <5> QED
            BY <1>2, <2>2, <5>1 DEF LifeNext, vars, lifeVars, Sigterm, Expire, CloseListener,
              Exit, Accept, Answer, LoopRuns
        <4> QED
          BY <1>0, <4>1 DEF HttpHook
      <3>2. requests = {} /\ ~listening
        BY <1>0, <3>1
      <3>3. CASE StartHttp
        BY <1>0, <1>2, <3>2, <3>3 DEF StartHttp, HttpHook
      <3>4. CASE ~StartHttp
        <4>1. ASSUME NEW q \in Requests PROVE ~Accept(q) /\ ~Answer(q)
          BY <3>2 DEF Accept, Answer
        <4>2. UNCHANGED << requests, listening >>
          BY <2>2, <3>2, <3>4, <4>1 DEF LifeNext, vars, lifeVars, StartPool, StartLoop,
            Sigterm, Expire, CloseListener, StopLoop, StopPool, Exit, LoopRuns
        <4> QED
          BY <3>2, <4>2, Zenon
      <3> QED
        BY <3>3, <3>4
    <2> QED
      BY <2>1, <2>2
  <1> QED
    BY <1>1, <1>2

(* The hook that closes the pool runs after those of the loops. *)
LEMMA PoolIsLastStep ==
    ASSUME LoopInv, LifeInv, [LifeNext]_vars
    PROVE  PoolIsLast'
  <1> SUFFICES ASSUME pool' = "closed"
               PROVE  requests' = {} /\ ~listening' /\ \A l \in Loops : Quiet(l)'
    BY DEF PoolIsLast
  <1>0. Len(Order) \in Nat
    BY OrderFacts
  <1>1. CASE pool = "closed"
    <2>1. requests = {} /\ ~listening /\ \A l \in Loops : Quiet(l)
      BY <1>1 DEF LifeInv, PoolIsLast
    <2>2. phase # "starting"
      BY <1>1 DEF LifeInv, Starting
    <2>3. \A l \in Loops : Quiet(l)'
      BY <2>1, <2>2, NoStart, QuietKept DEF StartLoop
    <2>4. requests' = {} /\ ~listening'
      <3>1. ASSUME NEW q \in Requests PROVE ~Accept(q) /\ ~Answer(q)
        BY <2>1 DEF Accept, Answer
      <3>2. UNCHANGED << requests, listening >>
        BY <2>1, <2>2, <3>1 DEF LifeNext, vars, lifeVars, StartPool, StartLoop, StartHttp,
          Sigterm, Expire, CloseListener, StopHttp, StopLoop, StopPool, Exit, LoopRuns
      <3> QED
        BY <2>1, <3>2, Zenon
    <2> QED
      BY <2>3, <2>4
  <1>2. CASE pool # "closed"
    <2>1. StartPool \/ StopPool
      BY <1>2, Zenon DEF LifeNext, vars, lifeVars, StartLoop, StartHttp,
        Sigterm, Expire, CloseListener, StopHttp, StopLoop, Exit, Accept, Answer, LoopRuns
    <2>2. up \in {0, 1} /\ ~expired /\ requests' = requests /\ listening' = listening /\ ~StartLoop
      BY <1>0, <1>2, <2>1 DEF StartPool, StopPool, StartLoop, PoolHook, IsLoop, LifeInv, Starting
    <2>3. up < HttpHook
      BY <1>0, <2>2 DEF HttpHook
    <2>4. requests = {} /\ ~listening /\ \A l \in Loops : Quiet(l)
      BY <2>2, <2>3, OrderFacts, Zenon DEF LifeInv, StoppedInOrder
    <2>5. \A l \in Loops : Quiet(l)'
      BY <2>2, <2>4, NoStart, QuietKept
    <2> QED
      BY <2>2, <2>4, <2>5, Zenon
  <1> QED
    BY <1>1, <1>2

(* Both invariants hold throughout. *)
LEMMA LifeInvariant == LifeSpec => [](LoopInv /\ LifeInv)
  <1>1. LoopInv /\ LifeInv /\ [LifeNext]_vars => (LoopInv /\ LifeInv)'
    <2> SUFFICES ASSUME LoopInv, LifeInv, [LifeNext]_vars PROVE (LoopInv /\ LifeInv)'
      OBVIOUS
    <2>1. LoopInv'
      BY LifeFrame, LifeStepsAreLoopSteps, LoopInvStep
    <2>2. LifeInv'
      BY LifeTypesStep, FxLoopStep, StartingStep, StoppedInOrderStep, PoolIsLastStep DEF LifeInv
    <2> QED
      BY <2>1, <2>2
  <1> QED
    BY LifeInvInit, <1>1, PTL DEF LifeSpec

(* The loops of the running service are loops of WorkerLoop: every behaviour of
   the service, seen through the loops alone, is one of theirs, so what is
   proved of them above holds of the service as Fx drives it.              *)
THEOREM ServiceRunsLoops == LifeSpec => Spec
  <1>1. LifeInit => Init
    BY DEF LifeInit, Init
  <1>2. LifeInv /\ [LifeNext]_vars => [Next]_loopVars
    BY LifeFrame, LifeStepsAreLoopSteps
  <1> QED
    BY <1>1, <1>2, LifeInvariant, PTL DEF LifeSpec, Spec

(* Fx stops the pool's hook after all others: once pool.Close has run in a
   living process, no step of a loop is at work and no request is handled. *)
THEOREM PoolClosesLast == LifeSpec => []PoolOutlivesWork
  <1>1. LifeInv => PoolOutlivesWork
    <2> SUFFICES ASSUME LifeInv, pool = "closed" PROVE requests = {} /\ \A l \in Loops : ~Working(l)
      BY DEF PoolOutlivesWork
    <2> QED
      BY DEF LifeInv, PoolIsLast, Quiet, Working
  <1> QED
    BY <1>1, LifeInvariant, PTL

(* An exit within fx.StopTimeout finds every request answered, every loop ended
   and no Stop given up.                                                   *)
THEOREM GracefulExit == LifeSpec => []NothingCutOff
  <1>1. LifeInv => NothingCutOff
    <2> SUFFICES ASSUME LifeInv, phase = "exited", ~expired
                 PROVE  requests = {} /\ \A l \in Loops : ~Working(l) /\ call[l].result # "deadline"
      BY Zenon DEF NothingCutOff
    <2>1. up = 0 /\ up < HttpHook
      <3>1. Len(Order) \in Nat /\ up = 0
        BY OrderFacts DEF LifeInv, StoppedInOrder
      <3> QED
        BY <3>1 DEF HttpHook
    <2>2. requests = {} /\ \A l \in Loops : Quiet(l)
      BY <2>1, OrderFacts, Zenon DEF LifeInv, StoppedInOrder
    <2>3. \A l \in Loops : call[l].result # "deadline"
      BY Zenon DEF LifeInv, FxLoop
    <2> QED
      BY <2>2, <2>3 DEF Quiet, Working
  <1> QED
    BY <1>1, LifeInvariant, PTL
=============================================================================

-------------------------- MODULE ServiceLifecycle --------------------------
(***************************************************************************)
(* One instance of the service from start to exit: Fx starts the hooks in  *)
(* the order they were registered (connection pool, worker loops, HTTP     *)
(* server) and stops them one by one in the opposite order, within one     *)
(* deadline for all of them.  The loops are those of WorkerLoop, each      *)
(* started once and stopped once, by Fx.                                   *)
(***************************************************************************)
EXTENDS WorkerLoop, Sequences

CONSTANTS
    Order,      \* the loops in the order they are registered
    Requests    \* HTTP requests a client may send

ASSUME OrderAssumption ==
    Order \in Seq(Loops) /\ \A l \in Loops : \E i \in 1 .. Len(Order) : Order[i] = l
ASSUME CallersAssumption == Callers = Loops    \* Fx calls the Stop of each loop

VARIABLES
    phase,      \* of the process
    up,         \* how many hooks are started and not yet stopped
    listening,  \* the HTTP server accepts requests
    requests,   \* requests being handled
    pool,       \* the connection pool
    expired     \* the stop timeout has passed

lifeVars == << phase, up, listening, requests, pool, expired >>
vars == << loopVars, lifeVars >>

PoolHook == 1
HttpHook == Len(Order) + 2
LoopOf(hook) == Order[hook - 1]
IsLoop(hook) == hook \in 2 .. Len(Order) + 1

LifeInit ==
    /\ LoopInit
    /\ phase = "starting" /\ up = 0
    /\ listening = FALSE /\ requests = {}
    /\ pool = "open"
    /\ expired = FALSE

-----------------------------------------------------------------------------
(***************************************************************************)
(* Start.                                                                  *)
(***************************************************************************)

(* The pool answers a ping, or is closed again and the service gives up. *)
StartPool ==
    /\ phase = "starting" /\ up = 0
    /\ \/ up' = 1 /\ UNCHANGED << phase, pool >>
       \/ pool' = "closed" /\ phase' = "stopping" /\ UNCHANGED up
    /\ UNCHANGED << loopVars, listening, requests, expired >>

StartLoop ==
    /\ phase = "starting" /\ IsLoop(up + 1)
    /\ Start(LoopOf(up + 1))
    /\ up' = up + 1
    /\ UNCHANGED << phase, listening, requests, pool, expired >>

(* The address is bound and served, or what was started is stopped again. *)
StartHttp ==
    /\ phase = "starting" /\ up + 1 = HttpHook
    /\ \/ up' = up + 1 /\ phase' = "running" /\ listening' = TRUE
       \/ phase' = "stopping" /\ UNCHANGED << up, listening >>
    /\ UNCHANGED << loopVars, requests, pool, expired >>

(* Requests come and go while the service listens. *)
Accept(q) ==
    /\ listening /\ q \notin requests
    /\ requests' = requests \cup {q}
    /\ UNCHANGED << loopVars, phase, up, listening, pool, expired >>

Answer(q) ==
    /\ q \in requests /\ phase # "exited"
    /\ requests' = requests \ {q}
    /\ UNCHANGED << loopVars, phase, up, listening, pool, expired >>

-----------------------------------------------------------------------------
(***************************************************************************)
(* Stop.                                                                   *)
(***************************************************************************)

Sigterm ==
    /\ phase = "running"
    /\ phase' = "stopping"
    /\ UNCHANGED << loopVars, up, listening, requests, pool, expired >>

(* fx.StopTimeout *)
Expire ==
    /\ phase = "stopping" /\ ~expired
    /\ expired' = TRUE
    /\ UNCHANGED << loopVars, phase, up, listening, requests, pool >>

(* Mutant: the server closes without waiting for the requests it handles. *)
BugDropRequests ==
    /\ phase = "stopping" /\ up = HttpHook /\ ~listening
    /\ up' = up - 1
    /\ UNCHANGED << loopVars, phase, listening, requests, pool, expired >>

(* ShutdownWithContext closes the listener ... *)
CloseListener ==
    /\ phase = "stopping" /\ up = HttpHook /\ listening
    /\ listening' = FALSE
    /\ UNCHANGED << loopVars, phase, up, requests, pool, expired >>

(* ... and waits for the requests, as long as the deadline allows. *)
StopHttp ==
    /\ phase = "stopping" /\ up = HttpHook /\ ~listening
    /\ requests = {} \/ expired
    /\ up' = up - 1
    /\ UNCHANGED << loopVars, phase, listening, requests, pool, expired >>

(* A loop is stopped: Fx begins no hook once the deadline has passed. *)
StopLoop ==
    /\ phase = "stopping" /\ IsLoop(up)
    /\ LET l == LoopOf(up) IN
       \/ ~expired /\ Take(l, l) /\ UNCHANGED up
       \/ (Signal(l) \/ Drained(l)) /\ UNCHANGED up
       \/ expired /\ DeadlinePassed(l) /\ UNCHANGED up
       \/ call[l].pc = "returned" /\ up' = up - 1 /\ UNCHANGED loopVars
    /\ UNCHANGED << phase, listening, requests, pool, expired >>

(* Mutant: the pool is closed as soon as the HTTP server has stopped. *)
BugPoolFirst ==
    /\ phase = "stopping" /\ up < HttpHook /\ pool = "open" /\ ~expired
    /\ pool' = "closed"
    /\ up' = IF up = PoolHook THEN 0 ELSE up
    /\ UNCHANGED << loopVars, phase, listening, requests, expired >>

(* pool.Close: from now on nobody gets a connection. *)
StopPool ==
    /\ phase = "stopping" /\ up = PoolHook /\ ~expired
    /\ pool' = "closed"
    /\ up' = 0
    /\ UNCHANGED << loopVars, phase, listening, requests, expired >>

(* The process ends when the hooks are done or the deadline has passed; what
   still runs is cut off, and the database rolls it back.                  *)
Exit ==
    /\ phase = "stopping" /\ (up = 0 \/ expired)
    /\ phase' = "exited"
    /\ UNCHANGED << loopVars, up, listening, requests, pool, expired >>

(* The goroutines of the loops. *)
LoopRuns(l) ==
    /\ phase # "exited"
    /\ \E r \in Runs : Run(l, r)
    /\ UNCHANGED lifeVars

LifeNext ==
    \/ StartPool \/ StartLoop \/ StartHttp \/ Sigterm \/ Expire
    \/ CloseListener \/ StopHttp \/ StopLoop \/ StopPool \/ Exit
    \/ \E q \in Requests : Accept(q) \/ Answer(q)
    \/ \E l \in Loops : LoopRuns(l)

(* Fx works off its hooks and exits, goroutines are scheduled, and handlers and
   steps come to an end.  Nothing makes the deadline pass, or a signal come. *)
Fairness ==
    /\ WF_vars(CloseListener) /\ WF_vars(StopHttp) /\ WF_vars(StopLoop) /\ WF_vars(StopPool)
    /\ WF_vars(Exit)
    /\ \A q \in Requests : WF_vars(Answer(q))
    /\ \A l \in Loops : WF_vars(LoopRuns(l))

LifeSpec == LifeInit /\ [][LifeNext]_vars /\ Fairness

-----------------------------------------------------------------------------
(***************************************************************************)
(* Properties.                                                             *)
(***************************************************************************)

Working(l) == \E r \in Runs : at[l][r] \in {"call", "step"}

(* The pool is the last to go: once it is closed and while the process lives,
   no step is at work and no request is being handled.                     *)
PoolOutlivesWork ==
    pool = "closed" /\ phase # "exited" => requests = {} /\ \A l \in Loops : ~Working(l)

(* A shutdown that meets its deadline cuts nothing off: every loop has ended
   by itself, with its work context intact until then, and every request has
   been answered.                                                          *)
NothingCutOff ==
    phase = "exited" /\ ~expired =>
        /\ requests = {}
        /\ \A l \in Loops : ~Working(l) /\ call[l].result # "deadline"

(* A shutdown needs no deadline: hooks, requests and runs do not wait for each
   other in a circle, also when the start failed half way, and every hook that
   was started is stopped before the process exits.  Only what does not end by
   itself can make the deadline pass.                                      *)
ShutdownDrains == phase = "stopping" ~> (expired \/ (phase = "exited" /\ up = 0))
=============================================================================

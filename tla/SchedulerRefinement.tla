------------------------- MODULE SchedulerRefinement -------------------------
(***************************************************************************)
(* Scheduler implements Coroutines, for programs whose fibers arrange one  *)
(* wake-up per suspension.                                                 *)
(*                                                                         *)
(* A fiber suspends, in the abstract, when it arranges its wake-up: it may *)
(* then be woken, queued and taken by another thread before it has yielded *)
(* and switched out.  FiberYield, SwitchBack and LockFiber are stutters:   *)
(* Fiber::m_mtx hides that the machine is not done with the fiber yet.     *)
(***************************************************************************)
EXTENDS Scheduler

RunningOn(t) == IF At(t) = "run" THEN fiber[t] ELSE NoFiber

WaitsFor(f) == f \in timers \/ \E s \in Slots : slot[s] = FiberTask(f)

StateOf(f) ==
  IF fstate[f] = "NONE" THEN "absent"
  ELSE IF fstate[f] = "TERM" THEN "ended"
  ELSE IF \E t \in Threads : RunningOn(t) = f THEN "running"
  ELSE IF WaitsFor(f) THEN "waiting" ELSE "ready"

\* Callbacks in the queue, and those taken that have no fiber yet.
Unstarted ==
  Cardinality({i \in DOMAIN m_tasks : m_tasks[i].kind = "cb"})
    + Cardinality({t \in Threads : At(t) = "dispatch" /\ task[t].kind = "cb"})

C == INSTANCE Coroutines WITH
       Coros     <- Fibers,
       Nobody    <- NoFiber,
       state     <- [f \in Fibers |-> StateOf(f)],
       on        <- [t \in Threads |-> RunningOn(t)],
       callbacks <- Unstarted,
       closed    <- pc[Root] = "stopped"

\* Every step of the worker loops, the idle loops, stop() and the fibers is a
\* step of Coroutines or changes nothing a program can see: no wake-up is lost
\* or delivered twice, no fiber is resumed that was not woken, and stop() joins
\* a pool in which nothing is ready, running or accepted and not started.
ImplementsCoroutines == C!Spec
=============================================================================

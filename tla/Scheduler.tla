------------------------------ MODULE Scheduler ------------------------------
(***************************************************************************)
(* The worker loop of a running IOManager: Scheduler::run with the virtual *)
(* functions IOManager overrides (tickle, stopping, idle), the task queue  *)
(* behind scheduleLock, Fiber::resume / Fiber::yield under Fiber::m_mtx,   *)
(* and Scheduler::stop.                                                    *)
(*                                                                         *)
(* A step is the code between two points where another thread can          *)
(* interfere: a critical section, one atomic counter access, one write to  *)
(* the tickle pipe, or the switch into or out of a fiber.  Registered      *)
(* events and pending timers appear only as what wakes a fiber and as what *)
(* stopping() reads; EventContexts and Timer model them in detail.         *)
(***************************************************************************)
EXTENDS Integers, Sequences, FiniteSets, SequencesExt

CONSTANTS
  Workers,     \* threads of the pool, m_threads
  Root,        \* the thread that constructs and stops the scheduler
  UseCaller,   \* m_useCaller: Root joins the pool inside stop()
  Fibers,      \* identities of fibers, NONE until created
  Slots,       \* (fd, event) pairs an addEvent can register
  Pins,        \* values scheduleLock's thread argument takes
  AnyThread,   \* thread = -1: any thread may run the task
  NoFiber,
  Free,        \* an unlocked Fiber::m_mtx
  Wakeup,      \* the tickle pipe's entry in a list of epoll events
  MaxPosts,    \* bound: callbacks and fibers posted as new work
  MaxWaits,    \* bound: times fibers suspend on a timer, event or reschedule
  MaxExtra     \* bound: times a fiber schedules itself and keeps running

Threads == Workers \cup {Root}
Runners == IF UseCaller THEN Threads ELSE Workers

ASSUME SchedulerAssumption ==
  /\ IsFiniteSet(Workers) /\ IsFiniteSet(Slots) /\ Root \notin Workers
  /\ UseCaller \in BOOLEAN
  /\ Pins \subseteq Threads \cup {AnyThread} /\ AnyThread \notin Threads
  /\ NoFiber \notin Fibers /\ Free \notin Threads /\ Wakeup \notin Slots
  /\ MaxPosts \in Nat /\ MaxWaits \in Nat /\ MaxExtra \in Nat

(***************************************************************************)
(* ScheduleTask: resume a fiber, run a callback in a fiber of its own, or  *)
(* run the callback a sleeping fiber left in its timer, whose body is      *)
(* scheduleLock(fiber).                                                    *)
(***************************************************************************)
FiberTask(f)  == [kind |-> "fiber", fiber |-> f, thread |-> AnyThread]
WakeTask(f)   == [kind |-> "wake", fiber |-> f, thread |-> AnyThread]
CbTask(th)    == [kind |-> "cb", fiber |-> NoFiber, thread |-> th]
NoTask        == [kind |-> "none", fiber |-> NoFiber, thread |-> AnyThread]
Tasks         == {FiberTask(f) : f \in Fibers} \cup {WakeTask(f) : f \in Fibers}
                   \cup {CbTask(th) : th \in Threads \cup {AnyThread}}

VARIABLES
  m_tasks,     \* the queue, guarded by m_mtx
  m_stopping,
  active,      \* m_activeThreadCnt
  idle,        \* m_idleThreadCnt
  fstate,      \* Fiber::m_state; NONE before the constructor
  owner,       \* holder of Fiber::m_mtx
  timers,      \* fibers with a pending sleep timer
  slot,        \* EventContext of each (fd, event), or NoTask
  pending,     \* m_pendingEventCnt
  pipe,        \* the tickle pipe holds a byte
  edge,        \* epoll has an unreported edge for the pipe
  pc, ret,     \* control point of each thread, and where tickle returns to
  task,        \* local `task` of run()
  fiber,       \* the fiber whose stack the thread is on, or is about to be
  idleDone,    \* idle_fiber->getState() == TERM
  cbs,         \* local `cbs` of idle(): expired callbacks not yet scheduled
  ready,       \* local `events` of idle(): reported, not yet handled
  tickles,     \* tickles Root still owes in stop()
  posts, waits, extra      \* uses of the three bounds

runVars   == <<active, task, fiber>>
fiberVars == <<fstate, owner>>
waitVars  == <<timers, slot, pending>>
pipeVars  == <<pipe, edge>>
idleVars  == <<idle, idleDone, cbs, ready>>
stopVars  == <<m_stopping, tickles>>
bounds    == <<posts, waits, extra>>
ioVars    == <<waitVars, pipeVars, stopVars>>
vars == <<m_tasks, pc, ret, runVars, fiberVars, ioVars, idleVars, bounds>>

-----------------------------------------------------------------------------
Goto(t, l) == pc' = [pc EXCEPT ![t] = l] /\ UNCHANGED ret

\* Continue at l, through a call of tickle() if one is needed.
TickleIf(need, t, l) ==
  IF need THEN /\ pc' = [pc EXCEPT ![t] = "tickle"]
               /\ ret' = [ret EXCEPT ![t] = l]
          ELSE Goto(t, l)

\* scheduleLock: push under m_mtx; tickle, after unlocking, if it was empty.
ScheduleLock(t, tk, l) ==
  /\ m_tasks' = Append(m_tasks, tk)
  /\ TickleIf(m_tasks = <<>>, t, l)

\* IOManager::tickle: wake an epoll_wait if some thread is idle.
WritePipe == IF idle > 0 THEN pipe' = TRUE /\ edge' = TRUE ELSE UNCHANGED pipeVars

Tickle(t) ==
  /\ pc[t] = "tickle"
  /\ WritePipe
  /\ pc' = [pc EXCEPT ![t] = ret[t]]
  /\ ret' = [ret EXCEPT ![t] = "none"]
  /\ UNCHANGED <<m_tasks, runVars, fiberVars, waitVars, idleVars, stopVars, bounds>>

-----------------------------------------------------------------------------
(* Scheduler::run: take a task, run it, or go idle. *)

MayRun(t, i) == m_tasks[i].thread \in {AnyThread, t}

\* The scan leaves the tasks pinned to other threads where they are; it asks
\* for a tickle exactly when it leaves any task behind.
TakeTask(t) ==
  /\ pc[t] = "take"
  /\ \E i \in DOMAIN m_tasks :
       /\ MayRun(t, i) /\ \A j \in 1..(i-1) : ~MayRun(t, j)
       /\ task' = [task EXCEPT ![t] = m_tasks[i]]
       /\ m_tasks' = RemoveAt(m_tasks, i)
  /\ active' = active + 1
  /\ TickleIf(m_tasks' # <<>>, t, "dispatch")
  /\ UNCHANGED <<fiber, fiberVars, ioVars, idleVars, bounds>>

TakeNothing(t) ==
  /\ pc[t] = "take"
  /\ \A i \in DOMAIN m_tasks : ~MayRun(t, i)
  /\ TickleIf(m_tasks # <<>>, t, "dispatch")
  /\ UNCHANGED <<m_tasks, runVars, fiberVars, ioVars, idleVars, bounds>>

UnlockedIgnored(f) == TRUE               \* Mutant: Fiber::m_mtx is not taken
Unlocked(f) == owner[f] = Free
AliveIgnored(f) == TRUE                  \* Mutant: TERM is not asked for
Alive(f) == fstate[f] # "TERM"

\* task.fiber: lock its mutex, and resume it unless it has terminated.
LockFiber(t) ==
  LET f == task[t].fiber IN
  /\ pc[t] = "dispatch" /\ task[t].kind = "fiber"
  /\ Unlocked(f)
  /\ IF Alive(f) THEN /\ owner' = [owner EXCEPT ![f] = t]
                      /\ fiber' = [fiber EXCEPT ![t] = f]
                      /\ Goto(t, "resume")
                 ELSE UNCHANGED <<owner, fiber>> /\ Goto(t, "release")
  /\ UNCHANGED <<m_tasks, active, task, fstate, ioVars, idleVars, bounds>>

\* task.cb: construct a fiber for it and lock that fiber's mutex.
CreateFiber(t) ==
  /\ pc[t] = "dispatch" /\ task[t].kind = "cb"
  /\ \E f \in Fibers : /\ fstate[f] = "NONE"
                       /\ fstate' = [fstate EXCEPT ![f] = "READY"]
                       /\ owner' = [owner EXCEPT ![f] = t]
                       /\ fiber' = [fiber EXCEPT ![t] = f]
  /\ Goto(t, "resume")
  /\ UNCHANGED <<m_tasks, active, task, ioVars, idleVars, bounds>>

\* The sleep timer's callback, in a fiber nobody else can reach.
RunWake(t) ==
  /\ pc[t] = "dispatch" /\ task[t].kind = "wake"
  /\ ScheduleLock(t, FiberTask(task[t].fiber), "release")
  /\ UNCHANGED <<runVars, fiberVars, ioVars, idleVars, bounds>>

\* Fiber::resume; its assertion is the property ResumeReady.
Resume(t) ==
  /\ pc[t] = "resume"
  /\ fstate' = [fstate EXCEPT ![fiber[t]] = "RUNNING"]
  /\ Goto(t, "run")
  /\ UNCHANGED <<m_tasks, runVars, owner, ioVars, idleVars, bounds>>

\* Back in run(): the lock_guard of the fiber's mutex goes out of scope.
SwitchBack(t) ==
  /\ pc[t] = "switch"
  /\ owner' = [owner EXCEPT ![fiber[t]] = Free]
  /\ fiber' = [fiber EXCEPT ![t] = NoFiber]
  /\ Goto(t, "release")
  /\ UNCHANGED <<m_tasks, active, task, fstate, ioVars, idleVars, bounds>>

\* m_activeThreadCnt--, task.reset()
Release(t) ==
  /\ pc[t] = "release"
  /\ active' = active - 1
  /\ task' = [task EXCEPT ![t] = NoTask]
  /\ Goto(t, "take")
  /\ UNCHANGED <<m_tasks, fiber, fiberVars, ioVars, idleVars, bounds>>

\* No task: leave the loop if the idle fiber has ended, else resume it.
EnterIdle(t) ==
  /\ pc[t] = "dispatch" /\ task[t] = NoTask
  /\ IF idleDone[t] THEN Goto(t, "exit") /\ UNCHANGED idle
                    ELSE Goto(t, "timers?") /\ idle' = idle + 1
  /\ UNCHANGED <<m_tasks, runVars, fiberVars, ioVars, idleDone, cbs, ready, bounds>>

-----------------------------------------------------------------------------
(* What a fiber does while it runs.  A suspension first arranges its wake-up, *)
(* as the hooked sleep and do_io and a self-rescheduling fiber do.            *)

FiberPost(t) ==
  /\ pc[t] = "run" /\ posts < MaxPosts
  /\ posts' = posts + 1
  /\ \E th \in Pins : ScheduleLock(t, CbTask(th), "run")
  /\ UNCHANGED <<runVars, fiberVars, ioVars, idleVars, waits, extra>>

\* A fiber puts itself in the queue, and then suspends.  Or it goes on: that is
\* an extra claim on a fiber that is still running and will wait for another.
FiberReschedule(t, l) ==
  /\ pc[t] = "run"
  /\ waits' = waits + (IF l = "yield" THEN 1 ELSE 0) /\ waits' <= MaxWaits
  /\ extra' = extra + (IF l = "run" THEN 1 ELSE 0) /\ extra' <= MaxExtra
  /\ ScheduleLock(t, FiberTask(fiber[t]), l)
  /\ UNCHANGED <<runVars, fiberVars, ioVars, idleVars, posts>>

\* sleep(): addTimer tickles if the timer is the first to expire and none
\* tickled before it.  Bound: one outstanding sleep per fiber.
FiberSleep(t) ==
  /\ pc[t] = "run" /\ waits < MaxWaits /\ fiber[t] \notin timers
  /\ waits' = waits + 1
  /\ timers' = timers \cup {fiber[t]}
  /\ \E front \in BOOLEAN : TickleIf(front, t, "yield")
  /\ UNCHANGED <<m_tasks, runVars, fiberVars, slot, pending, pipeVars, idleVars,
                 stopVars, posts, extra>>

\* addEvent(fd, event) with no callback: the fiber itself waits.
FiberAddEvent(t) ==
  /\ pc[t] = "run" /\ waits < MaxWaits
  /\ waits' = waits + 1
  /\ \E s \in Slots : /\ slot[s] = NoTask
                      /\ slot' = [slot EXCEPT ![s] = FiberTask(fiber[t])]
  /\ pending' = pending + 1
  /\ Goto(t, "yield")
  /\ UNCHANGED <<m_tasks, runVars, fiberVars, timers, pipeVars, idleVars, stopVars,
                 posts, extra>>

\* Fiber::yield: READY is visible before the context is saved.
FiberYield(t) ==
  /\ pc[t] = "yield"
  /\ fstate' = [fstate EXCEPT ![fiber[t]] = "READY"]
  /\ Goto(t, "switch")
  /\ UNCHANGED <<m_tasks, runVars, owner, ioVars, idleVars, bounds>>

\* Fiber::MainFunc after the callback returns.
FiberEnd(t) ==
  /\ pc[t] = "run"
  /\ fstate' = [fstate EXCEPT ![fiber[t]] = "TERM"]
  /\ Goto(t, "switch")
  /\ UNCHANGED <<m_tasks, runVars, owner, ioVars, idleVars, bounds>>

-----------------------------------------------------------------------------
(* IOManager::idle. stopping() is three reads, each at its own moment. *)

\* One of the reads: go on to the next if it allows stopping, else to epoll_wait.
Ask(t, at, answer, next) ==
  /\ pc[t] = at
  /\ Goto(t, IF answer THEN next ELSE "epoll")
  /\ UNCHANGED <<m_tasks, runVars, fiberVars, ioVars, idleVars, bounds>>

CheckTimers(t) == Ask(t, "timers?", timers = {}, "pending?")

CheckPending(t) == Ask(t, "pending?", pending = 0, "stopping?")

\* Mutant: the queue is not looked at.
SchedulerStoppingNoQueue == m_stopping /\ active = 0
SchedulerStopping == m_stopping /\ m_tasks = <<>> /\ active = 0

\* If it may stop, the idle fiber ends and run() goes round once more.
CheckStopping(t) ==
  /\ pc[t] = "stopping?"
  /\ IF SchedulerStopping
       THEN /\ idleDone' = [idleDone EXCEPT ![t] = TRUE]
            /\ idle' = idle - 1
            /\ Goto(t, "take")
       ELSE UNCHANGED <<idle, idleDone>> /\ Goto(t, "epoll")
  /\ UNCHANGED <<m_tasks, runVars, fiberVars, ioVars, cbs, ready, bounds>>

\* What epoll_wait may report: the pipe if it has an edge and a byte, and any
\* registered slots; also nothing, its timeout being at most MAX_TIMEOUT.
PipeReady  == IF edge /\ pipe THEN {Wakeup} ELSE {}
Registered == {s \in Slots : slot[s] # NoTask}
ReportableNoTimeout == {R \cup PipeReady : R \in SUBSET Registered} \ {{}}  \* Mutant
Reportable == {R \cup PipeReady : R \in SUBSET Registered}

EpollWait(t) ==
  /\ pc[t] = "epoll"
  /\ \E E \in Reportable : ready' = [ready EXCEPT ![t] = E]
  /\ edge' = FALSE
  /\ Goto(t, "expire")
  /\ UNCHANGED <<m_tasks, runVars, fiberVars, waitVars, pipe, idle, idleDone, cbs,
                 stopVars, bounds>>

\* listExpireCb: whatever has expired by now leaves the timer set.
ListExpired(t) ==
  /\ pc[t] = "expire"
  /\ \E E \in SUBSET timers : /\ timers' = timers \ E
                              /\ cbs' = [cbs EXCEPT ![t] = E]
  /\ Goto(t, "events")
  /\ UNCHANGED <<m_tasks, runVars, fiberVars, slot, pending, pipeVars, idle, idleDone,
                 ready, stopVars, bounds>>

ScheduleExpired(t) ==
  /\ pc[t] = "events"
  /\ \E f \in cbs[t] : /\ cbs' = [cbs EXCEPT ![t] = @ \ {f}]
                       /\ ScheduleLock(t, WakeTask(f), "events")
  /\ UNCHANGED <<runVars, fiberVars, ioVars, idle, idleDone, ready, bounds>>

DrainPipe(t) ==
  /\ pc[t] = "events" /\ cbs[t] = {} /\ Wakeup \in ready[t]
  /\ ready' = [ready EXCEPT ![t] = @ \ {Wakeup}]
  /\ pipe' = FALSE
  /\ UNCHANGED <<m_tasks, pc, ret, runVars, fiberVars, waitVars, edge, idle, idleDone,
                 cbs, stopVars, bounds>>

Clear(s) == slot' = [slot EXCEPT ![s] = NoTask]

DeliverKept(t, s)      == ScheduleLock(t, slot[s], "triggered") /\ UNCHANGED slot
DeliverEmpty(t, s)     == ScheduleLock(t, NoTask, "triggered") /\ Clear(s)
DeliverLost(t, s)      == Goto(t, "triggered") /\ UNCHANGED m_tasks /\ Clear(s)
DeliverUncounted(t, s) == ScheduleLock(t, slot[s], "events") /\ Clear(s)
\* triggerEvent: schedule what the event was registered with, then reset it.
\* Mutants, above: no reset; the reset comes first, and queues an empty task or
\* none; the pending count is left alone.
Deliver(t, s) == ScheduleLock(t, slot[s], "triggered") /\ Clear(s)

\* One reported event, under its FdContext's mutex, skipped if it is gone; the
\* pending count drops only after the push and its tickle.
TriggerEvent(t) ==
  /\ pc[t] = "events" /\ cbs[t] = {}
  /\ \E s \in ready[t] \ {Wakeup} :
       /\ ready' = [ready EXCEPT ![t] = @ \ {s}]
       /\ IF slot[s] = NoTask THEN UNCHANGED <<m_tasks, slot, pc, ret>>
                              ELSE Deliver(t, s)
  /\ UNCHANGED <<runVars, fiberVars, timers, pending, pipeVars, idle, idleDone, cbs,
                 stopVars, bounds>>

DropPending(t) ==
  /\ pc[t] = "triggered"
  /\ pending' = pending - 1
  /\ Goto(t, "events")
  /\ UNCHANGED <<m_tasks, runVars, fiberVars, timers, slot, pipeVars, idleVars,
                 stopVars, bounds>>

\* The idle fiber yields to run().
LeaveIdle(t) ==
  /\ pc[t] = "events" /\ cbs[t] = {} /\ ready[t] = {}
  /\ idle' = idle - 1
  /\ Goto(t, "take")
  /\ UNCHANGED <<m_tasks, runVars, fiberVars, ioVars, idleDone, cbs, ready, bounds>>

-----------------------------------------------------------------------------
(* The thread that owns the scheduler: posts work, then calls stop(). *)

PostCb ==
  /\ pc[Root] = "user" /\ posts < MaxPosts
  /\ posts' = posts + 1
  /\ \E th \in Pins : ScheduleLock(Root, CbTask(th), "user")
  /\ UNCHANGED <<runVars, fiberVars, ioVars, idleVars, waits, extra>>

\* make_shared<Fiber>(cb) followed by scheduleLock(fiber).
PostFiber ==
  /\ pc[Root] = "user" /\ posts < MaxPosts
  /\ posts' = posts + 1
  /\ \E f \in Fibers : /\ fstate[f] = "NONE"
                       /\ fstate' = [fstate EXCEPT ![f] = "READY"]
                       /\ ScheduleLock(Root, FiberTask(f), "user")
  /\ UNCHANGED <<runVars, owner, ioVars, idleVars, waits, extra>>

PostEvent ==
  /\ pc[Root] = "user" /\ posts < MaxPosts
  /\ posts' = posts + 1
  /\ \E s \in Slots : /\ slot[s] = NoTask
                      /\ slot' = [slot EXCEPT ![s] = CbTask(AnyThread)]
  /\ pending' = pending + 1
  /\ UNCHANGED <<m_tasks, pc, ret, runVars, fiberVars, timers, pipeVars, idleVars,
                 stopVars, waits, extra>>

Stop ==
  /\ pc[Root] = "user"
  /\ m_stopping' = TRUE
  /\ tickles' = Cardinality(Workers) + (IF UseCaller THEN 1 ELSE 0)
  /\ Goto(Root, "stop")
  /\ UNCHANGED <<m_tasks, runVars, fiberVars, waitVars, pipeVars, idleVars, bounds>>

StopTickle ==
  /\ pc[Root] = "stop" /\ tickles > 0
  /\ tickles' = tickles - 1
  /\ WritePipe
  /\ UNCHANGED <<m_tasks, pc, ret, runVars, fiberVars, waitVars, idleVars, m_stopping,
                 bounds>>

\* m_schedulerFiber->resume(): Root becomes a worker until its run() returns.
StopRun ==
  /\ pc[Root] = "stop" /\ tickles = 0
  /\ Goto(Root, IF UseCaller THEN "take" ELSE "exit")
  /\ UNCHANGED <<m_tasks, runVars, fiberVars, ioVars, idleVars, bounds>>

Join ==
  /\ \A t \in Threads : pc[t] = "exit"
  /\ Goto(Root, "stopped")
  /\ UNCHANGED <<m_tasks, runVars, fiberVars, ioVars, idleVars, bounds>>

\* stop() has returned and every worker has been joined.
Stopped == pc[Root] = "stopped" /\ UNCHANGED vars

-----------------------------------------------------------------------------
Init ==
  /\ m_tasks = <<>> /\ m_stopping = FALSE
  /\ active = 0 /\ idle = 0
  /\ fstate = [f \in Fibers |-> "NONE"]
  /\ owner = [f \in Fibers |-> Free]
  /\ timers = {} /\ slot = [s \in Slots |-> NoTask] /\ pending = 0
  /\ pipe = FALSE /\ edge = FALSE
  /\ pc = [t \in Threads |-> IF t = Root THEN "user" ELSE "take"]
  /\ ret = [t \in Threads |-> "none"]
  /\ task = [t \in Threads |-> NoTask]
  /\ fiber = [t \in Threads |-> NoFiber]
  /\ idleDone = [t \in Threads |-> FALSE]
  /\ cbs = [t \in Threads |-> {}] /\ ready = [t \in Threads |-> {}]
  /\ tickles = 0
  /\ posts = 0 /\ waits = 0 /\ extra = 0

RunStep(t) ==
  \/ Tickle(t)
  \/ TakeTask(t) \/ TakeNothing(t)
  \/ LockFiber(t) \/ CreateFiber(t) \/ RunWake(t)
  \/ Resume(t) \/ SwitchBack(t) \/ Release(t) \/ EnterIdle(t)

FiberStep(t) ==
  \/ FiberPost(t) \/ \E l \in {"yield", "run"} : FiberReschedule(t, l)
  \/ FiberSleep(t) \/ FiberAddEvent(t)
  \/ FiberYield(t) \/ FiberEnd(t)

IdleStep(t) ==
  \/ CheckTimers(t) \/ CheckPending(t) \/ CheckStopping(t)
  \/ EpollWait(t) \/ ListExpired(t) \/ ScheduleExpired(t)
  \/ DrainPipe(t) \/ TriggerEvent(t) \/ DropPending(t) \/ LeaveIdle(t)

ThreadStep(t) == RunStep(t) \/ FiberStep(t) \/ IdleStep(t)

PostStep == PostCb \/ PostFiber \/ PostEvent
StopStep == StopTickle \/ StopRun \/ Join

Next ==
  \/ \E t \in Threads : ThreadStep(t)
  \/ PostStep \/ Stop \/ StopStep
  \/ Stopped

Spec == Init /\ [][Next]_vars

(***************************************************************************)
(* Fairness: a runnable thread is eventually run, epoll_wait always        *)
(* returns (its timeout is finite), fibers eventually suspend or end, time *)
(* passes, so a timer expires, and peers eventually make a descriptor      *)
(* ready.  Posting work and calling stop() are the user's choice.          *)
(***************************************************************************)
Expires(t, f) == ListExpired(t) /\ f \in cbs'[t]
Reports(t, s) == EpollWait(t) /\ s \in ready'[t]

SchedulerFairness ==
  /\ \A t \in Threads : WF_vars(ThreadStep(t))
  /\ WF_vars(StopStep)
EnvironmentFairness ==
  /\ \A f \in Fibers : SF_vars(\E t \in Threads : Expires(t, f))
  /\ \A s \in Slots : SF_vars(\E t \in Threads : Reports(t, s))
FairSpec == Spec /\ SchedulerFairness /\ EnvironmentFairness

-----------------------------------------------------------------------------
(* Properties *)

Labels == {"user", "stop", "take", "tickle", "dispatch", "resume", "run", "yield",
           "switch", "release", "timers?", "pending?", "stopping?", "epoll",
           "expire", "events", "triggered", "exit", "stopped"}

TypeOK ==
  /\ m_tasks \in Seq(Tasks) /\ m_stopping \in BOOLEAN
  /\ active \in Int /\ idle \in Int /\ pending \in Int
  /\ fstate \in [Fibers -> {"NONE", "READY", "RUNNING", "TERM"}]
  /\ owner \in [Fibers -> Threads \cup {Free}]
  /\ timers \in SUBSET Fibers
  /\ slot \in [Slots -> Tasks \cup {NoTask}]
  /\ pipe \in BOOLEAN /\ edge \in BOOLEAN
  /\ pc \in [Threads -> Labels]
  /\ ret \in [Threads -> {"none"} \cup (Labels \ {"tickle"})]
  /\ task \in [Threads -> Tasks \cup {NoTask}]
  /\ fiber \in [Threads -> Fibers \cup {NoFiber}]
  /\ idleDone \in [Threads -> BOOLEAN]
  /\ cbs \in [Threads -> SUBSET Fibers]
  /\ ready \in [Threads -> SUBSET (Slots \cup {Wakeup})]
  /\ tickles \in Nat /\ posts \in Nat /\ waits \in Nat /\ extra \in Nat

\* Where a thread is, or will be once the tickle() it is calling returns.
At(t) == IF pc[t] = "tickle" THEN ret[t] ELSE pc[t]

OnStack(t) == At(t) \in {"run", "yield", "switch"}
InIdle(t)  == At(t) \in {"timers?", "pending?", "stopping?", "epoll", "expire",
                        "events", "triggered"}

\* Two threads never execute on the stack of the same fiber, although a fiber
\* is queued before it has switched out (Fiber::m_mtx in Scheduler::run).
FiberExclusive ==
  \A t, u \in Threads :
    OnStack(t) /\ OnStack(u) /\ fiber[t] = fiber[u] => t = u

\* Fiber::resume finds the fiber READY: its assertion never fails, whoever
\* scheduled the fiber, how often, and whatever it was doing meanwhile.
ResumeReady ==
  \A t \in Threads : pc[t] = "resume" => fstate[fiber[t]] = "READY"

\* m_activeThreadCnt counts the threads that hold a task, m_idleThreadCnt
\* those inside their idle fiber, m_pendingEventCnt the registered events and
\* the deliveries not yet over: what stopping() and tickle() rely on.  None of
\* these unsigned counters can therefore wrap below zero.
CountersExact ==
  /\ pending = Cardinality({s \in Slots : slot[s] # NoTask})
                 + Cardinality({t \in Threads : At(t) = "triggered"})
  /\ active = Cardinality({t \in Threads : task[t] # NoTask})
  /\ idle = Cardinality({t \in Threads : InIdle(t)})

\* Everything that will resume fiber f, or is on its way to do so.
Claims(f) ==
  LET names == {FiberTask(f), WakeTask(f)} IN
  {<<"queued", i>> : i \in {j \in DOMAIN m_tasks : m_tasks[j] \in names}}
  \cup {<<"registered", s>> : s \in {r \in Slots : slot[r] = FiberTask(f)}}
  \cup {<<"expired", t>> : t \in {u \in Threads : f \in cbs[u]}}
  \cup {<<"taken", t>> : t \in {u \in Threads : At(u) = "dispatch" /\ task[u] \in names}}
  \cup {<<"running", t>> : t \in {u \in Threads : At(u) \in {"resume", "run"} /\ fiber[u] = f}}
  \cup (IF f \in timers THEN {<<"timer", f>>} ELSE {})

\* A live fiber has exactly one wake-up under way, and a terminated one none:
\* a wait neither gets lost between timer, epoll, batch and queue, nor ends
\* twice.  For programs whose fibers arrange one wake-up per suspension.
ExactlyOneWake ==
  \A f \in Fibers :
    Cardinality(Claims(f)) = IF fstate[f] \in {"READY", "RUNNING"} THEN 1 ELSE 0

\* The same without that discipline: a live fiber is never forgotten.
NoLostFiber ==
  \A f \in Fibers : fstate[f] \in {"READY", "RUNNING"} => Claims(f) # {}

\* ~Scheduler's assertion: when stop() has joined the pool, no task is queued
\* and none is running.
DestructorAssertion ==
  pc[Root] = "stopped" => m_stopping /\ m_tasks = <<>> /\ active = 0

\* stop() returns once every wait can end.
StopReturns == m_stopping ~> (pc[Root] = "stopped")

\* Queued work is picked up, even when its tickle found nobody idle or was
\* swallowed by a thread that went on to run something else.
QueueDrains == (m_tasks # <<>>) ~> (m_tasks = <<>>)

\* "The id of the thread the task has to run on" (scheduler.h:20): a queued
\* task that names a thread is eventually taken.
PinnedTaskRuns ==
  \A th \in Threads :
    (\E i \in DOMAIN m_tasks : m_tasks[i] = CbTask(th))
      ~> (\A i \in DOMAIN m_tasks : m_tasks[i] # CbTask(th))
=============================================================================

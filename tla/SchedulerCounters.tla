------------------------- MODULE SchedulerCounters -------------------------
(***************************************************************************)
(* Theorems: the three atomic counters of Scheduler and IOManager count    *)
(* exactly what stopping() and tickle() take them to count, for any number *)
(* of threads and events; and when stop() has joined the pool there is     *)
(* nothing left in it to do.                                               *)
(*                                                                         *)
(* CountersExact is not inductive as it stands: a decrement is right only  *)
(* if its thread was counted, so TaskHeld says at which points of run() a  *)
(* thread holds a task.                                                    *)
(***************************************************************************)
EXTENDS SchedulerProofs

Busy == {"resume", "run", "yield", "switch", "release"}

\* A thread holds a task from the scan to task.reset(), and at no other point;
\* just after the scan it may have found none.
TaskHeld ==
  \A t \in Threads : /\ At(t) \in Busy => task[t] # NoTask
                     /\ At(t) \notin Busy \cup {"dispatch"} => task[t] = NoTask

CInv == TaskHeld /\ CountersExact

\* The sets the counters count.
Holders    == {t \in Threads : task[t] # NoTask}
Idlers     == {t \in Threads : InIdle(t)}
Deliverers == {t \in Threads : At(t) = "triggered"}

IdleLabels == {"timers?", "pending?", "stopping?", "epoll", "expire", "events",
               "triggered"}

-----------------------------------------------------------------------------
(* How a step changes those sets, and their sizes. *)

\* The sets the counters count are finite.
LEMMA AllFinite ==
  /\ IsFiniteSet(Holders) /\ IsFiniteSet(Idlers) /\ IsFiniteSet(Deliverers)
  /\ IsFiniteSet(Registered)
<1>1. IsFiniteSet(Threads)
  BY SchedulerAssumption, FS_AddElement DEF Threads
<1>2. /\ Holders \in SUBSET Threads /\ Idlers \in SUBSET Threads
      /\ Deliverers \in SUBSET Threads /\ Registered \in SUBSET Slots
  BY DEF Holders, Idlers, Deliverers, Registered
<1>3. IsFiniteSet(Slots)
  BY SchedulerAssumption
<1> QED BY <1>1, <1>2, <1>3, FS_Subset

\* CountersExact with names for the sets it counts.
LEMMA CountsOf ==
  CountersExact <=> /\ pending = Cardinality(Registered) + Cardinality(Deliverers)
                    /\ active = Cardinality(Holders)
                    /\ idle = Cardinality(Idlers)
BY DEF CountersExact, Registered, Deliverers, Holders, Idlers

\* What ++ on a counter has to match.
LEMMA AddOne ==
  ASSUME NEW S, IsFiniteSet(S), NEW x, x \notin S
  PROVE  Cardinality(S) \in Nat /\ Cardinality(S \cup {x}) = Cardinality(S) + 1
BY FS_AddElement, FS_CardinalityType

\* What -- on a counter has to match.
LEMMA RemoveOne ==
  ASSUME NEW S, IsFiniteSet(S), NEW x, x \in S
  PROVE  Cardinality(S) \in Nat /\ Cardinality(S \ {x}) = Cardinality(S) - 1
BY FS_RemoveElement, FS_CardinalityType

\* A move of t to l enters or leaves the idle loop and a delivery.
LEMMA MoveSets ==
  ASSUME NEW t \in Threads, NEW l, Moves(t, l)
  PROVE  /\ Idlers' = IF l \in IdleLabels THEN Idlers \cup {t} ELSE Idlers \ {t}
         /\ Deliverers' = IF l = "triggered" THEN Deliverers \cup {t}
                                             ELSE Deliverers \ {t}
<1>1. /\ At(t)' = l
      /\ \A u \in Threads \ {t} : At(u)' = At(u)
  BY DEF Moves
<1>2. Idlers' = {u \in Threads : At(u)' \in IdleLabels}
  BY DEF Idlers, InIdle, IdleLabels
<1>3. Idlers = {u \in Threads : At(u) \in IdleLabels}
  BY DEF Idlers, InIdle, IdleLabels
<1>4. Deliverers' = {u \in Threads : At(u)' = "triggered"}
  BY DEF Deliverers
<1> QED BY <1>1, <1>2, <1>3, <1>4 DEF Deliverers

\* A thread that stays in the idle loop, or out of it, is counted as before.
LEMMA MoveSame ==
  ASSUME NEW t \in Threads, NEW l, Moves(t, l)
  PROVE  /\ (l \in IdleLabels <=> At(t) \in IdleLabels) => Idlers' = Idlers
         /\ (l = "triggered" <=> At(t) = "triggered") => Deliverers' = Deliverers
BY MoveSets DEF Idlers, Deliverers, InIdle, IdleLabels

\* One thread moves, and takes or drops its task on the way.
LEMMA HeldFrame ==
  ASSUME TaskHeld, NEW t \in Threads, NEW l, Moves(t, l),
         \A u \in Threads \ {t} : task'[u] = task[u],
         l \in Busy => task'[t] # NoTask,
         l \notin Busy \cup {"dispatch"} => task'[t] = NoTask
  PROVE  TaskHeld'
<1> SUFFICES ASSUME NEW u \in Threads
             PROVE  /\ At(u)' \in Busy => task'[u] # NoTask
                    /\ At(u)' \notin Busy \cup {"dispatch"} => task'[u] = NoTask
  BY DEF TaskHeld
<1>1. CASE u = t
  BY <1>1 DEF Moves
<1>2. CASE u # t
  BY <1>2 DEF Moves, TaskHeld
<1> QED BY <1>1, <1>2

\* A step that no counter notices.
LEMMA QuietCount ==
  ASSUME CInv, NEW t \in Threads, NEW l, Moves(t, l),
         l \in IdleLabels <=> At(t) \in IdleLabels,
         l = "triggered" <=> At(t) = "triggered",
         UNCHANGED <<active, idle, pending, task, slot>>,
         l \in Busy => task[t] # NoTask,
         l \notin Busy \cup {"dispatch"} => task[t] = NoTask
  PROVE  CInv'
<1>1. TaskHeld'
  BY HeldFrame DEF CInv
<1>2. /\ Idlers' = Idlers /\ Deliverers' = Deliverers
      /\ Holders' = Holders /\ Registered' = Registered
  BY MoveSame DEF Holders, Registered
<1>3. CountersExact'
  BY <1>2 DEF CInv, CountersExact, Idlers, Deliverers, Holders, Registered
<1> QED BY <1>1, <1>3 DEF CInv

\* Scheduler::run.
LEMMA CountRun ==
  ASSUME IInv, CInv, NEW t \in Threads, RunStep(t)
  PROVE  CInv'
<1> USE DEF runVars, fiberVars, waitVars, pipeVars, idleVars, stopVars, bounds, ioVars,
  IInv, CInv, TaskHeld, Busy, IdleLabels
<1>1. CASE Tickle(t)
  <2>1. PICK l \in Labels : l = At(t) /\ Moves(t, l)
    BY <1>1 DEF TypeOK, ReturnKnown, Tickle, Moves, At, Labels
  <2> QED BY <1>1, <2>1, QuietCount DEF Tickle
<1>2. CASE TakeTask(t)
  <2>1. Moves(t, "dispatch") /\ At(t) = "take"
    BY <1>2, RunControl
  <2>2. PICK i \in DOMAIN m_tasks : task' = [task EXCEPT ![t] = m_tasks[i]]
    BY <1>2 DEF TakeTask
  <2>3. m_tasks[i] \in Tasks /\ m_tasks[i] # NoTask
    BY <2>2, TaskKinds, LenProperties DEF TypeOK
  <2>4. t \notin Holders /\ Holders' = Holders \cup {t}
    BY <2>1, <2>2, <2>3 DEF Holders, TypeOK
  <2>5. active' = Cardinality(Holders')
    BY <1>2, <2>4, AllFinite, AddOne, CountsOf DEF TakeTask
  <2>6. Idlers' = Idlers /\ Deliverers' = Deliverers /\ Registered' = Registered
    BY <1>2, <2>1, MoveSame DEF TakeTask, Registered
  <2>7. TaskHeld'
    BY <2>1, <2>2, <2>3, HeldFrame DEF TypeOK
  <2> QED BY <1>2, <2>5, <2>6, <2>7, CountsOf
      DEF TakeTask, CountersExact, Idlers, Deliverers, Holders, Registered
<1>3. CASE TakeNothing(t)
  BY <1>3, RunControl, QuietCount DEF TakeNothing
<1>4. CASE LockFiber(t)
  <2>1. PICK l \in {"resume", "release"} : Moves(t, l)
    BY <1>4, RunControl DEF IInv
  <2> QED BY <1>4, <2>1, RunControl, QuietCount DEF LockFiber, NoTask
<1>5. CASE CreateFiber(t)
  <2>1. task[t] # NoTask /\ UNCHANGED <<active, idle, pending, task, slot>>
    BY <1>5 DEF CreateFiber, NoTask
  <2> QED BY <1>5, <2>1, RunControl, QuietCount
<1>6. CASE RunWake(t)
  BY <1>6, RunControl, QuietCount DEF RunWake, NoTask
<1>7. CASE Resume(t)
  BY <1>7, RunControl, QuietCount DEF Resume
<1>8. CASE SwitchBack(t)
  BY <1>8, RunControl, QuietCount DEF SwitchBack
<1>9. CASE Release(t)
  <2>1. Moves(t, "take") /\ At(t) = "release"
    BY <1>9, RunControl
  <2>2. t \in Holders /\ Holders' = Holders \ {t}
    BY <1>9, <2>1 DEF Holders, TypeOK, Release
  <2>3. active' = Cardinality(Holders')
    BY <1>9, <2>2, AllFinite, RemoveOne, CountsOf DEF Release
  <2>4. Idlers' = Idlers /\ Deliverers' = Deliverers /\ Registered' = Registered
    BY <1>9, <2>1, MoveSame DEF Release, Registered
  <2>5. TaskHeld'
    BY <1>9, <2>1, HeldFrame DEF TypeOK, Release
  <2> QED BY <1>9, <2>3, <2>4, <2>5, CountsOf
      DEF Release, CountersExact, Idlers, Deliverers, Holders, Registered
<1>10. CASE EnterIdle(t)
  <2>1. task[t] = NoTask /\ At(t) = "dispatch"
    BY <1>10, RunControl DEF EnterIdle
  <2>2. CASE idleDone[t]
    <3>1. Moves(t, "exit")
      BY <1>10, <2>2, GotoMoves DEF EnterIdle, Labels
    <3> QED BY <1>10, <2>1, <2>2, <3>1, QuietCount DEF EnterIdle
  <2>3. CASE ~idleDone[t]
    <3>1. Moves(t, "timers?")
      BY <1>10, <2>3, GotoMoves DEF EnterIdle, Labels
    <3>2. t \notin Idlers /\ Idlers' = Idlers \cup {t} /\ Deliverers' = Deliverers
      BY <2>1, <3>1, MoveSets, MoveSame DEF Idlers, InIdle
    <3>3. idle' = Cardinality(Idlers')
      BY <1>10, <2>3, <3>2, AllFinite, AddOne, CountsOf DEF EnterIdle
    <3>4. TaskHeld'
      BY <1>10, <2>1, <3>1, HeldFrame DEF EnterIdle
    <3> QED BY <1>10, <3>2, <3>3, <3>4, CountsOf
        DEF EnterIdle, CountersExact, Idlers, Deliverers, Holders, Registered
  <2> QED BY <2>2, <2>3
<1> QED BY <1>1, <1>2, <1>3, <1>4, <1>5, <1>6, <1>7, <1>8, <1>9, <1>10 DEF RunStep

\* A fiber that runs.
LEMMA CountFiber ==
  ASSUME IInv, CInv, NEW t \in Threads, FiberStep(t)
  PROVE  CInv'
<1> USE DEF runVars, fiberVars, waitVars, pipeVars, idleVars, stopVars, bounds, ioVars,
  IInv, CInv, TaskHeld, Busy, IdleLabels
<1>1. CASE FiberPost(t)
  BY <1>1, FiberControl, QuietCount DEF FiberPost
<1>2. CASE \E l \in {"yield", "run"} : FiberReschedule(t, l)
  BY <1>2, FiberControl, QuietCount DEF FiberReschedule
<1>3. CASE FiberSleep(t)
  BY <1>3, FiberControl, QuietCount DEF FiberSleep
<1>4. CASE FiberAddEvent(t)
  <2>1. Moves(t, "yield") /\ At(t) = "run"
    BY <1>4, FiberControl
  <2>2. PICK s \in Slots : /\ slot[s] = NoTask
                           /\ slot' = [slot EXCEPT ![s] = FiberTask(fiber[t])]
    BY <1>4 DEF FiberAddEvent
  <2>3. FiberTask(fiber[t]) # NoTask
    BY DEF FiberTask, NoTask
  <2>4. s \notin Registered /\ Registered' = Registered \cup {s}
    BY <2>2, <2>3 DEF Registered, TypeOK
  <2>5. /\ Cardinality(Registered') = Cardinality(Registered) + 1
        /\ Cardinality(Registered) \in Nat /\ Cardinality(Deliverers) \in Nat
    BY <2>4, AllFinite, AddOne, FS_CardinalityType
  <2>6. Idlers' = Idlers /\ Deliverers' = Deliverers /\ Holders' = Holders
    BY <1>4, <2>1, MoveSame DEF FiberAddEvent, Holders
  <2>7. pending' = Cardinality(Registered') + Cardinality(Deliverers')
    BY <1>4, <2>5, <2>6, CountsOf DEF FiberAddEvent
  <2>8. TaskHeld'
    BY <1>4, <2>1, HeldFrame DEF FiberAddEvent
  <2> QED BY <1>4, <2>6, <2>7, <2>8, CountsOf
      DEF FiberAddEvent, CountersExact, Idlers, Deliverers, Holders, Registered
<1>5. CASE FiberYield(t)
  BY <1>5, FiberControl, QuietCount DEF FiberYield
<1>6. CASE FiberEnd(t)
  BY <1>6, FiberControl, QuietCount DEF FiberEnd
<1> QED BY <1>1, <1>2, <1>3, <1>4, <1>5, <1>6 DEF FiberStep

\* IOManager::idle.
LEMMA CountIdle ==
  ASSUME IInv, CInv, NEW t \in Threads, IdleStep(t)
  PROVE  CInv'
<1> USE DEF runVars, fiberVars, waitVars, pipeVars, idleVars, stopVars, bounds, ioVars,
  IInv, CInv, TaskHeld, Busy, IdleLabels
<1>1. CASE CheckTimers(t)
  <2>1. PICK l \in {"pending?", "epoll"} : Moves(t, l)
    BY <1>1, IdleControl DEF IInv
  <2> QED BY <1>1, <2>1, IdleControl, QuietCount DEF CheckTimers, Ask
<1>2. CASE CheckPending(t)
  <2>1. PICK l \in {"stopping?", "epoll"} : Moves(t, l)
    BY <1>2, IdleControl DEF IInv
  <2> QED BY <1>2, <2>1, IdleControl, QuietCount DEF CheckPending, Ask
<1>3. CASE CheckStopping(t)
  <2>1. CASE SchedulerStopping
    <3>1. Moves(t, "take") /\ At(t) \in IdleLabels
      BY <1>3, <2>1, GotoMoves, IdleControl DEF CheckStopping, Labels
    <3>2. t \in Idlers /\ Idlers' = Idlers \ {t} /\ Deliverers' = Deliverers
      BY <1>3, <2>1, <3>1, IdleControl, MoveSets, MoveSame DEF Idlers, InIdle
    <3>3. idle' = Cardinality(Idlers')
      BY <1>3, <2>1, <3>2, AllFinite, RemoveOne, CountsOf DEF CheckStopping
    <3>4. TaskHeld'
      BY <1>3, <2>1, <3>1, IdleControl, HeldFrame DEF CheckStopping
    <3> QED BY <1>3, <2>1, <3>2, <3>3, <3>4, CountsOf
        DEF CheckStopping, CountersExact, Idlers, Deliverers, Holders, Registered
  <2>2. CASE ~SchedulerStopping
    <3>1. Moves(t, "epoll")
      BY <1>3, <2>2, GotoMoves DEF CheckStopping, Labels
    <3> QED BY <1>3, <2>2, <3>1, IdleControl, QuietCount DEF CheckStopping
  <2> QED BY <2>1, <2>2
<1>4. CASE EpollWait(t)
  BY <1>4, IdleControl, QuietCount DEF EpollWait
<1>5. CASE ListExpired(t)
  BY <1>5, IdleControl, QuietCount DEF ListExpired
<1>6. CASE ScheduleExpired(t)
  BY <1>6, IdleControl, QuietCount DEF ScheduleExpired
<1>7. CASE DrainPipe(t)
  BY <1>7, IdleControl, QuietCount DEF DrainPipe
<1>8. CASE TriggerEvent(t)
  <2>1. PICK s \in ready[t] \ {Wakeup} :
          IF slot[s] = NoTask THEN UNCHANGED <<m_tasks, slot, pc, ret>> ELSE Deliver(t, s)
    BY <1>8 DEF TriggerEvent
  <2>2. At(t) = "events" /\ s \in Slots
    BY <1>8, IdleControl DEF TypeOK
  <2>3. CASE slot[s] = NoTask
    <3>1. Moves(t, "events")
      BY <1>8, <2>1, <2>3, StayMoves DEF TriggerEvent, Labels
    <3> QED BY <1>8, <2>1, <2>2, <2>3, <3>1, QuietCount DEF TriggerEvent
  <2>4. CASE slot[s] # NoTask
    <3>1. Moves(t, "triggered") /\ slot' = [slot EXCEPT ![s] = NoTask]
      BY <2>1, <2>4, TickleIfMoves DEF Deliver, ScheduleLock, Clear, Labels
    <3>2. s \in Registered /\ Registered' = Registered \ {s}
      BY <2>2, <2>4, <3>1 DEF Registered, TypeOK
    <3>3. t \notin Deliverers /\ Deliverers' = Deliverers \cup {t} /\ Idlers' = Idlers
      BY <2>2, <3>1, MoveSets, MoveSame DEF Deliverers
    <3>4. /\ Cardinality(Registered') = Cardinality(Registered) - 1
          /\ Cardinality(Deliverers') = Cardinality(Deliverers) + 1
          /\ Cardinality(Registered) \in Nat /\ Cardinality(Deliverers) \in Nat
      BY <3>2, <3>3, AllFinite, RemoveOne, AddOne, FS_CardinalityType
    <3>5. pending' = Cardinality(Registered') + Cardinality(Deliverers')
      BY <1>8, <3>4, CountsOf DEF TriggerEvent
    <3>6. TaskHeld'
      BY <1>8, <2>2, <3>1, HeldFrame DEF TriggerEvent
    <3> QED BY <1>8, <3>3, <3>5, <3>6, CountsOf
        DEF TriggerEvent, CountersExact, Idlers, Deliverers, Holders, Registered
  <2> QED BY <2>3, <2>4
<1>9. CASE DropPending(t)
  <2>1. Moves(t, "events") /\ At(t) = "triggered"
    BY <1>9, IdleControl
  <2>2. t \in Deliverers /\ Deliverers' = Deliverers \ {t} /\ Idlers' = Idlers
    BY <2>1, MoveSets, MoveSame DEF Deliverers
  <2>3. Registered' = Registered /\ Holders' = Holders
    BY <1>9 DEF DropPending, Registered, Holders
  <2>4. /\ Cardinality(Deliverers') = Cardinality(Deliverers) - 1
        /\ Cardinality(Registered) \in Nat /\ Cardinality(Deliverers) \in Nat
    BY <2>2, AllFinite, RemoveOne, FS_CardinalityType
  <2>5. pending' = Cardinality(Registered') + Cardinality(Deliverers')
    BY <1>9, <2>3, <2>4, CountsOf DEF DropPending
  <2>6. TaskHeld'
    BY <1>9, <2>1, HeldFrame DEF DropPending
  <2> QED BY <1>9, <2>2, <2>3, <2>5, <2>6, CountsOf
      DEF DropPending, CountersExact, Idlers, Deliverers, Holders, Registered
<1>10. CASE LeaveIdle(t)
  <2>1. Moves(t, "take") /\ At(t) \in IdleLabels
    BY <1>10, IdleControl DEF LeaveIdle
  <2>2. t \in Idlers /\ Idlers' = Idlers \ {t} /\ Deliverers' = Deliverers
    BY <1>10, <2>1, IdleControl, MoveSets, MoveSame DEF Idlers, InIdle
  <2>3. idle' = Cardinality(Idlers')
    BY <1>10, <2>2, AllFinite, RemoveOne, CountsOf DEF LeaveIdle
  <2>4. TaskHeld'
    BY <1>10, <2>1, IdleControl, HeldFrame DEF LeaveIdle
  <2> QED BY <1>10, <2>2, <2>3, <2>4, CountsOf
      DEF LeaveIdle, CountersExact, Idlers, Deliverers, Holders, Registered
<1> QED BY <1>1, <1>2, <1>3, <1>4, <1>5, <1>6, <1>7, <1>8, <1>9, <1>10 DEF IdleStep

\* The owner.
LEMMA CountRoot ==
  ASSUME IInv, CInv, PostStep \/ Stop \/ StopStep
  PROVE  CInv'
<1> USE DEF runVars, fiberVars, waitVars, pipeVars, idleVars, stopVars, bounds, ioVars,
  IInv, CInv, TaskHeld, Busy, IdleLabels
<1>0. Root \in Threads
  BY DEF Threads
<1>1. CASE PostCb
  BY <1>0, <1>1, RootControl, QuietCount DEF PostCb
<1>2. CASE PostFiber
  BY <1>0, <1>2, RootControl, QuietCount DEF PostFiber
<1>3. CASE PostEvent
  <2>1. Moves(Root, "user") /\ At(Root) = "user"
    BY <1>0, <1>3, RootControl
  <2>2. PICK s \in Slots : /\ slot[s] = NoTask
                           /\ slot' = [slot EXCEPT ![s] = CbTask(AnyThread)]
    BY <1>3 DEF PostEvent
  <2>3. CbTask(AnyThread) # NoTask
    BY DEF CbTask, NoTask
  <2>4. s \notin Registered /\ Registered' = Registered \cup {s}
    BY <2>2, <2>3 DEF Registered, TypeOK
  <2>5. /\ Cardinality(Registered') = Cardinality(Registered) + 1
        /\ Cardinality(Registered) \in Nat /\ Cardinality(Deliverers) \in Nat
    BY <2>4, AllFinite, AddOne, FS_CardinalityType
  <2>6. Idlers' = Idlers /\ Deliverers' = Deliverers /\ Holders' = Holders
    BY <1>0, <1>3, <2>1, MoveSame DEF PostEvent, Holders
  <2>7. pending' = Cardinality(Registered') + Cardinality(Deliverers')
    BY <1>0, <1>3, <2>5, <2>6, CountsOf DEF PostEvent
  <2>8. TaskHeld'
    BY <1>0, <1>3, <2>1, HeldFrame DEF PostEvent
  <2> QED BY <1>0, <1>3, <2>6, <2>7, <2>8, CountsOf
      DEF PostEvent, CountersExact, Idlers, Deliverers, Holders, Registered
<1>4. CASE Stop
  BY <1>0, <1>4, RootControl, QuietCount DEF Stop
<1>5. CASE StopTickle
  BY <1>0, <1>5, RootControl, QuietCount DEF StopTickle
<1>6. CASE StopRun
  <2>1. PICK l \in {"take", "exit"} : Moves(Root, l)
    BY <1>0, <1>6, RootControl DEF IInv
  <2> QED BY <1>0, <1>6, <2>1, RootControl, QuietCount DEF StopRun
<1>7. CASE Join
  BY <1>0, <1>7, RootControl, QuietCount DEF Join
<1> QED BY <1>1, <1>2, <1>3, <1>4, <1>5, <1>6, <1>7 DEF PostStep, StopStep

\* Nothing is counted at first.
LEMMA CountInit == Init => CInv
<1> SUFFICES ASSUME Init PROVE CInv
  OBVIOUS
<1>1. Holders = {} /\ Registered = {}
  BY DEF Init, Holders, Registered
<1>2. Idlers = {} /\ Deliverers = {} /\ \A t \in Threads : At(t) \in {"user", "take"}
  BY DEF Init, Idlers, InIdle, Deliverers, At
<1>3. active = 0 /\ idle = 0 /\ pending = 0
  BY DEF Init
<1>4. CountersExact
  BY <1>1, <1>2, <1>3, CountsOf, FS_EmptySet
<1>5. TaskHeld
  BY <1>2 DEF Init, TaskHeld, Busy
<1> QED BY <1>4, <1>5 DEF CInv

\* The groups of actions together.
LEMMA CountStep == IInv /\ CInv /\ [Next]_vars => CInv'
<1> SUFFICES ASSUME IInv, CInv, [Next]_vars PROVE CInv'
  OBVIOUS
<1>1. CASE \E t \in Threads : ThreadStep(t)
  BY <1>1, CountRun, CountFiber, CountIdle DEF ThreadStep
<1>2. CASE PostStep \/ Stop \/ StopStep
  BY <1>2, CountRoot
<1>3. CASE UNCHANGED vars
  BY <1>3 DEF vars, runVars, fiberVars, waitVars, pipeVars, idleVars, stopVars, bounds,
    ioVars, CInv, TaskHeld, CountersExact, InIdle, At
<1> QED BY <1>1, <1>2, <1>3 DEF Next, Stopped

\* The counters are exact in every reachable state, so stopping() and tickle()
\* act on true counts and no unsigned counter wraps below zero.
THEOREM Counters == Spec => []CountersExact
<1>1. CInv => CountersExact
  BY DEF CInv
<1> QED BY <1>1, Inductive, CountInit, CountStep, PTL DEF Spec
-----------------------------------------------------------------------------
(* stop().  A thread leaves run() only after it has seen m_stopping, an     *)
(* empty queue and no active thread in one look.  Later another thread may  *)
(* still queue an expired timer or an event, but only from inside its idle  *)
(* loop: the last thread to look finds that nobody can any more.            *)

AllDone == \A t \in Runners : idleDone[t]

StopInv ==
  /\ At(Root) # "user" => m_stopping
  /\ \A t \in Threads : /\ idleDone[t] => m_stopping /\ ~InIdle(t)
                        /\ At(t) = "exit" /\ t \in Runners => idleDone[t]
  /\ m_stopping => At(Root) # "user"
  /\ At(Root) = "stopped" => AllDone
  /\ Root \notin Runners => At(Root) \in {"user", "stop", "exit", "stopped"}
  /\ AllDone => m_tasks = <<>> /\ \A t \in Threads : task[t] = NoTask

\* Once all threads have seen the end, none of them does anything but leave.
LEMMA DoneIsQuiet ==
  ASSUME IInv, CInv, StopInv, AllDone, NEW t \in Threads, ThreadStep(t)
  PROVE  Tickle(t) \/ TakeNothing(t) \/ EnterIdle(t)
<1> USE DEF IInv, CInv
<1>1. /\ task[t] = NoTask /\ task[t].kind = "none" /\ At(t) \notin Busy
      /\ m_tasks = <<>> /\ DOMAIN m_tasks = {}
  BY TaskKinds, EmptySeq, LenProperties DEF StopInv, TaskHeld
<1>2. At(t) \notin IdleLabels
  <2>1. CASE t \in Runners
    BY <2>1 DEF AllDone, StopInv, InIdle, IdleLabels
  <2>2. CASE t \notin Runners
    <3>1. t = Root
      BY <2>2 DEF Runners, Threads
    <3> QED BY <2>2, <3>1 DEF StopInv, IdleLabels
  <2> QED BY <2>1, <2>2
<1>3. ~FiberStep(t)
  BY <1>1, FiberControl DEF FiberStep, Busy
<1>4. ~IdleStep(t)
  BY <1>2, IdleControl DEF IdleStep, IdleLabels
<1>5. ~(TakeTask(t) \/ LockFiber(t) \/ CreateFiber(t) \/ RunWake(t))
  BY <1>1 DEF TakeTask, LockFiber, CreateFiber, RunWake
<1>6. ~(Resume(t) \/ SwitchBack(t) \/ Release(t))
  BY <1>1, RunControl DEF Busy
<1> QED BY <1>3, <1>4, <1>5, <1>6 DEF ThreadStep, RunStep

\* A step after which the same threads have seen the end.
LEMMA StopFrame ==
  ASSUME IInv, CInv, StopInv, NEW t \in Threads, NEW l, Moves(t, l),
         UNCHANGED <<idleDone, m_stopping>>,
         l \in IdleLabels => ~idleDone[t],
         l = "exit" /\ t \in Runners => idleDone[t],
         t = Root => /\ l = "user" <=> At(t) = "user"
                     /\ l = "stopped" => At(t) = "stopped"
                     /\ Root \notin Runners => l \in {"user", "stop", "exit", "stopped"},
         AllDone => UNCHANGED <<m_tasks, task>>
  PROVE  StopInv'
<1>1. Root \in Threads /\ At(t)' = l /\ \A u \in Threads \ {t} : At(u)' = At(u)
  BY DEF Moves, Threads
<1>2. \A u \in Threads : InIdle(u)' => At(u)' \in IdleLabels
  BY DEF InIdle, IdleLabels
<1>3. \A u \in Threads \ {t} : InIdle(u)' => InIdle(u)
  BY <1>1 DEF InIdle
<1>4. AllDone' <=> AllDone
  BY DEF AllDone
<1>5. \A u \in Threads : /\ idleDone'[u] => m_stopping' /\ ~InIdle(u)'
                         /\ At(u)' = "exit" /\ u \in Runners => idleDone'[u]
  BY <1>1, <1>2, <1>3 DEF StopInv
<1>6. /\ At(Root)' # "user" => m_stopping'
      /\ m_stopping' => At(Root)' # "user"
      /\ At(Root)' = "stopped" => AllDone'
      /\ Root \notin Runners => At(Root)' \in {"user", "stop", "exit", "stopped"}
  BY <1>1, <1>4 DEF StopInv
<1>7. AllDone' => m_tasks' = <<>> /\ \A u \in Threads : task'[u] = NoTask
  BY <1>4 DEF StopInv
<1> QED BY <1>5, <1>6, <1>7 DEF StopInv

\* The same for a thread of the pool that is inside run().
LEMMA StopFrameInside ==
  ASSUME IInv, CInv, StopInv, NEW t \in Threads, ThreadStep(t),
         NEW l \in Labels \ {"user", "stop", "stopped"}, Moves(t, l),
         At(t) \notin {"user", "stop", "exit", "stopped"},
         UNCHANGED <<idleDone, m_stopping>>,
         l \in IdleLabels => ~idleDone[t],
         l = "exit" => idleDone[t]
  PROVE  StopInv'
<1>1. AllDone => UNCHANGED <<m_tasks, task>>
  BY DoneIsQuiet DEF Tickle, TakeNothing, EnterIdle, runVars
<1>2. t = Root => Root \in Runners
  BY DEF StopInv
<1> QED BY <1>1, <1>2, StopFrame

\* run(): a thread leaves only with idleDone, and takes tasks only while there are any.
LEMMA StopRunKeeps ==
  ASSUME IInv, CInv, StopInv, NEW t \in Threads, RunStep(t)
  PROVE  StopInv'
<1> USE DEF runVars, fiberVars, waitVars, pipeVars, idleVars, stopVars, bounds, ioVars
<1>1. ThreadStep(t)
  BY DEF ThreadStep
<1>2. CASE Tickle(t)
  <2>1. PICK l \in Labels : l = At(t) /\ Moves(t, l)
    BY <1>2 DEF IInv, TypeOK, ReturnKnown, Tickle, Moves, At, Labels
  <2>2. l \in IdleLabels => ~idleDone[t]
    BY <2>1 DEF StopInv, InIdle, IdleLabels
  <2>3. UNCHANGED <<m_tasks, task, idleDone, m_stopping>>
    BY <1>2 DEF Tickle
  <2> QED BY <2>1, <2>2, <2>3, StopFrame DEF StopInv
<1>3. CASE EnterIdle(t)
  <2>1. At(t) = "dispatch" /\ UNCHANGED <<idleDone, m_stopping>>
    BY <1>3, RunControl DEF IInv, EnterIdle
  <2>2. CASE idleDone[t]
    <3>1. Moves(t, "exit")
      BY <1>3, <2>2, GotoMoves DEF IInv, EnterIdle, Labels
    <3> QED BY <1>1, <2>1, <2>2, <3>1, StopFrameInside DEF Labels, IdleLabels
  <2>3. CASE ~idleDone[t]
    <3>1. Moves(t, "timers?")
      BY <1>3, <2>3, GotoMoves DEF IInv, EnterIdle, Labels
    <3> QED BY <1>1, <2>1, <2>3, <3>1, StopFrameInside DEF Labels
  <2> QED BY <2>2, <2>3
<1>4. CASE ~(Tickle(t) \/ EnterIdle(t))
  <2>1. UNCHANGED <<idleDone, m_stopping>>
    BY <1>4 DEF RunStep, TakeTask, TakeNothing, LockFiber, CreateFiber, RunWake, Resume,
      SwitchBack, Release
  <2>2. /\ At(t) \in {"take", "dispatch"} \cup Busy
        /\ \E l \in {"take", "dispatch"} \cup Busy : Moves(t, l)
    BY <1>4, RunControl DEF IInv, RunStep, Busy
  <2> QED BY <1>1, <2>1, <2>2, StopFrameInside DEF Busy, Labels, IdleLabels
<1> QED BY <1>2, <1>3, <1>4

\* Fibers run only on threads that have not seen the end.
LEMMA StopFiberKeeps ==
  ASSUME IInv, CInv, StopInv, NEW t \in Threads, FiberStep(t)
  PROVE  StopInv'
<1> USE DEF runVars, fiberVars, waitVars, pipeVars, idleVars, stopVars, bounds, ioVars
<1>1. ThreadStep(t)
  BY DEF ThreadStep
<1>2. UNCHANGED <<idleDone, m_stopping>>
  BY DEF FiberStep, FiberPost, FiberReschedule, FiberSleep, FiberAddEvent, FiberYield, FiberEnd
<1>3. At(t) \in Busy /\ \E l \in Busy : Moves(t, l)
  BY FiberControl DEF IInv, FiberStep, Busy
<1> QED BY <1>1, <1>2, <1>3, StopFrameInside DEF Busy, Labels, IdleLabels

\* The one look that ends an idle fiber is at the counter of all threads.
LEMMA StopIdleKeeps ==
  ASSUME IInv, CInv, StopInv, NEW t \in Threads, IdleStep(t)
  PROVE  StopInv'
<1> USE DEF runVars, fiberVars, waitVars, pipeVars, idleVars, stopVars, bounds, ioVars
<1>1. ThreadStep(t)
  BY DEF ThreadStep
<1>2. At(t) \in IdleLabels /\ ~idleDone[t]
  <2>1. At(t) \in IdleLabels
    BY IdleControl DEF IInv, IdleStep, IdleLabels
  <2> QED BY <2>1 DEF StopInv, InIdle, IdleLabels
<1>3. CASE CheckStopping(t) /\ SchedulerStopping
  <2>1. /\ Moves(t, "take") /\ idleDone' = [idleDone EXCEPT ![t] = TRUE]
        /\ UNCHANGED <<m_tasks, task, m_stopping>>
        /\ m_stopping /\ m_tasks = <<>> /\ active = 0
    BY <1>3, GotoMoves DEF IInv, CheckStopping, SchedulerStopping, Labels
  <2>2. Holders = {}
    BY <2>1, AllFinite, CountsOf, FS_EmptySet DEF CInv
  <2>3. /\ At(t)' = "take" /\ idleDone'[t]
        /\ \A u \in Threads \ {t} : At(u)' = At(u) /\ idleDone'[u] = idleDone[u]
    BY <2>1 DEF Moves, IInv, TypeOK
  <2>4. \A u \in Threads : /\ idleDone'[u] => m_stopping' /\ ~InIdle(u)'
                           /\ At(u)' = "exit" /\ u \in Runners => idleDone'[u]
    <3>1. m_stopping' /\ ~InIdle(t)' /\ At(t)' # "exit"
      BY <2>1, <2>3 DEF InIdle
    <3>2. ASSUME NEW u \in Threads \ {t}
          PROVE  /\ idleDone'[u] => ~InIdle(u)'
                 /\ At(u)' = "exit" /\ u \in Runners => idleDone'[u]
      BY <2>3 DEF StopInv, InIdle
    <3> QED BY <3>1, <3>2
  <2>5. Root \in Threads /\ (t = Root => Root \in Runners)
    BY <1>2 DEF Threads, StopInv, IdleLabels
  <2>6. /\ At(Root)' # "user"
        /\ At(Root)' = "stopped" => At(Root) = "stopped" /\ t # Root
        /\ Root \notin Runners => At(Root)' = At(Root)
    <3>1. CASE t = Root
      BY <2>3, <2>5, <3>1
    <3>2. CASE t # Root
      BY <2>1, <2>3, <2>5, <3>2 DEF StopInv
    <3> QED BY <3>1, <3>2
  <2>7. AllDone => AllDone'
    BY <2>3 DEF AllDone, Runners, Threads
  <2>8. m_tasks' = <<>> /\ \A u \in Threads : task'[u] = NoTask
    BY <2>1, <2>2 DEF Holders
  <2>9. /\ At(Root)' = "stopped" => AllDone'
        /\ Root \notin Runners => At(Root)' \in {"user", "stop", "exit", "stopped"}
    BY <2>6, <2>7 DEF StopInv
  <2> QED BY <2>1, <2>4, <2>6, <2>8, <2>9 DEF StopInv
<1>4. CASE ~(CheckStopping(t) /\ SchedulerStopping)
  <2>1. UNCHANGED <<idleDone, m_stopping>>
    BY <1>4 DEF IdleStep, CheckTimers, CheckPending, Ask, CheckStopping, EpollWait,
      ListExpired, ScheduleExpired, DrainPipe, TriggerEvent, DropPending, LeaveIdle
  <2>2. \E l \in IdleLabels \cup {"take"} : Moves(t, l)
    BY IdleControl DEF IInv, IdleStep, IdleLabels
  <2> QED BY <1>1, <1>2, <2>1, <2>2, StopFrameInside DEF IdleLabels, Labels
<1> QED BY <1>3, <1>4

\* The owner sets m_stopping on its way out of the program, and joins threads that left.
LEMMA StopRootKeeps ==
  ASSUME Runners # {}, IInv, CInv, StopInv, PostStep \/ Stop \/ StopStep
  PROVE  StopInv'
<1> USE DEF runVars, fiberVars, waitVars, pipeVars, idleVars, stopVars, bounds, ioVars
<1>0. Root \in Threads /\ Runners \subseteq Threads
  BY DEF Threads, Runners
<1>1. CASE PostStep
  <2>1. Moves(Root, "user") /\ At(Root) = "user" /\ UNCHANGED <<idleDone, m_stopping, task>>
    BY <1>1, RootControl DEF IInv, PostStep, PostCb, PostFiber, PostEvent
  <2>2. ~AllDone
    BY <1>0, <2>1 DEF StopInv, AllDone
  <2> QED BY <1>0, <2>1, <2>2, StopFrame DEF IdleLabels
<1>2. CASE Stop
  <2>1. /\ Moves(Root, "stop") /\ At(Root) = "user" /\ m_stopping'
        /\ UNCHANGED <<idleDone, m_tasks, task>>
    BY <1>2, RootControl DEF IInv, Stop
  <2>2. \A t \in Threads : ~idleDone[t] /\ ~idleDone'[t]
    BY <2>1 DEF StopInv
  <2>3. At(Root)' = "stop" /\ \A t \in Threads \ {Root} : At(t)' = At(t)
    BY <2>1 DEF Moves
  <2>4. \A t \in Threads : At(t)' = "exit" /\ t \in Runners => idleDone'[t]
    BY <2>1, <2>3 DEF StopInv
  <2>5. ~AllDone'
    BY <1>0, <2>2 DEF AllDone
  <2> QED BY <2>1, <2>2, <2>3, <2>4, <2>5 DEF StopInv
<1>3. CASE StopTickle
  <2>1. /\ Moves(Root, "stop") /\ At(Root) = "stop"
        /\ UNCHANGED <<idleDone, m_stopping, m_tasks, task>>
    BY <1>3, RootControl DEF IInv, StopTickle
  <2> QED BY <1>0, <2>1, StopFrame DEF IdleLabels
<1>4. CASE StopRun
  <2>1. At(Root) = "stop" /\ UNCHANGED <<idleDone, m_stopping, m_tasks, task>>
    BY <1>4, RootControl DEF IInv, StopRun
  <2>2. CASE UseCaller
    <3>1. Moves(Root, "take") /\ Root \in Runners
      BY <1>0, <1>4, <2>2, GotoMoves DEF IInv, StopRun, Labels, Runners
    <3> QED BY <1>0, <2>1, <3>1, StopFrame DEF IdleLabels
  <2>3. CASE ~UseCaller
    <3>1. Moves(Root, "exit") /\ Root \notin Runners
      BY <1>0, <1>4, <2>3, GotoMoves, SchedulerAssumption DEF IInv, StopRun, Labels, Runners
    <3> QED BY <1>0, <2>1, <3>1, StopFrame DEF IdleLabels
  <2> QED BY <2>2, <2>3
<1>5. CASE Join
  <2>1. /\ Moves(Root, "stopped") /\ At(Root) = "exit"
        /\ UNCHANGED <<idleDone, m_stopping, m_tasks, task>>
    BY <1>5, RootControl DEF IInv, Join
  <2>2. \A t \in Threads : At(t) = "exit"
    BY <1>5 DEF Join, At
  <2>3. AllDone /\ AllDone'
    BY <1>0, <2>1, <2>2 DEF StopInv, AllDone
  <2>4. At(Root)' = "stopped" /\ \A t \in Threads \ {Root} : At(t)' = "exit"
    BY <2>1, <2>2 DEF Moves
  <2>5. \A t \in Threads : ~InIdle(t)'
    BY <2>4 DEF InIdle
  <2> QED BY <1>0, <2>1, <2>3, <2>4, <2>5 DEF StopInv, AllDone
<1> QED BY <1>1, <1>2, <1>3, <1>4, <1>5 DEF PostStep, StopStep

\* At first somebody has not seen the end: the pool has a thread.
LEMMA StopInit == ASSUME Runners # {} PROVE Init => StopInv
<1> SUFFICES ASSUME Init PROVE StopInv
  OBVIOUS
<1>1. /\ Root \in Threads /\ Runners \subseteq Threads
      /\ \A t \in Threads : At(t) = IF t = Root THEN "user" ELSE "take"
  BY DEF Init, At, Threads, Runners
<1>2. ~m_stopping /\ \A t \in Threads : ~idleDone[t]
  BY DEF Init
<1> QED BY <1>1, <1>2 DEF StopInv, AllDone

\* The groups of actions together.
LEMMA StopStepKeeps ==
  ASSUME Runners # {} PROVE IInv /\ CInv /\ StopInv /\ [Next]_vars => StopInv'
<1> SUFFICES ASSUME IInv, CInv, StopInv, [Next]_vars PROVE StopInv'
  OBVIOUS
<1>1. CASE \E t \in Threads : ThreadStep(t)
  BY <1>1, StopRunKeeps, StopFiberKeeps, StopIdleKeeps DEF ThreadStep
<1>2. CASE PostStep \/ Stop \/ StopStep
  BY <1>2, StopRootKeeps
<1>3. CASE UNCHANGED vars
  BY <1>3 DEF vars, runVars, fiberVars, waitVars, pipeVars, idleVars, stopVars, bounds,
    ioVars, StopInv, InIdle, At, AllDone
<1> QED BY <1>1, <1>2, <1>3 DEF Next, Stopped

\* How the pool comes to its end, for a pool of at least one thread, which the
\* assertion of Scheduler's constructor makes of every scheduler.
THEOREM StopInductive ==
  ASSUME Runners # {}
  PROVE  Spec => [](IInv /\ CInv /\ StopInv)
BY Inductive, CountInit, CountStep, StopInit, StopStepKeeps, PTL DEF Spec

\* ~Scheduler's assertion: when stop() has joined the pool, m_stopping is set, no
\* task is queued, not even one pinned to a thread, and none is running.
THEOREM StoppedIsEmpty ==
  ASSUME Runners # {}
  PROVE  Spec => []DestructorAssertion
<1>1. IInv /\ CInv /\ StopInv => DestructorAssertion
  <2> SUFFICES ASSUME IInv, CInv, StopInv, pc[Root] = "stopped"
               PROVE  m_stopping /\ m_tasks = <<>> /\ active = 0
    BY DEF DestructorAssertion
  <2>1. At(Root) = "stopped"
    BY DEF At
  <2>2. m_stopping /\ m_tasks = <<>> /\ Holders = {}
    BY <2>1 DEF StopInv, Holders
  <2> QED BY <2>2, CountsOf, FS_EmptySet DEF CInv
<1> QED BY <1>1, StopInductive, PTL

=============================================================================

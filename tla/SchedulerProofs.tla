-------------------------- MODULE SchedulerProofs --------------------------
(***************************************************************************)
(* Theorems about Scheduler, for any number of threads, fibers, events and *)
(* tasks.  The inductive invariant IInv says who holds Fiber::m_mtx, which *)
(* state a fiber is in at each point of run(), and that every reference to *)
(* a fiber is to one that has been constructed.                            *)
(***************************************************************************)
EXTENDS Scheduler, SequenceTheorems, FiniteSetTheorems, TLAPS

\* A call of tickle() knows where to return to.
ReturnKnown == \A t \in Threads : pc[t] = "tickle" => ret[t] # "none"

Holding == {"resume", "run", "yield", "switch"}

\* Between the lock and the unlock of a fiber's mutex the thread owns it, and
\* the fiber's state is the one that point of run() or of the fiber implies.
Locks ==
  \A t \in Threads : At(t) \in Holding =>
    /\ fiber[t] \in Fibers /\ owner[fiber[t]] = t
    /\ At(t) = "resume" => fstate[fiber[t]] = "READY"
    /\ At(t) \in {"run", "yield"} => fstate[fiber[t]] = "RUNNING"
    /\ At(t) = "switch" => fstate[fiber[t]] # "RUNNING"

RunningIsLocked == \A f \in Fibers : fstate[f] = "RUNNING" => owner[f] # Free

Created(f) == f \in Fibers => fstate[f] # "NONE"

\* Whatever names a fiber names one that exists.
Known ==
  /\ \A i \in DOMAIN m_tasks : Created(m_tasks[i].fiber)
  /\ \A s \in Slots : Created(slot[s].fiber)
  /\ \A f \in timers : Created(f)
  /\ \A t \in Threads : /\ Created(task[t].fiber) /\ Created(fiber[t])
                        /\ \A f \in cbs[t] : Created(f)

IInv == TypeOK /\ ReturnKnown /\ Locks /\ RunningIsLocked /\ Known

-----------------------------------------------------------------------------
(* Tasks, and sequences of tasks. *)

\* The three kinds of task scheduleLock queues are tasks.
LEMMA TaskMembers ==
  /\ \A f \in Fibers : FiberTask(f) \in Tasks /\ WakeTask(f) \in Tasks
  /\ \A th \in Threads \cup {AnyThread} : CbTask(th) \in Tasks
BY DEF Tasks

\* What a task names follows from its kind.
LEMMA TaskKinds ==
  /\ NoTask \notin Tasks /\ NoTask.kind = "none" /\ NoTask.fiber \notin Fibers
  /\ \A f : FiberTask(f).fiber = f /\ WakeTask(f).fiber = f
  /\ \A th : CbTask(th).fiber \notin Fibers
  /\ \A tk \in Tasks : /\ tk.kind \in {"fiber", "wake", "cb"}
                       /\ tk.kind \in {"fiber", "wake"} => tk.fiber \in Fibers
<1> USE SchedulerAssumption DEF FiberTask, WakeTask, CbTask, NoTask
<1>1. ASSUME NEW tk \in Tasks
      PROVE  /\ tk.kind \in {"fiber", "wake", "cb"}
             /\ tk.kind \in {"fiber", "wake"} => tk.fiber \in Fibers
  <2>1. CASE \E f \in Fibers : tk = FiberTask(f)
    BY <2>1
  <2>2. CASE \E f \in Fibers : tk = WakeTask(f)
    BY <2>2
  <2>3. CASE \E th \in Threads \cup {AnyThread} : tk = CbTask(th)
    BY <2>3
  <2> QED BY <2>1, <2>2, <2>3 DEF Tasks
<1>2. NoTask.kind = "none" /\ NoTask.fiber = NoFiber
  OBVIOUS
<1> QED BY <1>1, <1>2

\* RemoveAt moves what is behind the i-th element forward by one.
LEMMA RemoveAtShifts ==
  ASSUME NEW T, NEW s \in Seq(T), NEW i \in DOMAIN s
  PROVE  /\ RemoveAt(s, i) \in Seq(T)
         /\ DOMAIN RemoveAt(s, i) = 1..(Len(s) - 1)
         /\ \A j \in 1..(Len(s) - 1) :
              RemoveAt(s, i)[j] = IF j < i THEN s[j] ELSE s[j+1]
<1>1. s \in [1..Len(s) -> T] /\ Len(s) \in Nat /\ i \in 1..Len(s)
  BY LenProperties
<1> DEFINE left == SubSeq(s, 1, i-1)
           right == SubSeq(s, i+1, Len(s))
<1>2. /\ left \in Seq(T) /\ Len(left) = i-1
      /\ \A j \in 1..(i-1) : left[j] = s[j]
  <2>1. \A j \in 1..(i-1) : s[j] \in T
    BY <1>1
  <2> QED BY <1>1, <2>1, SubSeqProperties, Z3
<1>3. /\ right \in Seq(T) /\ Len(right) = Len(s) - i
      /\ \A j \in 1..(Len(s) - i) : right[j] = s[i+j]
  <2>1. \A j \in (i+1)..Len(s) : s[j] \in T
    BY <1>1
  <2> QED BY <1>1, <2>1, SubSeqProperties, Z3
<1> HIDE DEF left, right
<1>4. /\ left \o right \in Seq(T) /\ Len(left \o right) = Len(s) - 1
      /\ \A j \in 1..(Len(s) - 1) :
           (left \o right)[j] = IF j < i THEN left[j] ELSE right[j - (i-1)]
  <2>1. /\ left \o right \in Seq(T) /\ Len(left \o right) = Len(left) + Len(right)
        /\ \A j \in 1..(Len(left) + Len(right)) :
             (left \o right)[j] = IF j <= Len(left) THEN left[j] ELSE right[j - Len(left)]
    BY <1>2, <1>3, ConcatProperties
  <2> QED BY <1>1, <1>2, <1>3, <2>1
<1>5. ASSUME NEW j \in 1..(Len(s) - 1)
      PROVE  (left \o right)[j] = IF j < i THEN s[j] ELSE s[j+1]
  <2>1. CASE j < i
    BY <2>1, <1>1, <1>2, <1>4
  <2>2. CASE ~(j < i)
    <3>1. j - (i-1) \in 1..(Len(s) - i) /\ i + (j - (i-1)) = j + 1
      BY <2>2, <1>1
    <3> QED BY <2>2, <3>1, <1>1, <1>3, <1>4
  <2> QED BY <2>1, <2>2
<1>6. RemoveAt(s, i) = left \o right
  BY DEF RemoveAt, left, right
<1>7. DOMAIN (left \o right) = 1..(Len(s) - 1)
  BY <1>4, LenProperties
<1> QED BY <1>4, <1>5, <1>6, <1>7

\* What it leaves is a part of the queue.
LEMMA RemoveAtPart ==
  ASSUME NEW T, NEW s \in Seq(T), NEW i \in DOMAIN s
  PROVE  /\ RemoveAt(s, i) \in Seq(T)
         /\ \A j \in DOMAIN RemoveAt(s, i) : \E k \in DOMAIN s : RemoveAt(s, i)[j] = s[k]
<1>1. DOMAIN s = 1..Len(s) /\ Len(s) \in Nat
  BY LenProperties
<1>2. ASSUME NEW j \in 1..(Len(s) - 1)
      PROVE  \E k \in DOMAIN s : RemoveAt(s, i)[j] = s[k]
  <2>1. j \in DOMAIN s /\ j + 1 \in DOMAIN s
    BY <1>1
  <2> QED BY <2>1, RemoveAtShifts
<1> QED BY <1>2, RemoveAtShifts

-----------------------------------------------------------------------------
(* Control: thread t goes to l, perhaps through tickle(); the others stay. *)

Moves(t, l) ==
  /\ pc' \in [Threads -> Labels]
  /\ ret' \in [Threads -> {"none"} \cup (Labels \ {"tickle"})]
  /\ ReturnKnown'
  /\ At(t)' = l
  /\ \A u \in Threads \ {t} : At(u)' = At(u)

\* A plain continuation,
LEMMA GotoMoves ==
  ASSUME TypeOK, ReturnKnown, NEW t \in Threads, NEW l \in Labels \ {"tickle"}, Goto(t, l)
  PROVE  Moves(t, l)
BY DEF TypeOK, ReturnKnown, Goto, Moves, At, Labels

\* and one through a call of tickle().
LEMMA TickleIfMoves ==
  ASSUME TypeOK, ReturnKnown, NEW t \in Threads, NEW l \in Labels \ {"tickle"},
         NEW need, TickleIf(need, t, l)
  PROVE  Moves(t, l)
<1>1. CASE need
  BY <1>1 DEF TypeOK, ReturnKnown, TickleIf, Moves, At, Labels
<1>2. CASE ~need
  BY <1>2, GotoMoves DEF TickleIf
<1> QED BY <1>1, <1>2
\* A step that moves no thread.
LEMMA StayMoves ==
  ASSUME TypeOK, ReturnKnown, NEW t \in Threads, NEW l \in Labels \ {"tickle"},
         pc[t] = l, UNCHANGED <<pc, ret>>
  PROVE  Moves(t, l)
BY DEF TypeOK, ReturnKnown, Moves, At

\* From where to where each action takes its thread.
LEMMA RunControl ==
  ASSUME TypeOK, ReturnKnown, NEW t \in Threads
  PROVE  /\ TakeTask(t) => At(t) = "take" /\ Moves(t, "dispatch")
         /\ TakeNothing(t) => At(t) = "take" /\ Moves(t, "dispatch")
         /\ LockFiber(t) => At(t) = "dispatch" /\ \E l \in {"resume", "release"} : Moves(t, l)
         /\ CreateFiber(t) => At(t) = "dispatch" /\ Moves(t, "resume")
         /\ RunWake(t) => At(t) = "dispatch" /\ Moves(t, "release")
         /\ Resume(t) => At(t) = "resume" /\ Moves(t, "run")
         /\ SwitchBack(t) => At(t) = "switch" /\ Moves(t, "release")
         /\ Release(t) => At(t) = "release" /\ Moves(t, "take")
         /\ EnterIdle(t) => At(t) = "dispatch" /\ \E l \in {"exit", "timers?"} : Moves(t, l)
<1>1. /\ TakeTask(t) => At(t) = "take" /\ Moves(t, "dispatch")
      /\ TakeNothing(t) => At(t) = "take" /\ Moves(t, "dispatch")
      /\ RunWake(t) => At(t) = "dispatch" /\ Moves(t, "release")
  BY TickleIfMoves DEF TakeTask, TakeNothing, RunWake, ScheduleLock, At, Labels
<1>2. /\ LockFiber(t) => At(t) = "dispatch" /\ \E l \in {"resume", "release"} : Moves(t, l)
      /\ CreateFiber(t) => At(t) = "dispatch" /\ Moves(t, "resume")
      /\ EnterIdle(t) => At(t) = "dispatch" /\ \E l \in {"exit", "timers?"} : Moves(t, l)
  BY GotoMoves DEF LockFiber, CreateFiber, EnterIdle, At, Labels
<1>3. /\ Resume(t) => At(t) = "resume" /\ Moves(t, "run")
      /\ SwitchBack(t) => At(t) = "switch" /\ Moves(t, "release")
      /\ Release(t) => At(t) = "release" /\ Moves(t, "take")
  BY GotoMoves DEF Resume, SwitchBack, Release, At, Labels
<1> QED BY <1>1, <1>2, <1>3

\* The same for a fiber's actions,
LEMMA FiberControl ==
  ASSUME TypeOK, ReturnKnown, NEW t \in Threads
  PROVE  /\ FiberPost(t) => At(t) = "run" /\ Moves(t, "run")
         /\ \A l \in {"yield", "run"} :
              FiberReschedule(t, l) => At(t) = "run" /\ Moves(t, l)
         /\ FiberSleep(t) => At(t) = "run" /\ Moves(t, "yield")
         /\ FiberAddEvent(t) => At(t) = "run" /\ Moves(t, "yield")
         /\ FiberYield(t) => At(t) = "yield" /\ Moves(t, "switch")
         /\ FiberEnd(t) => At(t) = "run" /\ Moves(t, "switch")
BY GotoMoves, TickleIfMoves, StayMoves DEF FiberPost, FiberReschedule,
  FiberSleep, FiberAddEvent, FiberYield, FiberEnd, At, Labels,
  ScheduleLock

\* for those of the idle loop,
LEMMA IdleControl ==
  ASSUME TypeOK, ReturnKnown, NEW t \in Threads
  PROVE  /\ CheckTimers(t) => At(t) = "timers?" /\ \E l \in {"pending?", "epoll"} : Moves(t, l)
         /\ CheckPending(t) => At(t) = "pending?"
                             /\ \E l \in {"stopping?", "epoll"} : Moves(t, l)
         /\ CheckStopping(t) => At(t) = "stopping?" /\ \E l \in {"take", "epoll"} : Moves(t, l)
         /\ EpollWait(t) => At(t) = "epoll" /\ Moves(t, "expire")
         /\ ListExpired(t) => At(t) = "expire" /\ Moves(t, "events")
         /\ ScheduleExpired(t) => At(t) = "events" /\ Moves(t, "events")
         /\ DrainPipe(t) => At(t) = "events" /\ Moves(t, "events")
         /\ TriggerEvent(t) => At(t) = "events"
                             /\ \E l \in {"events", "triggered"} : Moves(t, l)
         /\ DropPending(t) => At(t) = "triggered" /\ Moves(t, "events")
         /\ LeaveIdle(t) => At(t) = "events" /\ Moves(t, "take")
BY GotoMoves, TickleIfMoves, StayMoves DEF CheckTimers, CheckPending, CheckStopping,
  EpollWait, ListExpired, ScheduleExpired, DrainPipe, TriggerEvent, DropPending,
  LeaveIdle, At, Labels, ScheduleLock, Ask, Deliver

\* and for the owner's.
LEMMA RootControl ==
  ASSUME TypeOK, ReturnKnown
  PROVE  /\ PostCb => At(Root) = "user" /\ Moves(Root, "user")
         /\ PostFiber => At(Root) = "user" /\ Moves(Root, "user")
         /\ PostEvent => At(Root) = "user" /\ Moves(Root, "user")
         /\ Stop => At(Root) = "user" /\ Moves(Root, "stop")
         /\ StopTickle => At(Root) = "stop" /\ Moves(Root, "stop")
         /\ StopRun => At(Root) = "stop" /\ \E l \in {"take", "exit"} : Moves(Root, l)
         /\ Join => At(Root) = "exit" /\ Moves(Root, "stopped")
BY GotoMoves, TickleIfMoves, StayMoves DEF PostCb, PostFiber, PostEvent, Stop,
  StopTickle, StopRun, Join, At, Labels, ScheduleLock, Threads

-----------------------------------------------------------------------------
(* Frames: what a step leaves as it was. *)

\* scheduleLock moves its thread on and adds nothing to the queue but its task.
LEMMA ScheduleFacts ==
  ASSUME TypeOK, ReturnKnown, NEW t \in Threads, NEW l \in Labels \ {"tickle"},
         NEW tk \in Tasks, ScheduleLock(t, tk, l)
  PROVE  /\ Moves(t, l)
         /\ m_tasks' \in Seq(Tasks)
         /\ \A i \in DOMAIN m_tasks' :
              m_tasks'[i] = tk \/ \E k \in DOMAIN m_tasks : m_tasks'[i] = m_tasks[k]
<1>1. m_tasks \in Seq(Tasks) /\ m_tasks' = Append(m_tasks, tk)
  BY DEF TypeOK, ScheduleLock
<1>2. Moves(t, l)
  BY TickleIfMoves DEF ScheduleLock
<1>3. /\ m_tasks' \in Seq(Tasks) /\ Len(m_tasks) \in Nat
      /\ DOMAIN m_tasks = 1..Len(m_tasks) /\ DOMAIN m_tasks' = 1..(Len(m_tasks) + 1)
      /\ \A i \in 1..Len(m_tasks) : m_tasks'[i] = m_tasks[i]
      /\ m_tasks'[Len(m_tasks) + 1] = tk
  BY <1>1, AppendProperties, LenProperties
<1> QED BY <1>2, <1>3

\* The locks: no fiber changes hands or state.
LEMMA LocksFrame ==
  ASSUME Locks, RunningIsLocked, NEW t \in Threads, NEW l, Moves(t, l),
         l \notin Holding \/ l = At(t) \/ (At(t) = "run" /\ l = "yield"),
         UNCHANGED <<fiber, fiberVars>>
  PROVE  Locks' /\ RunningIsLocked'
<1>1. RunningIsLocked'
  BY DEF RunningIsLocked, fiberVars
<1>2. ASSUME NEW u \in Threads, At(u)' \in Holding
      PROVE  /\ fiber[u] \in Fibers /\ owner[fiber[u]] = u
             /\ At(u)' = "resume" => fstate[fiber[u]] = "READY"
             /\ At(u)' \in {"run", "yield"} => fstate[fiber[u]] = "RUNNING"
             /\ At(u)' = "switch" => fstate[fiber[u]] # "RUNNING"
  <2>1. CASE u = t
    BY <1>2, <2>1 DEF Locks, Moves, Holding
  <2>2. CASE u # t
    BY <1>2, <2>2 DEF Locks, Moves, Holding
  <2> QED BY <2>1, <2>2
<1> QED BY <1>1, <1>2 DEF Locks, fiberVars

\* The references: the same tasks, or one more that names a fiber that exists.
LEMMA KnownFrame ==
  ASSUME Known,
         \A f \in Fibers : fstate[f] # "NONE" => fstate'[f] # "NONE",
         \A i \in DOMAIN m_tasks' :
           \/ m_tasks'[i].fiber \in Fibers => fstate[m_tasks'[i].fiber] # "NONE"
           \/ \E k \in DOMAIN m_tasks : m_tasks'[i] = m_tasks[k],
         UNCHANGED <<slot, timers, task, fiber, cbs>>
  PROVE  Known'
<1>1. \A f : Created(f) => Created(f)'
  BY DEF Created
<1>2. \A i \in DOMAIN m_tasks' : Created(m_tasks'[i].fiber)
  BY DEF Known, Created
<1> QED BY <1>1, <1>2 DEF Known

\* Steps that move a thread between points where it holds no fiber, and touch
\* neither fibers nor anything that names one.
LEMMA QuietStep ==
  ASSUME Locks, RunningIsLocked, Known, NEW t \in Threads, NEW l, Moves(t, l),
         l \notin Holding,
         UNCHANGED <<m_tasks, slot, timers, task, fiber, cbs, fiberVars>>
  PROVE  Locks' /\ RunningIsLocked' /\ Known'
BY LocksFrame, KnownFrame DEF fiberVars
\* In the locks' part, whatever fiber another thread holds is not this one's.
LEMMA HoldersDiffer ==
  ASSUME Locks, NEW t \in Threads, At(t) \in Holding, NEW u \in Threads \ {t},
         At(u) \in Holding
  PROVE  fiber[u] \in Fibers /\ fiber[u] # fiber[t] /\ owner[fiber[u]] = u
BY DEF Locks

-----------------------------------------------------------------------------
(* The invariant is inductive: one step per action. *)

\* IInv holds before any thread has run.
LEMMA InitInv == Init => IInv
<1> SUFFICES ASSUME Init PROVE IInv
  OBVIOUS
<1>1. m_tasks \in Seq(Tasks) /\ DOMAIN m_tasks = {}
  BY EmptySeq, LenProperties DEF Init
<1>2. TypeOK
  <2>1. /\ pc \in [Threads -> Labels]
        /\ ret \in [Threads -> {"none"} \cup (Labels \ {"tickle"})]
    BY DEF Init, Labels
  <2>2. /\ slot \in [Slots -> Tasks \cup {NoTask}] /\ task \in [Threads -> Tasks \cup {NoTask}]
        /\ fiber \in [Threads -> Fibers \cup {NoFiber}]
        /\ idleDone \in [Threads -> BOOLEAN]
        /\ cbs \in [Threads -> SUBSET Fibers]
        /\ ready \in [Threads -> SUBSET (Slots \cup {Wakeup})]
    BY DEF Init
  <2>3. /\ fstate \in [Fibers -> {"NONE", "READY", "RUNNING", "TERM"}]
        /\ owner \in [Fibers -> Threads \cup {Free}]
    BY DEF Init
  <2>4. m_stopping \in BOOLEAN /\ pipe \in BOOLEAN /\ edge \in BOOLEAN
    BY Zenon DEF Init
  <2>5. /\ active \in Int /\ idle \in Int /\ pending \in Int
        /\ timers \in SUBSET Fibers
        /\ tickles \in Nat /\ posts \in Nat /\ waits \in Nat /\ extra \in Nat
    BY DEF Init
  <2> QED BY <1>1, <2>1, <2>2, <2>3, <2>4, <2>5 DEF TypeOK
<1>3. ReturnKnown /\ \A t \in Threads : At(t) \in {"user", "take"}
  BY DEF Init, ReturnKnown, At
<1>4. Locks /\ RunningIsLocked
  BY <1>3 DEF Init, Locks, RunningIsLocked, Holding
<1>5. Known
  BY <1>1, SchedulerAssumption, TaskKinds DEF Init, Known, Created
<1> QED BY <1>2, <1>3, <1>4, <1>5 DEF IInv

\* Scheduler::run.
LEMMA RunInv ==
  ASSUME IInv, NEW t \in Threads, RunStep(t)
  PROVE  IInv'
<1> USE DEF runVars, fiberVars, waitVars, pipeVars, idleVars, stopVars, bounds, ioVars
<1>1. CASE Tickle(t)
  <2>1. PICK l \in Labels \ {"tickle"} : l = At(t) /\ Moves(t, l)
    BY <1>1 DEF IInv, TypeOK, ReturnKnown, Tickle, Moves, At, Labels
  <2>2. TypeOK'
    BY <1>1, <2>1 DEF IInv, TypeOK, Moves, Tickle, WritePipe
  <2>3. Locks' /\ RunningIsLocked'
    BY <1>1, <2>1, LocksFrame DEF IInv, Tickle
  <2>4. Known'
    BY <1>1, KnownFrame DEF IInv, Tickle
  <2> QED BY <2>1, <2>2, <2>3, <2>4 DEF IInv, Moves
<1>2. CASE TakeTask(t)
  <2>1. Moves(t, "dispatch")
    BY <1>2, RunControl DEF IInv
  <2>2. PICK i \in DOMAIN m_tasks : /\ task' = [task EXCEPT ![t] = m_tasks[i]]
                                    /\ m_tasks' = RemoveAt(m_tasks, i)
    BY <1>2 DEF TakeTask
  <2>3. /\ m_tasks[i] \in Tasks /\ m_tasks' \in Seq(Tasks)
        /\ \A j \in DOMAIN m_tasks' : \E k \in DOMAIN m_tasks : m_tasks'[j] = m_tasks[k]
    BY <2>2, RemoveAtPart, LenProperties DEF IInv, TypeOK
  <2>4. TypeOK'
    <3>1. task' \in [Threads -> Tasks \cup {NoTask}] /\ active' \in Int
      BY <1>2, <2>2, <2>3 DEF IInv, TypeOK, TakeTask
    <3>2. UNCHANGED <<fiber, fiberVars, ioVars, idleVars, bounds>>
      BY <1>2 DEF TakeTask
    <3> QED BY <2>1, <2>3, <3>1, <3>2 DEF IInv, TypeOK, Moves
  <2>5. Locks' /\ RunningIsLocked'
    BY <1>2, <2>1, LocksFrame DEF IInv, TakeTask, Holding
  <2>6. Known'
    BY <1>2, <2>2, <2>3 DEF IInv, Known, Created, TakeTask, TypeOK
  <2> QED BY <2>1, <2>4, <2>5, <2>6 DEF IInv, Moves
<1>3. CASE TakeNothing(t)
  <2>1. Moves(t, "dispatch")
    BY <1>3, RunControl DEF IInv
  <2>2. TypeOK'
    BY <1>3, <2>1 DEF IInv, TypeOK, Moves, TakeNothing
  <2>3. Locks' /\ RunningIsLocked' /\ Known'
    BY <1>3, <2>1, QuietStep DEF IInv, Holding, TakeNothing
  <2> QED BY <2>1, <2>2, <2>3 DEF IInv, Moves
<1>4. CASE LockFiber(t)
  <2> DEFINE f == task[t].fiber
  <2>1. f \in Fibers
    BY <1>4, TaskKinds DEF LockFiber, IInv, TypeOK
  <2>2. CASE Alive(f)
    <3>1. Moves(t, "resume")
      BY <1>4, <2>2, GotoMoves DEF IInv, LockFiber, Labels
    <3>2. fstate[f] = "READY"
      BY <1>4, <2>1, <2>2 DEF IInv, TypeOK, Known, Created, RunningIsLocked, LockFiber,
        Alive, Unlocked
    <3>3. TypeOK'
      BY <1>4, <2>1, <2>2, <3>1 DEF IInv, TypeOK, Moves, LockFiber
    <3>4. /\ fiber' = [fiber EXCEPT ![t] = f] /\ owner' = [owner EXCEPT ![f] = t]
          /\ owner[f] = Free /\ UNCHANGED fstate
      BY <1>4, <2>2 DEF LockFiber, Unlocked
    <3>5. ASSUME NEW u \in Threads \ {t}, At(u) \in Holding
          PROVE  fiber[u] # f
      BY <3>4, <3>5, SchedulerAssumption DEF IInv, Locks
    <3>6. Locks'
      BY <2>1, <3>1, <3>2, <3>4, <3>5 DEF IInv, TypeOK, Locks, Moves, Holding
    <3>7. RunningIsLocked'
      BY <2>1, <3>4, SchedulerAssumption DEF IInv, TypeOK, RunningIsLocked
    <3>8. Known'
      BY <1>4, <3>2, <3>4 DEF IInv, TypeOK, Known, Created, LockFiber
    <3> QED BY <3>1, <3>3, <3>6, <3>7, <3>8 DEF IInv, Moves
  <2>3. CASE ~Alive(f)
    <3>1. Moves(t, "release")
      BY <1>4, <2>3, GotoMoves DEF IInv, LockFiber, Labels
    <3>2. TypeOK'
      BY <1>4, <2>3, <3>1 DEF IInv, TypeOK, Moves, LockFiber
    <3>3. Locks' /\ RunningIsLocked' /\ Known'
      BY <1>4, <2>3, <3>1, QuietStep DEF IInv, Holding, LockFiber
    <3> QED BY <3>1, <3>2, <3>3 DEF IInv, Moves
  <2> QED BY <2>2, <2>3
<1>5. CASE CreateFiber(t)
  <2>1. Moves(t, "resume")
    BY <1>5, RunControl DEF IInv
  <2>2. PICK f \in Fibers : /\ fstate[f] = "NONE"
                            /\ fstate' = [fstate EXCEPT ![f] = "READY"]
                            /\ owner' = [owner EXCEPT ![f] = t]
                            /\ fiber' = [fiber EXCEPT ![t] = f]
    BY <1>5 DEF CreateFiber
  <2>3. TypeOK'
    BY <1>5, <2>1, <2>2 DEF IInv, TypeOK, Moves, CreateFiber
  <2>4. ASSUME NEW u \in Threads \ {t}, At(u) \in Holding
        PROVE  fiber[u] # f
    BY <2>2, <2>4 DEF IInv, Known, Created
  <2>5. Locks'
    BY <2>1, <2>2, <2>4 DEF IInv, TypeOK, Locks, Moves, Holding
  <2>6. RunningIsLocked'
    BY <2>2, SchedulerAssumption DEF IInv, TypeOK, RunningIsLocked
  <2>7. Known'
    BY <1>5, <2>2 DEF IInv, TypeOK, Known, Created, CreateFiber
  <2> QED BY <2>1, <2>3, <2>5, <2>6, <2>7 DEF IInv, Moves
<1>6. CASE RunWake(t)
  <2>1. FiberTask(task[t].fiber) \in Tasks
    BY <1>6, TaskKinds, TaskMembers DEF RunWake, IInv, TypeOK
  <2>2. /\ Moves(t, "release") /\ m_tasks' \in Seq(Tasks)
        /\ \A i \in DOMAIN m_tasks' :
             \/ m_tasks'[i] = FiberTask(task[t].fiber)
             \/ \E k \in DOMAIN m_tasks : m_tasks'[i] = m_tasks[k]
    BY <1>6, <2>1, ScheduleFacts DEF IInv, RunWake, Labels
  <2>3. TypeOK'
    BY <1>6, <2>2 DEF IInv, TypeOK, Moves, RunWake
  <2>4. Locks' /\ RunningIsLocked'
    BY <1>6, <2>2, LocksFrame DEF IInv, RunWake, Holding, At
  <2>5. Known'
    BY <1>6, <2>1, <2>2, KnownFrame, TaskKinds DEF IInv, TypeOK, Known, Created, RunWake
  <2> QED BY <2>2, <2>3, <2>4, <2>5 DEF IInv, Moves
<1>7. CASE Resume(t)
  <2>1. Moves(t, "run")
    BY <1>7, RunControl DEF IInv
  <2>2. fiber[t] \in Fibers /\ owner[fiber[t]] = t /\ At(t) \in Holding
    BY <1>7 DEF IInv, Locks, Holding, At, Resume
  <2>3. TypeOK'
    BY <1>7, <2>1 DEF IInv, TypeOK, Moves, Resume
  <2>4. Locks'
    BY <1>7, <2>1, <2>2, HoldersDiffer DEF IInv, TypeOK, Locks, Moves, Holding, Resume
  <2>5. RunningIsLocked'
    BY <1>7, <2>2, SchedulerAssumption
      DEF IInv, TypeOK, Locks, RunningIsLocked, At, Resume, Holding
  <2>6. Known'
    BY <1>7, <2>2 DEF IInv, TypeOK, Known, Created, Resume
  <2> QED BY <2>1, <2>3, <2>4, <2>5, <2>6 DEF IInv, Moves
<1>8. CASE SwitchBack(t)
  <2>1. Moves(t, "release")
    BY <1>8, RunControl DEF IInv
  <2>2. fiber[t] \in Fibers /\ owner[fiber[t]] = t /\ At(t) \in Holding
    BY <1>8 DEF IInv, Locks, Holding, At, SwitchBack
  <2>3. TypeOK'
    BY <1>8, <2>1 DEF IInv, TypeOK, Moves, SwitchBack
  <2>4. Locks'
    BY <1>8, <2>1, <2>2, HoldersDiffer DEF IInv, TypeOK, Locks, Moves, Holding, SwitchBack
  <2>5. RunningIsLocked'
    BY <1>8, <2>2, SchedulerAssumption
      DEF IInv, TypeOK, Locks, RunningIsLocked, At, SwitchBack, Holding
  <2>6. Known'
    BY <1>8, <2>2, SchedulerAssumption DEF IInv, TypeOK, Known, Created, SwitchBack
  <2> QED BY <2>1, <2>3, <2>4, <2>5, <2>6 DEF IInv, Moves
<1>9. CASE Release(t)
  <2>1. Moves(t, "take")
    BY <1>9, RunControl DEF IInv
  <2>2. TypeOK'
    <3>1. task' \in [Threads -> Tasks \cup {NoTask}] /\ active' \in Int
      BY <1>9 DEF IInv, TypeOK, Release
    <3> QED BY <1>9, <2>1, <3>1 DEF IInv, TypeOK, Moves, Release
  <2>3. Locks' /\ RunningIsLocked'
    BY <1>9, <2>1, LocksFrame DEF IInv, Release, Holding
  <2>4. Known'
    BY <1>9, TaskKinds DEF IInv, TypeOK, Known, Created, Release
  <2> QED BY <2>1, <2>2, <2>3, <2>4 DEF IInv, Moves
<1>10. CASE EnterIdle(t)
  <2>1. PICK l \in {"exit", "timers?"} : Moves(t, l)
    BY <1>10, RunControl DEF IInv
  <2>2. TypeOK'
    BY <1>10, <2>1 DEF IInv, TypeOK, Moves, EnterIdle
  <2>3. Locks' /\ RunningIsLocked' /\ Known'
    BY <1>10, <2>1, QuietStep DEF IInv, Holding, EnterIdle
  <2> QED BY <2>1, <2>2, <2>3 DEF IInv, Moves
<1> QED BY <1>1, <1>2, <1>3, <1>4, <1>5, <1>6, <1>7, <1>8, <1>9, <1>10 DEF RunStep

\* A fiber that runs.
LEMMA FiberInv ==
  ASSUME IInv, NEW t \in Threads, FiberStep(t)
  PROVE  IInv'
<1> USE DEF runVars, fiberVars, waitVars, pipeVars, idleVars, stopVars, bounds, ioVars
<1>1. CASE FiberPost(t)
  <2>0. PICK th \in Pins : ScheduleLock(t, CbTask(th), "run")
    BY <1>1 DEF FiberPost
  <2>1. CbTask(th) \in Tasks
    BY <1>1, <2>0, SchedulerAssumption, TaskMembers
  <2>2. /\ Moves(t, "run") /\ m_tasks' \in Seq(Tasks)
        /\ \A i \in DOMAIN m_tasks' :
             m_tasks'[i] = CbTask(th) \/ \E k \in DOMAIN m_tasks : m_tasks'[i] = m_tasks[k]
    BY <1>1, <2>1, ScheduleFacts, <2>0 DEF IInv, FiberPost, Labels
  <2>3. TypeOK'
    BY <1>1, <2>2 DEF IInv, TypeOK, Moves, FiberPost
  <2>4. Locks' /\ RunningIsLocked'
    BY <1>1, <2>2, LocksFrame DEF IInv, FiberPost, Holding, At
  <2>5. Known'
    BY <1>1, <2>1, <2>2, KnownFrame, TaskKinds DEF IInv, FiberPost
  <2> QED BY <2>2, <2>3, <2>4, <2>5 DEF IInv, Moves
<1>2. CASE \E l \in {"yield", "run"} : FiberReschedule(t, l)
  <2>a. PICK l \in {"yield", "run"} : FiberReschedule(t, l)
    BY <1>2
  <2>0. fiber[t] \in Fibers
    BY <2>a DEF IInv, Locks, Holding, At, FiberReschedule
  <2>1. FiberTask(fiber[t]) \in Tasks
    BY <2>a, <2>0, TaskMembers
  <2>2. /\ Moves(t, l) /\ m_tasks' \in Seq(Tasks)
        /\ \A i \in DOMAIN m_tasks' :
             \/ m_tasks'[i] = FiberTask(fiber[t])
             \/ \E k \in DOMAIN m_tasks : m_tasks'[i] = m_tasks[k]
    BY <2>a, <2>1, ScheduleFacts, <2>0 DEF IInv, FiberReschedule, Labels
  <2>3. TypeOK'
    BY <2>a, <2>2 DEF IInv, TypeOK, Moves, FiberReschedule
  <2>4. Locks' /\ RunningIsLocked'
    BY <2>a, <2>2, LocksFrame DEF IInv, FiberReschedule, Holding, At
  <2>5. Known'
    BY <2>a, <2>1, <2>2, KnownFrame, TaskKinds DEF IInv, Known, Created, FiberReschedule
  <2> QED BY <2>2, <2>3, <2>4, <2>5 DEF IInv, Moves
<1>3. CASE FiberSleep(t)
  <2>0. fiber[t] \in Fibers
    BY <1>3 DEF IInv, Locks, Holding, At, FiberSleep
  <2>1. Moves(t, "yield")
    BY <1>3, FiberControl DEF IInv
  <2>2. TypeOK'
    BY <1>3, <2>0, <2>1 DEF IInv, TypeOK, Moves, FiberSleep
  <2>3. Locks' /\ RunningIsLocked'
    BY <1>3, <2>1, LocksFrame DEF IInv, FiberSleep, At
  <2>4. Known'
    BY <1>3, <2>0 DEF IInv, TypeOK, Known, Created, FiberSleep
  <2> QED BY <2>1, <2>2, <2>3, <2>4 DEF IInv, Moves
<1>4. CASE FiberAddEvent(t)
  <2>0. fiber[t] \in Fibers
    BY <1>4 DEF IInv, Locks, Holding, At, FiberAddEvent
  <2>1. Moves(t, "yield")
    BY <1>4, FiberControl DEF IInv
  <2>2. TypeOK'
    BY <1>4, <2>0, <2>1, TaskMembers DEF IInv, TypeOK, Moves, FiberAddEvent
  <2>3. Locks' /\ RunningIsLocked'
    BY <1>4, <2>1, LocksFrame DEF IInv, FiberAddEvent, At
  <2>4. Known'
    BY <1>4, <2>0, TaskKinds DEF IInv, TypeOK, Known, Created, FiberAddEvent
  <2> QED BY <2>1, <2>2, <2>3, <2>4 DEF IInv, Moves
<1>5. CASE FiberYield(t)
  <2>1. Moves(t, "switch")
    BY <1>5, FiberControl DEF IInv
  <2>2. fiber[t] \in Fibers /\ owner[fiber[t]] = t /\ At(t) \in Holding
    BY <1>5 DEF IInv, Locks, Holding, At, FiberYield
  <2>3. TypeOK'
    BY <1>5, <2>1 DEF IInv, TypeOK, Moves, FiberYield
  <2>4. Locks'
    BY <1>5, <2>1, <2>2, HoldersDiffer DEF IInv, TypeOK, Locks, Moves, Holding, FiberYield
  <2>5. RunningIsLocked'
    BY <1>5, <2>2, SchedulerAssumption
      DEF IInv, TypeOK, Locks, RunningIsLocked, At, FiberYield, Holding
  <2>6. Known'
    BY <1>5, <2>2 DEF IInv, TypeOK, Known, Created, FiberYield
  <2> QED BY <2>1, <2>3, <2>4, <2>5, <2>6 DEF IInv, Moves
<1>6. CASE FiberEnd(t)
  <2>1. Moves(t, "switch")
    BY <1>6, FiberControl DEF IInv
  <2>2. fiber[t] \in Fibers /\ owner[fiber[t]] = t /\ At(t) \in Holding
    BY <1>6 DEF IInv, Locks, Holding, At, FiberEnd
  <2>3. TypeOK'
    BY <1>6, <2>1 DEF IInv, TypeOK, Moves, FiberEnd
  <2>4. Locks'
    BY <1>6, <2>1, <2>2, HoldersDiffer DEF IInv, TypeOK, Locks, Moves, Holding, FiberEnd
  <2>5. RunningIsLocked'
    BY <1>6, <2>2, SchedulerAssumption
      DEF IInv, TypeOK, Locks, RunningIsLocked, At, FiberEnd, Holding
  <2>6. Known'
    BY <1>6, <2>2 DEF IInv, TypeOK, Known, Created, FiberEnd
  <2> QED BY <2>1, <2>3, <2>4, <2>5, <2>6 DEF IInv, Moves
<1> QED BY <1>1, <1>2, <1>3, <1>4, <1>5, <1>6 DEF FiberStep

\* IOManager::idle.
LEMMA IdleInv ==
  ASSUME IInv, NEW t \in Threads, IdleStep(t)
  PROVE  IInv'
<1> USE DEF runVars, fiberVars, waitVars, pipeVars, idleVars, stopVars, bounds, ioVars
<1>1. CASE CheckTimers(t)
  <2>1. PICK l \in {"pending?", "epoll"} : Moves(t, l)
    BY <1>1, IdleControl DEF IInv
  <2>2. TypeOK'
    BY <1>1, <2>1 DEF IInv, TypeOK, Moves, CheckTimers, Ask
  <2>3. Locks' /\ RunningIsLocked' /\ Known'
    BY <1>1, <2>1, QuietStep DEF IInv, Holding, CheckTimers, Ask
  <2> QED BY <2>1, <2>2, <2>3 DEF IInv, Moves
<1>2. CASE CheckPending(t)
  <2>1. PICK l \in {"stopping?", "epoll"} : Moves(t, l)
    BY <1>2, IdleControl DEF IInv
  <2>2. TypeOK'
    BY <1>2, <2>1 DEF IInv, TypeOK, Moves, CheckPending, Ask
  <2>3. Locks' /\ RunningIsLocked' /\ Known'
    BY <1>2, <2>1, QuietStep DEF IInv, Holding, CheckPending, Ask
  <2> QED BY <2>1, <2>2, <2>3 DEF IInv, Moves
<1>3. CASE CheckStopping(t)
  <2>1. PICK l \in {"take", "epoll"} : Moves(t, l)
    BY <1>3, IdleControl DEF IInv
  <2>2. TypeOK'
    <3>1. /\ idleDone' = [idleDone EXCEPT ![t] = TRUE] \/ idleDone' = idleDone
          /\ idle' = idle - 1 \/ idle' = idle
      BY <1>3, Zenon DEF CheckStopping
    <3>2. UNCHANGED <<m_tasks, runVars, fiberVars, ioVars, cbs, ready, bounds>>
      BY <1>3 DEF CheckStopping
    <3>3. idle' \in Int
      BY <3>1 DEF IInv, TypeOK
    <3>4. idleDone' \in [Threads -> BOOLEAN]
      BY <3>1 DEF IInv, TypeOK
    <3> QED BY <2>1, <3>2, <3>3, <3>4 DEF IInv, TypeOK, Moves
  <2>3. Locks' /\ RunningIsLocked' /\ Known'
    BY <1>3, <2>1, QuietStep DEF IInv, Holding, CheckStopping
  <2> QED BY <2>1, <2>2, <2>3 DEF IInv, Moves
<1>4. CASE EpollWait(t)
  <2>1. Moves(t, "expire")
    BY <1>4, IdleControl DEF IInv
  <2>2. PICK E \in Reportable : ready' = [ready EXCEPT ![t] = E]
    BY <1>4 DEF EpollWait
  <2>3. E \subseteq Slots \cup {Wakeup}
    BY <2>2 DEF Reportable, Registered, PipeReady
  <2>4. TypeOK'
    BY <1>4, <2>1, <2>2, <2>3 DEF IInv, TypeOK, Moves, EpollWait
  <2>5. Locks' /\ RunningIsLocked' /\ Known'
    BY <1>4, <2>1, QuietStep DEF IInv, Holding, EpollWait
  <2> QED BY <2>1, <2>4, <2>5 DEF IInv, Moves
<1>5. CASE ListExpired(t)
  <2>1. Moves(t, "events")
    BY <1>5, IdleControl DEF IInv
  <2>2. PICK E \in SUBSET timers : timers' = timers \ E /\ cbs' = [cbs EXCEPT ![t] = E]
    BY <1>5 DEF ListExpired
  <2>3. TypeOK'
    BY <1>5, <2>1, <2>2 DEF IInv, TypeOK, Moves, ListExpired
  <2>4. Locks' /\ RunningIsLocked'
    BY <1>5, <2>1, LocksFrame DEF IInv, ListExpired, Holding
  <2>5. Known'
    BY <1>5, <2>2 DEF IInv, TypeOK, Known, Created, ListExpired
  <2> QED BY <2>1, <2>3, <2>4, <2>5 DEF IInv, Moves
<1>6. CASE ScheduleExpired(t)
  <2>1. PICK f \in cbs[t] : /\ cbs' = [cbs EXCEPT ![t] = @ \ {f}]
                          /\ ScheduleLock(t, WakeTask(f), "events")
    BY <1>6 DEF ScheduleExpired
  <2>2. f \in Fibers /\ fstate[f] # "NONE" /\ WakeTask(f) \in Tasks /\ WakeTask(f).fiber = f
    BY TaskMembers, TaskKinds DEF IInv, TypeOK, Known, Created
  <2>3. /\ Moves(t, "events") /\ m_tasks' \in Seq(Tasks)
        /\ \A i \in DOMAIN m_tasks' :
             m_tasks'[i] = WakeTask(f) \/ \E k \in DOMAIN m_tasks : m_tasks'[i] = m_tasks[k]
    BY <2>1, <2>2, ScheduleFacts DEF IInv, Labels
  <2>4. TypeOK'
    BY <1>6, <2>1, <2>3 DEF IInv, TypeOK, Moves, ScheduleExpired
  <2>5. Locks' /\ RunningIsLocked'
    BY <1>6, <2>3, LocksFrame DEF IInv, ScheduleExpired, Holding
  <2>6. Known'
    <3>1. \A i \in DOMAIN m_tasks' : Created(m_tasks'[i].fiber)
      BY <2>2, <2>3 DEF IInv, Known, Created
    <3>2. \A u \in Threads : cbs'[u] \subseteq cbs[u]
      BY <2>1 DEF IInv, TypeOK
    <3>3. UNCHANGED <<slot, timers, task, fiber, fstate>>
      BY <1>6 DEF ScheduleExpired
    <3> QED BY <3>1, <3>2, <3>3 DEF IInv, Known, Created
  <2> QED BY <2>3, <2>4, <2>5, <2>6 DEF IInv, Moves
<1>7. CASE DrainPipe(t)
  <2>1. Moves(t, "events")
    BY <1>7, IdleControl DEF IInv
  <2>2. TypeOK'
    BY <1>7, <2>1 DEF IInv, TypeOK, Moves, DrainPipe
  <2>3. Locks' /\ RunningIsLocked' /\ Known'
    BY <1>7, <2>1, QuietStep DEF IInv, Holding, DrainPipe
  <2> QED BY <2>1, <2>2, <2>3 DEF IInv, Moves
<1>8. CASE TriggerEvent(t)
  <2>1. PICK s \in ready[t] \ {Wakeup} :
          /\ ready' = [ready EXCEPT ![t] = @ \ {s}]
          /\ IF slot[s] = NoTask THEN UNCHANGED <<m_tasks, slot, pc, ret>>
                                 ELSE Deliver(t, s)
    BY <1>8 DEF TriggerEvent
  <2>2. s \in Slots
    BY DEF IInv, TypeOK
  <2>3. CASE slot[s] = NoTask
    <3>1. Moves(t, "events")
      BY <1>8, <2>1, <2>3, StayMoves DEF IInv, TriggerEvent, Labels
    <3>2. TypeOK'
      BY <1>8, <2>1, <2>3, <3>1 DEF IInv, TypeOK, Moves, TriggerEvent
    <3>3. Locks' /\ RunningIsLocked' /\ Known'
      BY <1>8, <2>1, <2>3, <3>1, QuietStep DEF IInv, Holding, TriggerEvent
    <3> QED BY <3>1, <3>2, <3>3 DEF IInv, Moves
  <2>4. CASE slot[s] # NoTask
    <3>1. /\ slot[s] \in Tasks /\ ScheduleLock(t, slot[s], "triggered")
          /\ slot' = [slot EXCEPT ![s] = NoTask]
      BY <2>1, <2>2, <2>4 DEF IInv, TypeOK, Deliver, Clear
    <3>2. /\ Moves(t, "triggered") /\ m_tasks' \in Seq(Tasks)
          /\ \A i \in DOMAIN m_tasks' :
               m_tasks'[i] = slot[s] \/ \E k \in DOMAIN m_tasks : m_tasks'[i] = m_tasks[k]
      BY <3>1, ScheduleFacts DEF IInv, Labels
    <3>3. TypeOK'
      BY <1>8, <2>1, <3>1, <3>2 DEF IInv, TypeOK, Moves, TriggerEvent
    <3>4. Locks' /\ RunningIsLocked'
      BY <1>8, <3>2, LocksFrame DEF IInv, TriggerEvent, Holding
    <3>5. Known'
      BY <1>8, <2>2, <3>1, <3>2, TaskKinds DEF IInv, TypeOK, Known, Created, TriggerEvent
    <3> QED BY <3>2, <3>3, <3>4, <3>5 DEF IInv, Moves
  <2> QED BY <2>3, <2>4
<1>9. CASE DropPending(t)
  <2>1. Moves(t, "events")
    BY <1>9, IdleControl DEF IInv
  <2>2. TypeOK'
    BY <1>9, <2>1 DEF IInv, TypeOK, Moves, DropPending
  <2>3. Locks' /\ RunningIsLocked' /\ Known'
    BY <1>9, <2>1, QuietStep DEF IInv, Holding, DropPending
  <2> QED BY <2>1, <2>2, <2>3 DEF IInv, Moves
<1>10. CASE LeaveIdle(t)
  <2>1. Moves(t, "take")
    BY <1>10, IdleControl DEF IInv
  <2>2. TypeOK'
    BY <1>10, <2>1 DEF IInv, TypeOK, Moves, LeaveIdle
  <2>3. Locks' /\ RunningIsLocked' /\ Known'
    BY <1>10, <2>1, QuietStep DEF IInv, Holding, LeaveIdle
  <2> QED BY <2>1, <2>2, <2>3 DEF IInv, Moves
<1> QED BY <1>1, <1>2, <1>3, <1>4, <1>5, <1>6, <1>7, <1>8, <1>9, <1>10 DEF IdleStep

\* The owner of the scheduler.
LEMMA RootInv ==
  ASSUME IInv, PostStep \/ Stop \/ StopStep
  PROVE  IInv'
<1>r. Root \in Threads
  BY DEF Threads
<1> USE <1>r DEF runVars, fiberVars, waitVars, pipeVars, idleVars, stopVars, bounds, ioVars
<1>1. CASE PostCb
  <2>0. PICK th \in Pins : ScheduleLock(Root, CbTask(th), "user")
    BY <1>1 DEF PostCb
  <2>1. CbTask(th) \in Tasks
    BY <1>1, <2>0, SchedulerAssumption, TaskMembers
  <2>2. /\ Moves(Root, "user") /\ m_tasks' \in Seq(Tasks)
        /\ \A i \in DOMAIN m_tasks' :
             m_tasks'[i] = CbTask(th) \/ \E k \in DOMAIN m_tasks : m_tasks'[i] = m_tasks[k]
    BY <1>1, <2>1, ScheduleFacts, <2>0 DEF IInv, PostCb, Labels
  <2>3. TypeOK'
    BY <1>1, <2>2 DEF IInv, TypeOK, Moves, PostCb
  <2>4. Locks' /\ RunningIsLocked'
    BY <1>1, <2>2, LocksFrame DEF IInv, PostCb, Holding, At
  <2>5. Known'
    BY <1>1, <2>1, <2>2, KnownFrame, TaskKinds DEF IInv, PostCb
  <2> QED BY <2>2, <2>3, <2>4, <2>5 DEF IInv, Moves
<1>2. CASE PostFiber
  <2>1. PICK f \in Fibers : /\ fstate[f] = "NONE"
                            /\ fstate' = [fstate EXCEPT ![f] = "READY"]
                            /\ ScheduleLock(Root, FiberTask(f), "user")
    BY <1>2 DEF PostFiber
  <2>2. FiberTask(f) \in Tasks /\ FiberTask(f).fiber = f
    BY TaskMembers, TaskKinds
  <2>3. /\ Moves(Root, "user") /\ m_tasks' \in Seq(Tasks)
        /\ \A i \in DOMAIN m_tasks' :
             \/ m_tasks'[i] = FiberTask(f)
             \/ \E k \in DOMAIN m_tasks : m_tasks'[i] = m_tasks[k]
    BY <2>1, <2>2, ScheduleFacts DEF IInv, Labels
  <2>4. TypeOK'
    BY <1>2, <2>1, <2>3 DEF IInv, TypeOK, Moves, PostFiber
  <2>5. ASSUME NEW u \in Threads, At(u) \in Holding
        PROVE  fiber[u] # f
    BY <2>1, <2>5 DEF IInv, Known, Created
  <2>6. UNCHANGED <<fiber, owner>> /\ \A u \in Threads : At(u)' \in Holding => At(u)' = At(u)
    BY <1>2, <2>3 DEF PostFiber, Moves, Holding
  <2>7. Locks'
    BY <2>1, <2>5, <2>6 DEF IInv, TypeOK, Locks
  <2>8. RunningIsLocked'
    BY <2>1, <2>6 DEF IInv, TypeOK, RunningIsLocked
  <2>9. Known'
    BY <1>2, <2>1, <2>2, <2>3 DEF IInv, TypeOK, Known, Created, PostFiber
  <2> QED BY <2>3, <2>4, <2>7, <2>8, <2>9 DEF IInv, Moves
<1>3. CASE PostEvent
  <2>1. Moves(Root, "user")
    BY <1>3, RootControl DEF IInv
  <2>2. TypeOK'
    BY <1>3, <2>1, TaskMembers DEF IInv, TypeOK, Moves, PostEvent
  <2>3. Locks' /\ RunningIsLocked'
    BY <1>3, <2>1, LocksFrame DEF IInv, PostEvent, Holding
  <2>4. Known'
    BY <1>3, TaskKinds DEF IInv, TypeOK, Known, Created, PostEvent
  <2> QED BY <2>1, <2>2, <2>3, <2>4 DEF IInv, Moves
<1>4. CASE Stop
  <2>1. Moves(Root, "stop")
    BY <1>4, RootControl DEF IInv
  <2>2. TypeOK'
    BY <1>4, <2>1, FS_CardinalityType, SchedulerAssumption DEF IInv, TypeOK, Moves, Stop
  <2>3. Locks' /\ RunningIsLocked' /\ Known'
    BY <1>4, <2>1, QuietStep DEF IInv, Holding, Stop
  <2> QED BY <2>1, <2>2, <2>3 DEF IInv, Moves
<1>5. CASE StopTickle
  <2>1. Moves(Root, "stop")
    BY <1>5, RootControl DEF IInv
  <2>2. TypeOK'
    <3>1. tickles' \in Nat /\ UNCHANGED <<m_tasks, runVars, fiberVars, waitVars, idleVars,
                                          m_stopping, bounds>>
      BY <1>5 DEF IInv, TypeOK, StopTickle
    <3>2. pipe' \in BOOLEAN /\ edge' \in BOOLEAN
      BY <1>5 DEF IInv, TypeOK, StopTickle, WritePipe
    <3> QED BY <2>1, <3>1, <3>2 DEF IInv, TypeOK, Moves
  <2>3. Locks' /\ RunningIsLocked' /\ Known'
    BY <1>5, <2>1, QuietStep DEF IInv, Holding, StopTickle
  <2> QED BY <2>1, <2>2, <2>3 DEF IInv, Moves
<1>6. CASE StopRun
  <2>1. PICK l \in {"take", "exit"} : Moves(Root, l)
    BY <1>6, RootControl DEF IInv
  <2>2. TypeOK'
    BY <1>6, <2>1 DEF IInv, TypeOK, Moves, StopRun
  <2>3. Locks' /\ RunningIsLocked' /\ Known'
    BY <1>6, <2>1, QuietStep DEF IInv, Holding, StopRun
  <2> QED BY <2>1, <2>2, <2>3 DEF IInv, Moves
<1>7. CASE Join
  <2>1. Moves(Root, "stopped")
    BY <1>7, RootControl DEF IInv
  <2>2. TypeOK'
    BY <1>7, <2>1 DEF IInv, TypeOK, Moves, Join
  <2>3. Locks' /\ RunningIsLocked' /\ Known'
    BY <1>7, <2>1, QuietStep DEF IInv, Holding, Join
  <2> QED BY <2>1, <2>2, <2>3 DEF IInv, Moves
<1> QED BY <1>1, <1>2, <1>3, <1>4, <1>5, <1>6, <1>7 DEF PostStep, StopStep

\* The groups of actions together.
LEMMA StepInv == IInv /\ [Next]_vars => IInv'
<1> SUFFICES ASSUME IInv, [Next]_vars PROVE IInv'
  OBVIOUS
<1>1. CASE \E t \in Threads : ThreadStep(t)
  BY <1>1, RunInv, FiberInv, IdleInv DEF ThreadStep
<1>2. CASE PostStep \/ Stop \/ StopStep
  BY <1>2, RootInv
<1>3. CASE UNCHANGED vars
  BY <1>3 DEF vars, runVars, fiberVars, waitVars, pipeVars, idleVars, stopVars, bounds,
    ioVars, IInv, TypeOK, ReturnKnown, Locks, RunningIsLocked, Known, Created, At
<1> QED BY <1>1, <1>2, <1>3 DEF Next, Stopped

\* The strengthening holds in every reachable state.
THEOREM Inductive == Spec => []IInv
BY InitInv, StepInv, PTL DEF Spec

-----------------------------------------------------------------------------
(* What it gives. *)

\* Every variable keeps its type; in particular only constructed tasks, never
\* an empty one, are queued, which is what run() asserts of each entry it scans.
THEOREM TypeCorrect == Spec => []TypeOK
<1>1. IInv => TypeOK
  BY DEF IInv
<1> QED BY <1>1, Inductive, PTL

\* Two threads never execute on one fiber's stack: run() keeps Fiber::m_mtx
\* from before resume() until the switch back, so the thread that takes a
\* fiber queued too early waits for the switch.
THEOREM Exclusive == Spec => []FiberExclusive
<1>1. ASSUME IInv PROVE FiberExclusive
  BY <1>1 DEF IInv, Locks, Holding, OnStack, FiberExclusive
<1> QED BY <1>1, Inductive, PTL

\* The assertion of Fiber::resume never fails: TERM is excluded under the
\* mutex, RUNNING by the mutex.
THEOREM ResumeSafe == Spec => []ResumeReady
<1>1. ASSUME IInv PROVE ResumeReady
  BY <1>1 DEF IInv, Locks, Holding, At, ResumeReady
<1> QED BY <1>1, Inductive, PTL
=============================================================================

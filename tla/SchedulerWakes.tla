--------------------------- MODULE SchedulerWakes ---------------------------
(***************************************************************************)
(* Theorems: no fiber is lost, and none is woken twice, on the way from a  *)
(* wait to the thread that resumes it; and Scheduler implements            *)
(* Coroutines. They hold for any number of threads, fibers, events and     *)
(* tasks.                                                                  *)
(*                                                                         *)
(* A claim on a fiber is followed through the places it can be in: each    *)
(* step of the scheduler moves it from one place to the next, under the    *)
(* lock that guards them both. Where its claim is decides what a program   *)
(* can see of a fiber, and so the refinement follows, one lemma per group  *)
(* of actions.                                                             *)
(***************************************************************************)
EXTENDS SchedulerCounters, SchedulerRefinement

Places == {"queued", "registered", "expired", "taken", "running", "timer"}

Names(f) == {FiberTask(f), WakeTask(f)}

\* The claims on fiber f that are at place k.
Part(f, k) ==
  CASE k = "queued"     -> {i \in DOMAIN m_tasks : m_tasks[i] \in Names(f)}
    [] k = "registered" -> {s \in Slots : slot[s] = FiberTask(f)}
    [] k = "expired"    -> {t \in Threads : f \in cbs[t]}
    [] k = "taken"      -> {t \in Threads : At(t) = "dispatch" /\ task[t] \in Names(f)}
    [] k = "running"    -> {t \in Threads : At(t) \in {"resume", "run"} /\ fiber[t] = f}
    [] k = "timer"      -> {f} \cap timers

None(f) == \A k \in Places : Part(f, k) = {}

One(f) == \E k \in Places : \E x : /\ Part(f, k) = {x}
                                   /\ \A j \in Places \ {k} : Part(f, j) = {}

Live(f) == fstate[f] \in {"READY", "RUNNING"}

\* The expired callbacks idle() holds are those of its current pass, and what
\* waits for an event is a fiber or a callback, never a timer's callback.
WInv ==
  /\ \A t \in Threads : At(t) # "events" => cbs[t] = {}
  /\ \A s \in Slots : slot[s].kind # "wake"

\* A step keeps the number of claims at none, at some, and at one.
Kept(f) == /\ None(f) => None(f)'
           /\ ~None(f) => ~None(f)'
           /\ One(f) => One(f)'

\* What a step may do to the claims on a fiber: move them, make the first one of
\* a fiber that is constructed, use up the one of a fiber that ends, drop one of
\* a fiber that has ended, or add one to a fiber that keeps running.
Accounted(f) ==
  \/ (Live(f)' <=> Live(f)) /\ Kept(f)
  \/ ~Live(f) /\ Live(f)' /\ ~None(f)' /\ (None(f) => One(f)')
  \/ Live(f) /\ ~Live(f)' /\ (One(f) => None(f)')
  \/ ~Live(f) /\ ~Live(f)' /\ ~None(f)
  \/ Live(f) /\ Live(f)' /\ ~None(f)' /\ MaxExtra # 0

-----------------------------------------------------------------------------
(* The places, and what a step does to them. *)

\* The tasks that name a fiber differ from one another, from no task, and from
\* a callback; they name no other fiber.
LEMMA NamesApart ==
  /\ \A f : NoTask \notin Names(f)
  /\ \A f, th : CbTask(th) \notin Names(f)
  /\ \A f, g : /\ FiberTask(g) \in Names(f) <=> f = g
               /\ WakeTask(g) \in Names(f) <=> f = g
               /\ FiberTask(f) # WakeTask(g)
               /\ FiberTask(f) = FiberTask(g) <=> f = g
  /\ \A f : FiberTask(f).kind = "fiber" /\ WakeTask(f).kind = "wake"
  /\ \A th : CbTask(th).kind = "cb"
BY DEF Names, NoTask, CbTask, FiberTask, WakeTask

\* A task is made from what it names.
LEMMA TaskOf ==
  ASSUME NEW tk \in Tasks \cup {NoTask}
  PROVE  /\ tk.kind = "fiber" => tk = FiberTask(tk.fiber)
         /\ tk.kind = "wake" => tk = WakeTask(tk.fiber)
         /\ tk.kind = "cb" => \A f : tk \notin Names(f)
         /\ tk.kind \notin {"fiber", "wake"} => \A f : tk \notin Names(f)
         /\ \A f \in Fibers : tk \in Names(f) => tk.fiber = f
BY DEF Tasks, Names, NoTask, CbTask, FiberTask, WakeTask

\* A place changes only with the variable it looks at.
LEMMA PlaceFrame ==
  ASSUME NEW f
  PROVE  /\ UNCHANGED m_tasks => Part(f, "queued")' = Part(f, "queued")
         /\ UNCHANGED slot    => Part(f, "registered")' = Part(f, "registered")
         /\ UNCHANGED cbs     => Part(f, "expired")' = Part(f, "expired")
         /\ UNCHANGED timers  => Part(f, "timer")' = Part(f, "timer")
BY DEF Part

\* A push adds a claim if it is of a task that names the fiber.
LEMMA QueuePlace ==
  ASSUME TypeOK, NEW t, NEW tk \in Tasks, NEW l, ScheduleLock(t, tk, l), NEW f
  PROVE  Part(f, "queued")' = IF tk \in Names(f)
                              THEN Part(f, "queued") \cup {Len(m_tasks) + 1}
                              ELSE Part(f, "queued")
<1>1. m_tasks \in Seq(Tasks) /\ m_tasks' = Append(m_tasks, tk)
  BY DEF TypeOK, ScheduleLock
<1>2. /\ Len(m_tasks) \in Nat
      /\ DOMAIN m_tasks = 1..Len(m_tasks) /\ DOMAIN m_tasks' = 1..(Len(m_tasks) + 1)
      /\ \A i \in 1..Len(m_tasks) : m_tasks'[i] = m_tasks[i]
      /\ m_tasks'[Len(m_tasks) + 1] = tk
  BY <1>1, AppendProperties, LenProperties
<1>3. /\ Part(f, "queued")' = {i \in DOMAIN m_tasks' : m_tasks'[i] \in Names(f)}
      /\ Part(f, "queued") = {i \in DOMAIN m_tasks : m_tasks[i] \in Names(f)}
  BY DEF Part, Names
<1> HIDE DEF Part, Names
<1> QED BY <1>2, <1>3

\* Thread t goes to l, and no other thread's locals change.
LEMMA MovePlaces ==
  ASSUME NEW t \in Threads, NEW l, Moves(t, l),
         \A u \in Threads \ {t} : task'[u] = task[u] /\ fiber'[u] = fiber[u],
         NEW f
  PROVE  /\ Part(f, "taken")' = IF l = "dispatch" /\ task'[t] \in Names(f)
                                THEN Part(f, "taken") \cup {t}
                                ELSE Part(f, "taken") \ {t}
         /\ Part(f, "running")' = IF l \in {"resume", "run"} /\ fiber'[t] = f
                                  THEN Part(f, "running") \cup {t}
                                  ELSE Part(f, "running") \ {t}
<1>1. At(t)' = l /\ \A u \in Threads \ {t} : At(u)' = At(u)
  BY DEF Moves
<1>2. /\ Part(f, "taken")' = {u \in Threads : At(u)' = "dispatch" /\ task'[u] \in Names(f)}
      /\ Part(f, "taken") = {u \in Threads : At(u) = "dispatch" /\ task[u] \in Names(f)}
      /\ Part(f, "running")' = {u \in Threads : At(u)' \in {"resume", "run"} /\ fiber'[u] = f}
      /\ Part(f, "running") = {u \in Threads : At(u) \in {"resume", "run"} /\ fiber[u] = f}
  BY DEF Part, Names, FiberTask, WakeTask
<1> HIDE DEF Part, Names
<1> QED BY <1>1, <1>2

\* Where the claim t holds is.
LEMMA InPlace ==
  ASSUME NEW t \in Threads, NEW f
  PROVE  /\ t \in Part(f, "taken") <=> At(t) = "dispatch" /\ task[t] \in Names(f)
         /\ t \in Part(f, "running") <=> At(t) \in {"resume", "run"} /\ fiber[t] = f
BY DEF Part

-----------------------------------------------------------------------------
(* How claims move. *)

Same(f) == \A k \in Places : Part(f, k)' = Part(f, k)

\* Claims that stay where they are.
LEMMA SameKept == ASSUME NEW f, Same(f) PROVE Kept(f)
<1>1. None(f)' <=> \A k \in Places : Part(f, k)' = {}
  BY DEF None
<1>2. One(f)' <=> \E k \in Places : \E x : /\ Part(f, k)' = {x}
                                           /\ \A j \in Places \ {k} : Part(f, j)' = {}
  BY DEF One
<1> HIDE DEF Part
<1> QED BY <1>1, <1>2 DEF Same, Kept, None, One

\* From place a to place b.
LEMMA ExchangeKept ==
  ASSUME NEW f, NEW a \in Places, NEW b \in Places \ {a},
         NEW x \in Part(f, a), NEW y,
         Part(f, a)' = Part(f, a) \ {x}, Part(f, b)' = Part(f, b) \cup {y},
         \A k \in Places \ {a, b} : Part(f, k)' = Part(f, k)
  PROVE  Kept(f)
<1>1. /\ None(f)' <=> \A k \in Places : Part(f, k)' = {}
      /\ One(f)' <=> \E k \in Places : \E z : /\ Part(f, k)' = {z}
                                              /\ \A j \in Places \ {k} : Part(f, j)' = {}
  BY DEF None, One
<1>2. ~None(f) /\ ~None(f)'
  BY <1>1 DEF None
<1>3. ASSUME One(f) PROVE One(f)'
  <2>1a. PICK k \in Places : \E z : Part(f, k) = {z} /\ \A j \in Places \ {k} : Part(f, j) = {}
    BY <1>3 DEF One
  <2>1. PICK z : Part(f, k) = {z} /\ \A j \in Places \ {k} : Part(f, j) = {}
    BY <2>1a
  <2>2. k = a /\ Part(f, a) = {x}
    BY <2>1
  <2>3. Part(f, b)' = {y} /\ \A j \in Places \ {b} : Part(f, j)' = {}
    BY <2>1, <2>2
  <2> QED BY <1>1, <2>3
<1> QED BY <1>2, <1>3 DEF Kept

\* A claim is made, or used up.
LEMMA MadeAndUsed ==
  ASSUME NEW f, NEW a \in Places, NEW x,
         \A k \in Places \ {a} : Part(f, k)' = Part(f, k)
  PROVE  /\ Part(f, a)' = Part(f, a) \cup {x} => ~None(f)' /\ (None(f) => One(f)')
         /\ Part(f, a)' = Part(f, a) \ {x} /\ x \in Part(f, a)
              => ~None(f) /\ (One(f) => None(f)')
<1>1. /\ None(f)' <=> \A k \in Places : Part(f, k)' = {}
      /\ One(f)' <=> \E k \in Places : \E z : /\ Part(f, k)' = {z}
                                              /\ \A j \in Places \ {k} : Part(f, j)' = {}
  BY DEF None, One
<1>2. ASSUME Part(f, a)' = Part(f, a) \cup {x}
      PROVE  ~None(f)' /\ (None(f) => One(f)')
  <2>1. ~None(f)'
    BY <1>1, <1>2
  <2>2. ASSUME None(f) PROVE One(f)'
    <3>1. Part(f, a)' = {x} /\ \A j \in Places \ {a} : Part(f, j)' = {}
      BY <1>2, <2>2 DEF None
    <3> QED BY <1>1, <3>1
  <2> QED BY <2>1, <2>2
<1>3. ASSUME Part(f, a)' = Part(f, a) \ {x}, x \in Part(f, a)
      PROVE  ~None(f) /\ (One(f) => None(f)')
  <2>1. ~None(f)
    BY <1>3 DEF None
  <2>2. ASSUME One(f) PROVE None(f)'
    <3>1a. PICK k \in Places : \E z : Part(f, k) = {z} /\ \A j \in Places \ {k} : Part(f, j) = {}
      BY <2>2 DEF One
    <3>1. PICK z : Part(f, k) = {z} /\ \A j \in Places \ {k} : Part(f, j) = {}
      BY <3>1a
    <3>2. k = a /\ Part(f, a) = {x}
      BY <1>3, <3>1
    <3> QED BY <1>1, <1>3, <3>1, <3>2
  <2> QED BY <2>1, <2>2
<1> QED BY <1>2, <1>3

-----------------------------------------------------------------------------
(* Every action. *)

\* No other place than those of thread t is touched, and those are not either.
LEMMA QuietSame ==
  ASSUME NEW t \in Threads, NEW l, Moves(t, l),
         UNCHANGED <<m_tasks, slot, cbs, timers>>,
         \A u \in Threads \ {t} : task'[u] = task[u] /\ fiber'[u] = fiber[u],
         NEW f,
         l = "dispatch" /\ task'[t] \in Names(f) <=> At(t) = "dispatch" /\ task[t] \in Names(f),
         l \in {"resume", "run"} /\ fiber'[t] = f <=> At(t) \in {"resume", "run"} /\ fiber[t] = f
  PROVE  Same(f)
<1>1. /\ Part(f, "taken")' = Part(f, "taken") /\ Part(f, "running")' = Part(f, "running")
  <2>1. /\ t \in Part(f, "taken") <=> l = "dispatch" /\ task'[t] \in Names(f)
        /\ t \in Part(f, "running") <=> l \in {"resume", "run"} /\ fiber'[t] = f
    BY InPlace
  <2>2. /\ Part(f, "taken")' = IF l = "dispatch" /\ task'[t] \in Names(f)
                               THEN Part(f, "taken") \cup {t}
                               ELSE Part(f, "taken") \ {t}
        /\ Part(f, "running")' = IF l \in {"resume", "run"} /\ fiber'[t] = f
                                 THEN Part(f, "running") \cup {t}
                                 ELSE Part(f, "running") \ {t}
    BY MovePlaces
  <2> HIDE DEF Part, Names
  <2> QED BY <2>1, <2>2
<1> QED BY <1>1, PlaceFrame DEF Same, Places

\* The same when the fibers' states do not change.
LEMMA QuietAccounted ==
  ASSUME NEW t \in Threads, NEW l, Moves(t, l),
         UNCHANGED <<m_tasks, slot, cbs, timers, task, fiber, fstate>>,
         \/ l # "dispatch" /\ At(t) # "dispatch"
         \/ l = At(t)
         \/ task[t].kind \notin {"fiber", "wake"},
         task[t] \in Tasks \cup {NoTask},
         l \in {"resume", "run"} <=> At(t) \in {"resume", "run"},
         NEW f \in Fibers
  PROVE  Accounted(f)
<1>1. /\ l = "dispatch" /\ task'[t] \in Names(f) <=> At(t) = "dispatch" /\ task[t] \in Names(f)
      /\ l \in {"resume", "run"} /\ fiber'[t] = f <=> At(t) \in {"resume", "run"} /\ fiber[t] = f
  BY TaskOf
<1>2. Kept(f)
  BY <1>1, QuietSame, SameKept
<1>3. Live(f)' <=> Live(f)
  BY DEF Live
<1> QED BY <1>2, <1>3 DEF Accounted

\* The queue moves forward by one behind the task that is taken.
LEMMA TakeTaskAccounted ==
  ASSUME IInv, CInv, NEW t \in Threads, TakeTask(t), NEW f \in Fibers
  PROVE  Accounted(f)
<1> DEFINE n == Len(m_tasks)
<1>1. PICK i \in DOMAIN m_tasks : /\ task' = [task EXCEPT ![t] = m_tasks[i]]
                                  /\ m_tasks' = RemoveAt(m_tasks, i)
  BY DEF TakeTask
<1>2. /\ At(t) = "take" /\ Moves(t, "dispatch")
      /\ UNCHANGED <<slot, cbs, timers, fiber, fstate>>
  BY RunControl DEF IInv, TakeTask, fiberVars, ioVars, waitVars, idleVars
<1>3. /\ m_tasks \in Seq(Tasks) /\ n \in Nat /\ DOMAIN m_tasks = 1..n /\ i \in 1..n
      /\ m_tasks[i] \in Tasks /\ task \in [Threads -> Tasks \cup {NoTask}]
  BY LenProperties DEF IInv, TypeOK
<1>4. /\ task'[t] = m_tasks[i]
      /\ \A u \in Threads \ {t} : task'[u] = task[u] /\ fiber'[u] = fiber[u]
  BY <1>1, <1>2, <1>3
<1>5. /\ Part(f, "taken")' = IF m_tasks[i] \in Names(f) THEN Part(f, "taken") \cup {t}
                                                        ELSE Part(f, "taken")
      /\ Part(f, "running")' = Part(f, "running")
  <2>1. /\ Part(f, "taken")' = IF task'[t] \in Names(f) THEN Part(f, "taken") \cup {t}
                                                        ELSE Part(f, "taken") \ {t}
        /\ Part(f, "running")' = Part(f, "running") \ {t}
    BY <1>2, <1>4, MovePlaces
  <2>2. t \notin Part(f, "taken") /\ t \notin Part(f, "running")
    BY <1>2, InPlace
  <2> HIDE DEF Part, Names
  <2> QED BY <1>4, <2>1, <2>2
<1>6. /\ Part(f, "registered")' = Part(f, "registered")
      /\ Part(f, "expired")' = Part(f, "expired") /\ Part(f, "timer")' = Part(f, "timer")
  BY <1>2, PlaceFrame
<1> DEFINE h(k) == IF k < i THEN k ELSE k - 1
<1>7. /\ DOMAIN m_tasks' = 1..(n - 1)
      /\ \A j \in 1..(n - 1) : m_tasks'[j] = IF j < i THEN m_tasks[j] ELSE m_tasks[j+1]
  BY <1>1, <1>3, RemoveAtShifts
<1>8. /\ Part(f, "queued")' = {j \in 1..(n - 1) : m_tasks'[j] \in Names(f)}
      /\ Part(f, "queued") = {j \in 1..n : m_tasks[j] \in Names(f)}
  BY <1>3, <1>7 DEF Part, Names
<1>9. Part(f, "queued")' = {h(k) : k \in Part(f, "queued") \ {i}}
  <2>1. ASSUME NEW j \in Part(f, "queued")'
        PROVE  \E k \in Part(f, "queued") \ {i} : j = h(k)
    <3>0. j \in 1..(n - 1) /\ m_tasks'[j] \in Names(f)
      BY <1>8, <2>1
    <3> HIDE DEF Part, Names, h
    <3>1. CASE j < i
      <4>1. j \in 1..n /\ m_tasks[j] \in Names(f) /\ j # i
        BY <1>3, <1>7, <3>0, <3>1
      <4>2. j = h(j)
        BY <3>1 DEF h
      <4> QED BY <1>8, <4>1, <4>2
    <3>2. CASE ~(j < i)
      <4>1. j + 1 \in 1..n /\ m_tasks[j+1] \in Names(f) /\ j + 1 # i
        BY <1>3, <1>7, <3>0, <3>2
      <4>2. j = h(j + 1)
        BY <1>3, <3>0, <3>2 DEF h
      <4> QED BY <1>8, <4>1, <4>2
    <3> QED BY <3>1, <3>2
  <2>2. ASSUME NEW k \in Part(f, "queued") \ {i}
        PROVE  h(k) \in Part(f, "queued")'
    <3>0. k \in 1..n /\ k # i /\ m_tasks[k] \in Names(f)
      BY <1>8, <2>2
    <3> HIDE DEF Part, Names
    <3>1. h(k) \in 1..(n - 1) /\ m_tasks'[h(k)] = m_tasks[k]
      BY <1>3, <1>7, <3>0
    <3> HIDE DEF h
    <3> QED BY <1>8, <3>0, <3>1
  <2> HIDE DEF Part, h
  <2> QED BY <2>1, <2>2
<1>10. i \in Part(f, "queued") <=> m_tasks[i] \in Names(f)
  BY <1>3, <1>8
<1>11. Live(f)' <=> Live(f)
  BY <1>2 DEF Live
<1>12. /\ None(f)' <=> \A k \in Places : Part(f, k)' = {}
       /\ One(f)' <=> \E k \in Places : \E z : /\ Part(f, k)' = {z}
                                               /\ \A j \in Places \ {k} : Part(f, j)' = {}
  BY DEF None, One
<1> HIDE DEF Part, Names, h
<1>13. None(f) => None(f)'
  <2> SUFFICES ASSUME None(f) PROVE None(f)'
    OBVIOUS
  <2>1. \A k \in Places : Part(f, k) = {}
    BY DEF None
  <2>2. Part(f, "queued")' = {} /\ m_tasks[i] \notin Names(f)
    BY <1>9, <1>10, <2>1 DEF Places
  <2> QED BY <1>5, <1>6, <1>12, <2>1, <2>2 DEF Places
<1>14. ~None(f) => ~None(f)'
  <2> SUFFICES ASSUME ~None(f) PROVE ~None(f)'
    OBVIOUS
  <2>1. PICK k \in Places : Part(f, k) # {}
    BY DEF None
  <2>2. CASE k # "queued"
    BY <1>5, <1>6, <1>12, <2>1, <2>2 DEF Places
  <2>3. CASE m_tasks[i] \in Names(f)
    BY <1>5, <1>12, <2>3 DEF Places
  <2>4. CASE k = "queued" /\ m_tasks[i] \notin Names(f)
    <3>1. PICK j : j \in Part(f, "queued") \ {i}
      BY <1>10, <2>1, <2>4
    <3>2. h(j) \in Part(f, "queued")'
      BY <1>9, <3>1
    <3> QED BY <1>12, <3>2 DEF Places
  <2> QED BY <2>2, <2>3, <2>4
<1>15. One(f) => One(f)'
  <2> SUFFICES ASSUME One(f) PROVE One(f)'
    OBVIOUS
  <2>1a. PICK k \in Places : \E x : Part(f, k) = {x} /\ \A j \in Places \ {k} : Part(f, j) = {}
    BY DEF One
  <2>1. PICK x : Part(f, k) = {x} /\ \A j \in Places \ {k} : Part(f, j) = {}
    BY <2>1a
  <2>2. CASE m_tasks[i] \in Names(f)
    <3>1. k = "queued" /\ Part(f, "queued") \ {i} = {}
      BY <1>10, <2>1, <2>2 DEF Places
    <3>2. Part(f, "queued")' = {}
      BY <1>9, <3>1
    <3>3. Part(f, "taken")' = {t} /\ \A j \in Places \ {"taken"} : Part(f, j)' = {}
      BY <1>5, <1>6, <2>1, <2>2, <3>1, <3>2 DEF Places
    <3> QED BY <1>12, <3>3 DEF Places
  <2>3. CASE m_tasks[i] \notin Names(f) /\ k = "queued"
    <3>1. Part(f, "queued")' = {h(x)}
      BY <1>9, <1>10, <2>1, <2>3
    <3>2. \A j \in Places \ {"queued"} : Part(f, j)' = {}
      BY <1>5, <1>6, <2>1, <2>3 DEF Places
    <3> QED BY <1>12, <3>1, <3>2 DEF Places
  <2>4. CASE m_tasks[i] \notin Names(f) /\ k # "queued"
    <3>1. Part(f, "queued")' = {}
      BY <1>9, <2>1, <2>4 DEF Places
    <3>2. Part(f, k)' = {x} /\ \A j \in Places \ {k} : Part(f, j)' = {}
      BY <1>5, <1>6, <2>1, <2>4, <3>1 DEF Places
    <3> QED BY <1>12, <3>2
  <2> QED BY <2>2, <2>3, <2>4
<1> QED BY <1>11, <1>13, <1>14, <1>15 DEF Accounted, Kept

\* task.fiber: the claim goes from the task to the running thread, or is dropped
\* if the fiber has ended.
LEMMA LockFiberAccounted ==
  ASSUME IInv, CInv, NEW t \in Threads, LockFiber(t), NEW f \in Fibers
  PROVE  Accounted(f)
<1> DEFINE g == task[t].fiber
<1>1. /\ At(t) = "dispatch" /\ g \in Fibers /\ task[t] = FiberTask(g)
      /\ fiber \in [Threads -> Fibers \cup {NoFiber}]
  BY RunControl, TaskKinds, TaskOf DEF IInv, TypeOK, LockFiber
<1>2. UNCHANGED <<m_tasks, slot, cbs, timers, task, fstate>>
  BY DEF LockFiber, ioVars, waitVars, idleVars
<1>3. Live(f)' <=> Live(f)
  BY <1>2 DEF Live
<1>4. CASE Alive(g)
  <2>1. Moves(t, "resume") /\ fiber' = [fiber EXCEPT ![t] = g]
    BY <1>4, GotoMoves DEF IInv, LockFiber, Labels
  <2>2. fiber'[t] = g /\ \A u \in Threads \ {t} : task'[u] = task[u] /\ fiber'[u] = fiber[u]
    BY <1>1, <1>2, <2>1
  <2> HIDE DEF g
  <2>3. CASE f = g
    <3>1. /\ t \in Part(f, "taken") /\ Part(f, "taken")' = Part(f, "taken") \ {t}
          /\ Part(f, "running")' = Part(f, "running") \cup {t}
      BY <1>1, <2>1, <2>2, <2>3, MovePlaces, InPlace, NamesApart
    <3>2. Kept(f)
      BY <1>2, <3>1, PlaceFrame, ExchangeKept DEF Places
    <3> QED BY <1>3, <3>2 DEF Accounted
  <2>4. CASE f # g
    <3>1. /\ task[t] \notin Names(f) /\ task'[t] \notin Names(f)
          /\ fiber'[t] # f /\ At(t) \notin {"resume", "run"}
      BY <1>1, <1>2, <2>2, <2>4, NamesApart
    <3>2. Kept(f)
      BY <1>2, <2>1, <2>2, <3>1, QuietSame, SameKept
    <3> QED BY <1>3, <3>2 DEF Accounted
  <2> QED BY <2>3, <2>4
<1>5. CASE ~Alive(g)
  <2>1. Moves(t, "release") /\ UNCHANGED fiber
    BY <1>5, GotoMoves DEF IInv, LockFiber, Labels
  <2>2. ~Live(g)
    BY <1>5 DEF Alive, Live
  <2> HIDE DEF g
  <2>3. CASE f = g
    <3>1. t \in Part(f, "taken")
      BY <1>1, <2>3, InPlace, NamesApart
    <3>2. ~None(f)
      BY <3>1 DEF None, Places
    <3> QED BY <1>3, <2>2, <2>3, <3>2 DEF Accounted
  <2>4. CASE f # g
    <3>1. task[t] \notin Names(f) /\ task'[t] \notin Names(f)
      BY <1>1, <1>2, <2>4, NamesApart
    <3>2. Kept(f)
      BY <1>1, <1>2, <2>1, <3>1, QuietSame, SameKept
    <3> QED BY <1>3, <3>2 DEF Accounted
  <2> QED BY <2>3, <2>4
<1> QED BY <1>4, <1>5

\* Scheduler::run.
LEMMA RunAccounted ==
  ASSUME IInv, CInv, NEW t \in Threads, RunStep(t), NEW f \in Fibers
  PROVE  Accounted(f)
<1> USE DEF runVars, fiberVars, waitVars, pipeVars, idleVars, stopVars, bounds, ioVars
<1>t. task[t] \in Tasks \cup {NoTask}
  BY DEF IInv, TypeOK
<1>1. CASE Tickle(t)
  <2>1. PICK l \in Labels : l = At(t) /\ Moves(t, l)
    BY <1>1 DEF IInv, TypeOK, ReturnKnown, Tickle, Moves, At, Labels
  <2>2. UNCHANGED <<m_tasks, slot, cbs, timers, task, fiber, fstate>>
    BY <1>1 DEF Tickle
  <2> QED BY <1>t, <2>1, <2>2, QuietAccounted
<1>2. CASE TakeNothing(t)
  <2>1. At(t) = "take" /\ Moves(t, "dispatch")
    BY <1>2, RunControl DEF IInv
  <2>2. task[t].kind = "none"
    BY <2>1, TaskKinds DEF CInv, TaskHeld, Busy
  <2>3. UNCHANGED <<m_tasks, slot, cbs, timers, task, fiber, fstate>>
    BY <1>2 DEF TakeNothing
  <2> QED BY <1>t, <2>1, <2>2, <2>3, QuietAccounted
<1>3. CASE CreateFiber(t)
  <2>1. At(t) = "dispatch" /\ Moves(t, "resume") /\ \A x : task[t] \notin Names(x)
    BY <1>3, <1>t, RunControl, TaskOf DEF IInv, CreateFiber
  <2>2. PICK g \in Fibers : /\ fstate[g] = "NONE"
                            /\ fstate' = [fstate EXCEPT ![g] = "READY"]
                            /\ fiber' = [fiber EXCEPT ![t] = g]
    BY <1>3 DEF CreateFiber
  <2>3. UNCHANGED <<m_tasks, slot, cbs, timers, task>>
    BY <1>3 DEF CreateFiber
  <2>4. fiber'[t] = g /\ \A u \in Threads \ {t} : task'[u] = task[u] /\ fiber'[u] = fiber[u]
    BY <2>2, <2>3 DEF IInv, TypeOK
  <2>5. CASE f = g
    <3>1. ~Live(f) /\ Live(f)'
      BY <2>2, <2>5 DEF Live, IInv, TypeOK
    <3>2. /\ Part(f, "taken")' = Part(f, "taken") \ {t}
          /\ Part(f, "running")' = Part(f, "running") \cup {t}
      BY <2>1, <2>4, <2>5, MovePlaces
    <3>3. t \notin Part(f, "taken")
      BY <2>1, InPlace
    <3>4. Part(f, "taken")' = Part(f, "taken")
      BY <3>2, <3>3
    <3>5. ~None(f)' /\ (None(f) => One(f)')
      BY <2>3, <3>2, <3>4, PlaceFrame, MadeAndUsed DEF Places
    <3> QED BY <3>1, <3>5 DEF Accounted
  <2>6. CASE f # g
    <3>1. Live(f)' <=> Live(f)
      BY <2>2, <2>6 DEF Live, IInv, TypeOK
    <3>2. task'[t] \notin Names(f) /\ fiber'[t] # f /\ At(t) \notin {"resume", "run"}
      BY <2>1, <2>3, <2>4, <2>6
    <3>3. Kept(f)
      BY <2>1, <2>3, <2>4, <3>2, QuietSame, SameKept
    <3> QED BY <3>1, <3>3 DEF Accounted
  <2> QED BY <2>5, <2>6
<1>4. CASE RunWake(t)
  <2> DEFINE g == task[t].fiber
  <2>1. /\ At(t) = "dispatch" /\ Moves(t, "release")
        /\ g \in Fibers /\ task[t] = WakeTask(g) /\ FiberTask(g) \in Tasks
        /\ ScheduleLock(t, FiberTask(g), "release")
    BY <1>4, <1>t, RunControl, TaskKinds, TaskOf, TaskMembers DEF IInv, RunWake
  <2>2. UNCHANGED <<slot, cbs, timers, task, fiber, fstate>>
    BY <1>4 DEF RunWake
  <2> HIDE DEF g
  <2>3. Live(f)' <=> Live(f)
    BY <2>2 DEF Live
  <2>4. /\ Part(f, "taken")' = Part(f, "taken") \ {t}
        /\ Part(f, "running")' = Part(f, "running") \ {t}
        /\ t \notin Part(f, "running")
    BY <2>1, <2>2, MovePlaces, InPlace
  <2>5. Part(f, "queued")' = IF f = g THEN Part(f, "queued") \cup {Len(m_tasks) + 1}
                                      ELSE Part(f, "queued")
    BY <2>1, QueuePlace, NamesApart DEF IInv
  <2>6. t \in Part(f, "taken") <=> f = g
    BY <2>1, InPlace, NamesApart
  <2>7. Part(f, "running")' = Part(f, "running")
    BY <2>4
  <2>8. CASE f = g
    <3>0. /\ t \in Part(f, "taken") /\ Part(f, "taken")' = Part(f, "taken") \ {t}
          /\ Part(f, "queued")' = Part(f, "queued") \cup {Len(m_tasks) + 1}
          /\ \A k \in Places \ {"taken", "queued"} : Part(f, k)' = Part(f, k)
      BY <2>2, <2>4, <2>5, <2>6, <2>7, <2>8, PlaceFrame DEF Places
    <3>1. Kept(f)
      BY <3>0, ExchangeKept, Zenon DEF Places
    <3> QED BY <2>3, <3>1 DEF Accounted
  <2>9. CASE f # g
    <3>1. Part(f, "taken")' = Part(f, "taken") /\ Part(f, "queued")' = Part(f, "queued")
      BY <2>4, <2>5, <2>6, <2>9
    <3>2. Kept(f)
      BY <2>2, <2>7, <3>1, PlaceFrame, SameKept DEF Same, Places
    <3> QED BY <2>3, <3>2 DEF Accounted
  <2> QED BY <2>8, <2>9
<1>5. CASE Resume(t)
  <2>1. At(t) = "resume" /\ Moves(t, "run")
    BY <1>5, RunControl DEF IInv
  <2>2. fiber[t] \in Fibers /\ fstate[fiber[t]] = "READY"
    BY <2>1 DEF IInv, Locks, Holding
  <2>3. Live(f)' <=> Live(f)
    BY <1>5, <2>2 DEF Live, Resume, IInv, TypeOK
  <2>4. UNCHANGED <<m_tasks, slot, cbs, timers, task, fiber>>
    BY <1>5 DEF Resume
  <2>5. Kept(f)
    BY <2>1, <2>4, QuietSame, SameKept
  <2> QED BY <2>3, <2>5 DEF Accounted
<1>6. CASE SwitchBack(t)
  <2>1. At(t) = "switch" /\ Moves(t, "release")
    BY <1>6, RunControl DEF IInv
  <2>2. UNCHANGED <<m_tasks, slot, cbs, timers, task, fstate>>
    BY <1>6 DEF SwitchBack
  <2>3. \A u \in Threads \ {t} : task'[u] = task[u] /\ fiber'[u] = fiber[u]
    BY <1>6 DEF SwitchBack, IInv, TypeOK
  <2>4. Kept(f)
    BY <2>1, <2>2, <2>3, QuietSame, SameKept
  <2>5. Live(f)' <=> Live(f)
    BY <2>2 DEF Live
  <2> QED BY <2>4, <2>5 DEF Accounted
<1>7. CASE Release(t)
  <2>1. At(t) = "release" /\ Moves(t, "take")
    BY <1>7, RunControl DEF IInv
  <2>2. UNCHANGED <<m_tasks, slot, cbs, timers, fiber, fstate>>
    BY <1>7 DEF Release
  <2>3. \A u \in Threads \ {t} : task'[u] = task[u] /\ fiber'[u] = fiber[u]
    BY <1>7 DEF Release, IInv, TypeOK
  <2>4. Kept(f)
    BY <2>1, <2>2, <2>3, QuietSame, SameKept
  <2>5. Live(f)' <=> Live(f)
    BY <2>2 DEF Live
  <2> QED BY <2>4, <2>5 DEF Accounted
<1>8. CASE EnterIdle(t)
  <2>1. At(t) = "dispatch" /\ task[t].kind = "none"
    BY <1>8, RunControl, TaskKinds DEF IInv, EnterIdle
  <2>2. PICK l \in {"exit", "timers?"} : Moves(t, l)
    BY <1>8, RunControl DEF IInv
  <2>3. UNCHANGED <<m_tasks, slot, cbs, timers, task, fiber, fstate>>
    BY <1>8 DEF EnterIdle
  <2> QED BY <1>t, <2>1, <2>2, <2>3, QuietAccounted
<1> QED BY <1>1, <1>2, <1>3, <1>4, <1>5, <1>6, <1>7, <1>8, TakeTaskAccounted,
      LockFiberAccounted DEF RunStep

\* A fiber that suspends leaves its claim with whatever will wake it.
LEMMA FiberAccounted ==
  ASSUME IInv, CInv, NEW t \in Threads, FiberStep(t), NEW f \in Fibers
  PROVE  Accounted(f)
<1> USE DEF runVars, fiberVars, waitVars, pipeVars, idleVars, stopVars, bounds, ioVars
<1>t. task[t] \in Tasks \cup {NoTask}
  BY DEF IInv, TypeOK
<1>g. /\ At(t) \in {"run", "yield"}
      /\ fiber[t] \in Fibers /\ fstate[fiber[t]] = "RUNNING"
      /\ FiberTask(fiber[t]) \in Tasks
      /\ UNCHANGED <<task, fiber>>
  <2>1. At(t) \in {"run", "yield"}
    BY FiberControl DEF IInv, FiberStep
  <2>2. UNCHANGED <<task, fiber>>
    BY DEF FiberStep, FiberPost, FiberReschedule, FiberSleep, FiberAddEvent, FiberYield,
      FiberEnd
  <2> QED BY <2>1, <2>2, TaskMembers DEF IInv, Locks, Holding
<1>h. /\ t \notin Part(f, "taken")
      /\ t \in Part(f, "running") <=> At(t) = "run" /\ f = fiber[t]
      /\ Live(fiber[t])
  BY <1>g, InPlace DEF Live
\* Where the thread's claims are once it has left run.
<1>m. ASSUME NEW l \in {"yield", "switch"}, Moves(t, l)
      PROVE  /\ Part(f, "taken")' = Part(f, "taken")
             /\ Part(f, "running")' = Part(f, "running") \ {t}
  <2>1. /\ Part(f, "taken")' = Part(f, "taken") \ {t}
        /\ Part(f, "running")' = Part(f, "running") \ {t}
    BY <1>g, <1>m, MovePlaces
  <2> QED BY <1>h, <2>1
<1>1. CASE FiberPost(t)
  <2>1. PICK th \in Pins : ScheduleLock(t, CbTask(th), "run")
    BY <1>1 DEF FiberPost
  <2>2. CbTask(th) \in Tasks /\ CbTask(th) \notin Names(f)
    BY SchedulerAssumption, TaskMembers, NamesApart
  <2>3. Part(f, "queued")' = Part(f, "queued")
    BY <2>1, <2>2, QueuePlace DEF IInv
  <2>4. UNCHANGED <<slot, cbs, timers, fstate>> /\ Moves(t, "run") /\ At(t) = "run"
    BY <1>1, FiberControl DEF FiberPost, IInv
  <2>5. /\ Part(f, "taken")' = Part(f, "taken") \ {t}
        /\ Part(f, "running")' = IF fiber[t] = f THEN Part(f, "running") \cup {t}
                                                 ELSE Part(f, "running") \ {t}
    BY <1>g, <2>4, MovePlaces
  <2>6. Part(f, "taken")' = Part(f, "taken") /\ Part(f, "running")' = Part(f, "running")
    BY <1>h, <2>4, <2>5
  <2>7. Kept(f)
    BY <2>3, <2>4, <2>6, PlaceFrame, SameKept DEF Same, Places
  <2>8. Live(f)' <=> Live(f)
    BY <2>4 DEF Live
  <2> QED BY <2>7, <2>8 DEF Accounted
<1>2. CASE FiberReschedule(t, "yield")
  <2>1. ScheduleLock(t, FiberTask(fiber[t]), "yield") /\ UNCHANGED <<slot, cbs, timers, fstate>>
    BY <1>2 DEF FiberReschedule
  <2>2. Moves(t, "yield") /\ At(t) = "run"
    BY <1>2, FiberControl DEF IInv
  <2>3. Part(f, "queued")' = IF f = fiber[t] THEN Part(f, "queued") \cup {Len(m_tasks) + 1}
                                             ELSE Part(f, "queued")
    BY <1>g, <2>1, QueuePlace, NamesApart DEF IInv
  <2>4. Live(f)' <=> Live(f)
    BY <2>1 DEF Live
  <2>5. CASE f = fiber[t]
    <3>1. /\ t \in Part(f, "running") /\ Part(f, "running")' = Part(f, "running") \ {t}
          /\ Part(f, "queued")' = Part(f, "queued") \cup {Len(m_tasks) + 1}
          /\ \A k \in Places \ {"running", "queued"} : Part(f, k)' = Part(f, k)
      BY <1>h, <1>m, <2>1, <2>2, <2>3, <2>5, PlaceFrame DEF Places
    <3>2. Kept(f)
      BY <3>1, ExchangeKept, Zenon DEF Places
    <3> QED BY <2>4, <3>2 DEF Accounted
  <2>6. CASE f # fiber[t]
    <3>1. Same(f)
      BY <1>h, <1>m, <2>1, <2>2, <2>3, <2>6, PlaceFrame DEF Same, Places
    <3> QED BY <2>4, <3>1, SameKept DEF Accounted
  <2> QED BY <2>5, <2>6
<1>3. CASE FiberReschedule(t, "run")
  <2>1. ScheduleLock(t, FiberTask(fiber[t]), "run") /\ UNCHANGED <<slot, cbs, timers, fstate>>
    BY <1>3 DEF FiberReschedule
  <2>2. Moves(t, "run") /\ At(t) = "run"
    BY <1>3, FiberControl DEF IInv
  <2>3. Part(f, "queued")' = IF f = fiber[t] THEN Part(f, "queued") \cup {Len(m_tasks) + 1}
                                             ELSE Part(f, "queued")
    BY <1>g, <2>1, QueuePlace, NamesApart DEF IInv
  <2>4. Live(f)' <=> Live(f)
    BY <2>1 DEF Live
  <2>5. /\ Part(f, "taken")' = Part(f, "taken") \ {t}
        /\ Part(f, "running")' = IF fiber[t] = f THEN Part(f, "running") \cup {t}
                                                 ELSE Part(f, "running") \ {t}
    BY <1>g, <2>2, MovePlaces
  <2>6. CASE f = fiber[t]
    <3>1. Live(f) /\ ~None(f)'
      <4>1. \E k \in Places : Part(f, k)' # {}
        BY <2>5, <2>6 DEF Places
      <4>2. None(f)' <=> \A k \in Places : Part(f, k)' = {}
        BY DEF None
      <4> QED BY <1>h, <2>6, <4>1, <4>2
    <3>2. MaxExtra # 0
      BY <1>3, SchedulerAssumption DEF FiberReschedule, IInv, TypeOK
    <3> QED BY <2>4, <3>1, <3>2 DEF Accounted
  <2>7. CASE f # fiber[t]
    <3>1. Part(f, "taken")' = Part(f, "taken") /\ Part(f, "running")' = Part(f, "running")
      BY <1>h, <2>5, <2>7
    <3>2. Same(f)
      BY <2>1, <2>3, <2>7, <3>1, PlaceFrame DEF Same, Places
    <3> QED BY <2>4, <3>2, SameKept DEF Accounted
  <2> QED BY <2>6, <2>7
<1>4. CASE FiberSleep(t)
  <2>1. /\ timers' = timers \cup {fiber[t]}
        /\ UNCHANGED <<m_tasks, slot, cbs, fstate>>
    BY <1>4 DEF FiberSleep
  <2>2. Moves(t, "yield") /\ At(t) = "run"
    BY <1>4, FiberControl DEF IInv
  <2>3. Part(f, "timer")' = IF f = fiber[t] THEN Part(f, "timer") \cup {f} ELSE Part(f, "timer")
    BY <2>1 DEF Part
  <2>4. Live(f)' <=> Live(f)
    BY <2>1 DEF Live
  <2>5. CASE f = fiber[t]
    <3>1. /\ t \in Part(f, "running") /\ Part(f, "running")' = Part(f, "running") \ {t}
          /\ Part(f, "timer")' = Part(f, "timer") \cup {f}
          /\ \A k \in Places \ {"running", "timer"} : Part(f, k)' = Part(f, k)
      BY <1>h, <1>m, <2>1, <2>2, <2>3, <2>5, PlaceFrame DEF Places
    <3>2. Kept(f)
      BY <3>1, ExchangeKept, Zenon DEF Places
    <3> QED BY <2>4, <3>2 DEF Accounted
  <2>6. CASE f # fiber[t]
    <3>1. Same(f)
      BY <1>h, <1>m, <2>1, <2>2, <2>3, <2>6, PlaceFrame DEF Same, Places
    <3> QED BY <2>4, <3>1, SameKept DEF Accounted
  <2> QED BY <2>5, <2>6
<1>5. CASE FiberAddEvent(t)
  <2>1. PICK s \in Slots : /\ slot[s] = NoTask
                           /\ slot' = [slot EXCEPT ![s] = FiberTask(fiber[t])]
    BY <1>5 DEF FiberAddEvent
  <2>2. UNCHANGED <<m_tasks, timers, cbs, fstate>> /\ Moves(t, "yield") /\ At(t) = "run"
    BY <1>5, FiberControl DEF FiberAddEvent, IInv
  <2>3. Part(f, "registered")' = IF f = fiber[t] THEN Part(f, "registered") \cup {s}
                                                 ELSE Part(f, "registered")
    <3>1. /\ Part(f, "registered")' = {r \in Slots : slot'[r] = FiberTask(f)}
          /\ Part(f, "registered") = {r \in Slots : slot[r] = FiberTask(f)}
      BY DEF Part, FiberTask
    <3>2. /\ slot'[s] = FiberTask(fiber[t]) /\ NoTask # FiberTask(f)
          /\ \A r \in Slots \ {s} : slot'[r] = slot[r]
      BY <2>1 DEF IInv, TypeOK, NoTask, FiberTask
    <3>3. FiberTask(fiber[t]) = FiberTask(f) <=> f = fiber[t]
      BY NamesApart
    <3> HIDE DEF Part
    <3> QED BY <2>1, <3>1, <3>2, <3>3
  <2>4. Live(f)' <=> Live(f)
    BY <2>2 DEF Live
  <2>5. CASE f = fiber[t]
    <3>1. /\ t \in Part(f, "running") /\ Part(f, "running")' = Part(f, "running") \ {t}
          /\ Part(f, "registered")' = Part(f, "registered") \cup {s}
          /\ \A k \in Places \ {"running", "registered"} : Part(f, k)' = Part(f, k)
      BY <1>h, <1>m, <2>2, <2>3, <2>5, PlaceFrame DEF Places
    <3>2. Kept(f)
      BY <3>1, ExchangeKept, Zenon DEF Places
    <3> QED BY <2>4, <3>2 DEF Accounted
  <2>6. CASE f # fiber[t]
    <3>1. Same(f)
      BY <1>h, <1>m, <2>2, <2>3, <2>6, PlaceFrame DEF Same, Places
    <3> QED BY <2>4, <3>1, SameKept DEF Accounted
  <2> QED BY <2>5, <2>6
<1>6. CASE FiberYield(t)
  <2>1. /\ At(t) = "yield" /\ Moves(t, "switch")
        /\ UNCHANGED <<m_tasks, slot, cbs, timers>>
    BY <1>6, FiberControl DEF IInv, FiberYield
  <2>2. Live(f)' <=> Live(f)
    BY <1>6, <1>g DEF Live, FiberYield, IInv, TypeOK
  <2>3. Kept(f)
    BY <1>g, <2>1, QuietSame, SameKept
  <2> QED BY <2>2, <2>3 DEF Accounted
<1>7. CASE FiberEnd(t)
  <2>1. /\ At(t) = "run" /\ Moves(t, "switch")
        /\ UNCHANGED <<m_tasks, slot, cbs, timers>>
    BY <1>7, FiberControl DEF IInv, FiberEnd
  <2>2. /\ \A k \in Places \ {"running"} : Part(f, k)' = Part(f, k)
        /\ Part(f, "running")' = Part(f, "running") \ {t}
    BY <1>m, <2>1, PlaceFrame DEF Places
  <2>3. CASE f = fiber[t]
    <3>1. Live(f) /\ ~Live(f)'
      BY <1>7, <1>g, <1>h, <2>3 DEF Live, FiberEnd, IInv, TypeOK
    <3>2. One(f) => None(f)'
      BY <1>h, <2>1, <2>2, <2>3, MadeAndUsed DEF Places
    <3> QED BY <3>1, <3>2 DEF Accounted
  <2>4. CASE f # fiber[t]
    <3>1. Live(f)' <=> Live(f)
      BY <1>7, <2>4 DEF Live, FiberEnd, IInv, TypeOK
    <3>2. Same(f)
      BY <1>h, <2>2, <2>4 DEF Same, Places
    <3> QED BY <3>1, <3>2, SameKept DEF Accounted
  <2> QED BY <2>3, <2>4
<1> QED BY <1>1, <1>2, <1>3, <1>4, <1>5, <1>6, <1>7 DEF FiberStep

\* In the idle loop a thread has no claim of its own, and gains none.
LEMMA IdlePlaces ==
  ASSUME IInv, CInv, NEW t \in Threads, IdleStep(t), NEW f
  PROVE  /\ Part(f, "taken")' = Part(f, "taken")
         /\ Part(f, "running")' = Part(f, "running")
         /\ UNCHANGED <<task, fiber, fstate>>
<1> USE DEF runVars, fiberVars
<1>1. UNCHANGED <<task, fiber, fstate>>
  BY DEF IdleStep, CheckTimers, CheckPending, Ask, CheckStopping, EpollWait, ListExpired,
    ScheduleExpired, DrainPipe, TriggerEvent, DropPending, LeaveIdle
<1>2. PICK l \in IdleLabels \cup {"take"} : Moves(t, l)
  BY IdleControl DEF IInv, IdleStep, IdleLabels
<1>3. At(t) \in IdleLabels
  BY IdleControl DEF IInv, IdleStep, IdleLabels
<1>4. t \notin Part(f, "taken") /\ t \notin Part(f, "running")
  BY <1>3, InPlace DEF IdleLabels
<1>5. /\ Part(f, "taken")' = Part(f, "taken") \ {t}
      /\ Part(f, "running")' = Part(f, "running") \ {t}
  BY <1>1, <1>2, MovePlaces DEF IdleLabels
<1> QED BY <1>1, <1>4, <1>5

\* Expired timers go to the batch of the thread that found them, from there to
\* the queue; reported events go to the queue.
LEMMA IdleAccounted ==
  ASSUME IInv, CInv, WInv, NEW t \in Threads, IdleStep(t), NEW f \in Fibers
  PROVE  Accounted(f)
<1> USE DEF runVars, fiberVars, waitVars, pipeVars, idleVars, stopVars, bounds, ioVars
<1>p. /\ Part(f, "taken")' = Part(f, "taken") /\ Part(f, "running")' = Part(f, "running")
      /\ Live(f)' <=> Live(f)
  BY IdlePlaces DEF Live
<1>c. cbs \in [Threads -> SUBSET Fibers] /\ slot \in [Slots -> Tasks \cup {NoTask}]
  BY DEF IInv, TypeOK
<1>1. CASE ListExpired(t)
  <2>1. PICK E \in SUBSET timers : timers' = timers \ E /\ cbs' = [cbs EXCEPT ![t] = E]
    BY <1>1 DEF ListExpired
  <2>2. UNCHANGED <<m_tasks, slot>> /\ cbs[t] = {}
    BY <1>1, IdleControl DEF ListExpired, IInv, WInv
  <2>3. Part(f, "timer")' = IF f \in E THEN Part(f, "timer") \ {f} ELSE Part(f, "timer")
    BY <2>1 DEF Part
  <2>4. Part(f, "expired")' = IF f \in E THEN Part(f, "expired") \cup {t} ELSE Part(f, "expired")
    <3>1. /\ Part(f, "expired")' = {u \in Threads : f \in cbs'[u]}
          /\ Part(f, "expired") = {u \in Threads : f \in cbs[u]}
      BY DEF Part
    <3>2. cbs'[t] = E /\ \A u \in Threads \ {t} : cbs'[u] = cbs[u]
      BY <1>c, <2>1
    <3> HIDE DEF Part
    <3> QED BY <2>2, <3>1, <3>2
  <2>5. CASE f \in E
    <3>1. f \in Part(f, "timer")
      BY <2>1, <2>5 DEF Part
    <3>2. /\ Part(f, "timer")' = Part(f, "timer") \ {f}
          /\ Part(f, "expired")' = Part(f, "expired") \cup {t}
          /\ \A k \in Places \ {"timer", "expired"} : Part(f, k)' = Part(f, k)
      BY <1>p, <2>2, <2>3, <2>4, <2>5, PlaceFrame DEF Places
    <3>3. Kept(f)
      BY <3>1, <3>2, ExchangeKept, Zenon DEF Places
    <3> QED BY <1>p, <3>3 DEF Accounted
  <2>6. CASE f \notin E
    <3>1. Same(f)
      BY <1>p, <2>2, <2>3, <2>4, <2>6, PlaceFrame DEF Same, Places
    <3> QED BY <1>p, <3>1, SameKept DEF Accounted
  <2> QED BY <2>5, <2>6
<1>2. CASE ScheduleExpired(t)
  <2>1. PICK g \in cbs[t] : /\ cbs' = [cbs EXCEPT ![t] = @ \ {g}]
                            /\ ScheduleLock(t, WakeTask(g), "events")
    BY <1>2 DEF ScheduleExpired
  <2>2. UNCHANGED <<timers, slot>> /\ g \in Fibers /\ WakeTask(g) \in Tasks
    BY <1>2, <1>c, TaskMembers DEF ScheduleExpired
  <2>3. Part(f, "queued")' = IF f = g THEN Part(f, "queued") \cup {Len(m_tasks) + 1}
                                      ELSE Part(f, "queued")
    BY <2>1, <2>2, QueuePlace, NamesApart DEF IInv
  <2>4. Part(f, "expired")' = IF f = g THEN Part(f, "expired") \ {t} ELSE Part(f, "expired")
    <3>1. /\ Part(f, "expired")' = {u \in Threads : f \in cbs'[u]}
          /\ Part(f, "expired") = {u \in Threads : f \in cbs[u]}
      BY DEF Part
    <3>2. cbs'[t] = cbs[t] \ {g} /\ \A u \in Threads \ {t} : cbs'[u] = cbs[u]
      BY <1>c, <2>1
    <3> HIDE DEF Part
    <3> QED BY <3>1, <3>2
  <2>5. CASE f = g
    <3>1. t \in Part(f, "expired")
      BY <2>1, <2>5 DEF Part
    <3>2. /\ Part(f, "expired")' = Part(f, "expired") \ {t}
          /\ Part(f, "queued")' = Part(f, "queued") \cup {Len(m_tasks) + 1}
          /\ \A k \in Places \ {"expired", "queued"} : Part(f, k)' = Part(f, k)
      BY <1>p, <2>2, <2>3, <2>4, <2>5, PlaceFrame DEF Places
    <3>3. Kept(f)
      BY <3>1, <3>2, ExchangeKept, Zenon DEF Places
    <3> QED BY <1>p, <3>3 DEF Accounted
  <2>6. CASE f # g
    <3>1. Same(f)
      BY <1>p, <2>2, <2>3, <2>4, <2>6, PlaceFrame DEF Same, Places
    <3> QED BY <1>p, <3>1, SameKept DEF Accounted
  <2> QED BY <2>5, <2>6
<1>3. CASE TriggerEvent(t) /\ ~UNCHANGED <<m_tasks, slot>>
  <2>1. PICK s \in ready[t] \ {Wakeup} : slot[s] # NoTask /\ Deliver(t, s)
    BY <1>3 DEF TriggerEvent
  <2>2. /\ s \in Slots /\ slot[s] \in Tasks /\ slot[s].kind # "wake"
        /\ slot' = [slot EXCEPT ![s] = NoTask]
        /\ ScheduleLock(t, slot[s], "triggered") /\ UNCHANGED <<timers, cbs>>
    BY <1>3, <1>c, <2>1 DEF TriggerEvent, Deliver, Clear, WInv, IInv, TypeOK
  <2>3. slot[s] \in Names(f) <=> slot[s] = FiberTask(f)
    BY <2>2 DEF Names, FiberTask, WakeTask
  <2>4. Part(f, "queued")' = IF slot[s] = FiberTask(f)
                             THEN Part(f, "queued") \cup {Len(m_tasks) + 1}
                             ELSE Part(f, "queued")
    BY <2>2, <2>3, QueuePlace DEF IInv
  <2>5. Part(f, "registered")' = Part(f, "registered") \ {s}
    <3>1. /\ Part(f, "registered")' = {r \in Slots : slot'[r] = FiberTask(f)}
          /\ Part(f, "registered") = {r \in Slots : slot[r] = FiberTask(f)}
      BY DEF Part, FiberTask
    <3>2. /\ slot'[s] = NoTask /\ NoTask # FiberTask(f)
          /\ \A r \in Slots \ {s} : slot'[r] = slot[r]
      BY <1>c, <2>2 DEF NoTask, FiberTask
    <3> HIDE DEF Part
    <3> QED BY <3>1, <3>2
  <2>6. s \in Part(f, "registered") <=> slot[s] = FiberTask(f)
    BY <2>2 DEF Part
  <2>7. CASE slot[s] = FiberTask(f)
    <3>1. /\ s \in Part(f, "registered")
          /\ Part(f, "registered")' = Part(f, "registered") \ {s}
          /\ Part(f, "queued")' = Part(f, "queued") \cup {Len(m_tasks) + 1}
          /\ \A k \in Places \ {"registered", "queued"} : Part(f, k)' = Part(f, k)
      BY <1>p, <2>2, <2>4, <2>5, <2>6, <2>7, PlaceFrame DEF Places
    <3>2. Kept(f)
      BY <3>1, ExchangeKept, Zenon DEF Places
    <3> QED BY <1>p, <3>2 DEF Accounted
  <2>8. CASE slot[s] # FiberTask(f)
    <3>1. Part(f, "registered")' = Part(f, "registered")
      BY <2>5, <2>6, <2>8
    <3>2. Same(f)
      BY <1>p, <2>2, <2>4, <2>8, <3>1, PlaceFrame DEF Same, Places
    <3> QED BY <1>p, <3>2, SameKept DEF Accounted
  <2> QED BY <2>7, <2>8
<1>4. CASE \/ TriggerEvent(t) /\ UNCHANGED <<m_tasks, slot>>
           \/ ~(ListExpired(t) \/ ScheduleExpired(t) \/ TriggerEvent(t))
  <2>1. UNCHANGED <<m_tasks, slot, timers, cbs>>
    BY <1>4 DEF IdleStep, CheckTimers, CheckPending, Ask, CheckStopping, EpollWait,
      DrainPipe, TriggerEvent, DropPending, LeaveIdle
  <2>2. Same(f)
    BY <1>p, <2>1, PlaceFrame DEF Same, Places
  <2> QED BY <1>p, <2>2, SameKept DEF Accounted
<1> QED BY <1>1, <1>2, <1>3, <1>4

\* The owner posts: a new fiber comes with its first claim.
LEMMA RootAccounted ==
  ASSUME IInv, CInv, PostStep \/ Stop \/ StopStep, NEW f \in Fibers
  PROVE  Accounted(f)
<1> USE DEF runVars, fiberVars, waitVars, pipeVars, idleVars, stopVars, bounds, ioVars
<1>r. Root \in Threads
  BY DEF Threads
<1>u. /\ At(Root) \in {"user", "stop", "exit"} /\ UNCHANGED <<task, fiber, timers, cbs>>
      /\ \E l \in {"user", "stop", "exit", "stopped", "take"} : Moves(Root, l)
  BY RootControl DEF IInv, PostStep, StopStep, PostCb, PostFiber, PostEvent, Stop,
    StopTickle, StopRun, Join
<1>p. Part(f, "taken")' = Part(f, "taken") /\ Part(f, "running")' = Part(f, "running")
  <2>1. /\ Part(f, "taken")' = Part(f, "taken") \ {Root}
        /\ Part(f, "running")' = Part(f, "running") \ {Root}
    BY <1>r, <1>u, MovePlaces
  <2>2. Root \notin Part(f, "taken") /\ Root \notin Part(f, "running")
    BY <1>r, <1>u, InPlace
  <2> QED BY <2>1, <2>2
<1>1. CASE PostCb
  <2>1. PICK th \in Pins : ScheduleLock(Root, CbTask(th), "user")
    BY <1>1 DEF PostCb
  <2>2. CbTask(th) \in Tasks /\ CbTask(th) \notin Names(f)
    BY SchedulerAssumption, TaskMembers, NamesApart
  <2>3. Part(f, "queued")' = Part(f, "queued")
    BY <2>1, <2>2, QueuePlace DEF IInv
  <2>4. UNCHANGED <<slot, fstate>>
    BY <1>1 DEF PostCb
  <2>5. Same(f)
    BY <1>u, <1>p, <2>3, <2>4, PlaceFrame DEF Same, Places
  <2>6. Live(f)' <=> Live(f)
    BY <2>4 DEF Live
  <2> QED BY <2>5, <2>6, SameKept DEF Accounted
<1>2. CASE PostFiber
  <2>1. PICK g \in Fibers : /\ fstate[g] = "NONE"
                            /\ fstate' = [fstate EXCEPT ![g] = "READY"]
                            /\ ScheduleLock(Root, FiberTask(g), "user")
    BY <1>2 DEF PostFiber
  <2>2. UNCHANGED slot /\ FiberTask(g) \in Tasks
    BY <1>2, TaskMembers DEF PostFiber
  <2>3. Part(f, "queued")' = IF f = g THEN Part(f, "queued") \cup {Len(m_tasks) + 1}
                                      ELSE Part(f, "queued")
    BY <2>1, <2>2, QueuePlace, NamesApart DEF IInv
  <2>4. CASE f = g
    <3>1. ~Live(f) /\ Live(f)'
      BY <2>1, <2>4 DEF Live, IInv, TypeOK
    <3>2. /\ Part(f, "queued")' = Part(f, "queued") \cup {Len(m_tasks) + 1}
          /\ \A k \in Places \ {"queued"} : Part(f, k)' = Part(f, k)
      BY <1>u, <1>p, <2>2, <2>3, <2>4, PlaceFrame DEF Places
    <3>3. ~None(f)' /\ (None(f) => One(f)')
      BY <3>2, MadeAndUsed, Zenon DEF Places
    <3> QED BY <3>1, <3>3 DEF Accounted
  <2>5. CASE f # g
    <3>1. Live(f)' <=> Live(f)
      BY <2>1, <2>5 DEF Live, IInv, TypeOK
    <3>2. Same(f)
      BY <1>u, <1>p, <2>2, <2>3, <2>5, PlaceFrame DEF Same, Places
    <3> QED BY <3>1, <3>2, SameKept DEF Accounted
  <2> QED BY <2>4, <2>5
<1>3. CASE PostEvent
  <2>1. PICK s \in Slots : slot[s] = NoTask /\ slot' = [slot EXCEPT ![s] = CbTask(AnyThread)]
    BY <1>3 DEF PostEvent
  <2>2. UNCHANGED <<m_tasks, fstate>>
    BY <1>3 DEF PostEvent
  <2>3. Part(f, "registered")' = Part(f, "registered")
    <3>1. /\ Part(f, "registered")' = {r \in Slots : slot'[r] = FiberTask(f)}
          /\ Part(f, "registered") = {r \in Slots : slot[r] = FiberTask(f)}
      BY DEF Part, FiberTask
    <3>2. /\ slot'[s] = CbTask(AnyThread)
          /\ NoTask # FiberTask(f) /\ CbTask(AnyThread) # FiberTask(f)
          /\ \A r \in Slots \ {s} : slot'[r] = slot[r]
      BY <2>1 DEF IInv, TypeOK, NoTask, FiberTask, CbTask
    <3> HIDE DEF Part
    <3> QED BY <2>1, <3>1, <3>2
  <2>4. Same(f)
    BY <1>u, <1>p, <2>2, <2>3, PlaceFrame DEF Same, Places
  <2>5. Live(f)' <=> Live(f)
    BY <2>2 DEF Live
  <2> QED BY <2>4, <2>5, SameKept DEF Accounted
<1>4. CASE Stop \/ StopStep
  <2>1. UNCHANGED <<m_tasks, slot, fstate>>
    BY <1>4 DEF Stop, StopStep, StopTickle, StopRun, Join
  <2>2. Same(f)
    BY <1>u, <1>p, <2>1, PlaceFrame DEF Same, Places
  <2>3. Live(f)' <=> Live(f)
    BY <2>1 DEF Live
  <2> QED BY <2>2, <2>3, SameKept DEF Accounted
<1> QED BY <1>1, <1>2, <1>3, <1>4 DEF PostStep

-----------------------------------------------------------------------------
(* Where expired callbacks and timers' callbacks can be. *)

\* A step that takes up no expired callbacks keeps WInv: it holds none outside
\* the loop over events, and puts no timer's callback into a slot.
LEMMA WakeFrame ==
  ASSUME WInv, NEW t \in Threads, NEW l, Moves(t, l), UNCHANGED cbs,
         At(t) = "events" => l = "events" \/ cbs[t] = {},
         \A s \in Slots : slot'[s] = slot[s] \/ slot'[s].kind # "wake"
  PROVE  WInv'
<1>1. ASSUME NEW u \in Threads, At(u)' # "events" PROVE cbs'[u] = {}
  <2>1. CASE u = t
    BY <1>1, <2>1 DEF WInv, Moves
  <2>2. CASE u # t
    BY <1>1, <2>2 DEF WInv, Moves
  <2> QED BY <2>1, <2>2
<1>2. \A s \in Slots : slot'[s].kind # "wake"
  BY DEF WInv
<1> QED BY <1>1, <1>2 DEF WInv

\* Threads take expired callbacks into a batch and empty it in the same pass.
LEMMA WakeThread ==
  ASSUME IInv, WInv, NEW t \in Threads, ThreadStep(t)
  PROVE  WInv'
<1> USE DEF runVars, fiberVars, waitVars, pipeVars, idleVars, stopVars, bounds, ioVars
<1>c. cbs \in [Threads -> SUBSET Fibers] /\ slot \in [Slots -> Tasks \cup {NoTask}]
  BY DEF IInv, TypeOK
<1>1. CASE Tickle(t)
  <2>1. PICK l \in Labels : l = At(t) /\ Moves(t, l)
    BY <1>1 DEF IInv, TypeOK, ReturnKnown, Tickle, Moves, At, Labels
  <2>2. UNCHANGED <<cbs, slot>>
    BY <1>1 DEF Tickle
  <2> QED BY <2>1, <2>2, WakeFrame
<1>2. CASE RunStep(t) /\ ~Tickle(t)
  <2>1. At(t) # "events" /\ \E l : Moves(t, l)
    BY <1>2, RunControl DEF IInv, RunStep
  <2>2. UNCHANGED <<cbs, slot>>
    BY <1>2 DEF RunStep, TakeTask, TakeNothing, LockFiber, CreateFiber, RunWake, Resume,
      SwitchBack, Release, EnterIdle
  <2> QED BY <2>1, <2>2, WakeFrame
<1>3. CASE FiberStep(t)
  <2>1. At(t) # "events" /\ \E l : Moves(t, l)
    BY <1>3, FiberControl DEF IInv, FiberStep
  <2>2. UNCHANGED cbs
    BY <1>3 DEF FiberStep, FiberPost, FiberReschedule, FiberSleep, FiberAddEvent, FiberYield,
      FiberEnd
  <2>3. \A s \in Slots : slot'[s] = slot[s] \/ slot'[s].kind # "wake"
    <3>1. CASE FiberAddEvent(t)
      BY <1>c, <3>1 DEF FiberAddEvent, FiberTask
    <3>2. CASE ~FiberAddEvent(t)
      BY <1>3, <3>2 DEF FiberStep, FiberPost, FiberReschedule, FiberSleep, FiberYield, FiberEnd
    <3> QED BY <3>1, <3>2
  <2> QED BY <2>1, <2>2, <2>3, WakeFrame
<1>4. CASE ListExpired(t)
  <2>1. PICK E \in SUBSET timers : cbs' = [cbs EXCEPT ![t] = E]
    BY <1>4 DEF ListExpired
  <2>2. Moves(t, "events") /\ UNCHANGED slot
    BY <1>4, IdleControl DEF IInv, ListExpired
  <2>3. \A u \in Threads : At(u)' # "events" => u # t /\ cbs'[u] = cbs[u] /\ At(u) # "events"
    BY <1>c, <2>1, <2>2 DEF Moves
  <2> QED BY <2>2, <2>3 DEF WInv
<1>5. CASE ScheduleExpired(t)
  <2>1. PICK g \in cbs[t] : cbs' = [cbs EXCEPT ![t] = @ \ {g}]
    BY <1>5 DEF ScheduleExpired
  <2>2. Moves(t, "events") /\ UNCHANGED slot
    BY <1>5, IdleControl DEF IInv, ScheduleExpired
  <2>3. \A u \in Threads : At(u)' # "events" => u # t /\ cbs'[u] = cbs[u] /\ At(u) # "events"
    BY <1>c, <2>1, <2>2 DEF Moves
  <2> QED BY <2>2, <2>3 DEF WInv
<1>6. CASE TriggerEvent(t)
  <2>1. PICK l \in {"events", "triggered"} : Moves(t, l)
    BY <1>6, IdleControl DEF IInv
  <2>2. cbs[t] = {} /\ UNCHANGED cbs
    BY <1>6 DEF TriggerEvent
  <2>3. \A s \in Slots : slot'[s] = slot[s] \/ slot'[s].kind # "wake"
    BY <1>6, <1>c DEF TriggerEvent, Deliver, Clear, NoTask, IInv, TypeOK
  <2> QED BY <2>1, <2>2, <2>3, WakeFrame
<1>7. CASE IdleStep(t) /\ ~(ListExpired(t) \/ ScheduleExpired(t) \/ TriggerEvent(t))
  <2>1. UNCHANGED <<cbs, slot>>
    BY <1>7 DEF IdleStep, CheckTimers, CheckPending, Ask, CheckStopping, EpollWait,
      DrainPipe, DropPending, LeaveIdle
  <2>2. \E l : Moves(t, l) /\ (At(t) = "events" => l = "events" \/ cbs[t] = {})
    BY <1>7, IdleControl DEF IInv, IdleStep, LeaveIdle
  <2> QED BY <2>1, <2>2, WakeFrame
<1> QED BY <1>1, <1>2, <1>3, <1>4, <1>5, <1>6, <1>7 DEF ThreadStep

\* The owner has no batch and registers callbacks only.
LEMMA WakeRoot ==
  ASSUME IInv, WInv, PostStep \/ Stop \/ StopStep
  PROVE  WInv'
<1> USE DEF runVars, fiberVars, waitVars, pipeVars, idleVars, stopVars, bounds, ioVars
<1>1. Root \in Threads /\ At(Root) # "events" /\ \E l : Moves(Root, l)
  BY RootControl DEF IInv, PostStep, StopStep, Threads
<1>2. UNCHANGED cbs
  BY DEF PostStep, StopStep, PostCb, PostFiber, PostEvent, Stop, StopTickle, StopRun, Join
<1>3. \A s \in Slots : slot'[s] = slot[s] \/ slot'[s].kind # "wake"
  <2>1. CASE PostEvent
    BY <2>1 DEF PostEvent, CbTask, IInv, TypeOK
  <2>2. CASE ~PostEvent
    BY <2>2 DEF PostStep, StopStep, PostCb, PostFiber, Stop, StopTickle, StopRun, Join
  <2> QED BY <2>1, <2>2
<1> QED BY <1>1, <1>2, <1>3, WakeFrame

\* No batch and no registration at first.
LEMMA WakeInit == Init => WInv
BY DEF Init, WInv, NoTask

\* Both together.
LEMMA WakeStep == IInv /\ WInv /\ [Next]_vars => WInv'
<1> SUFFICES ASSUME IInv, WInv, [Next]_vars PROVE WInv'
  OBVIOUS
<1>1. CASE \E t \in Threads : ThreadStep(t)
  BY <1>1, WakeThread
<1>2. CASE PostStep \/ Stop \/ StopStep
  BY <1>2, WakeRoot
<1>3. CASE UNCHANGED vars
  BY <1>3 DEF vars, runVars, fiberVars, waitVars, pipeVars, idleVars, stopVars, bounds,
    ioVars, WInv, At
<1> QED BY <1>1, <1>2, <1>3 DEF Next, Stopped

\* Every step accounts for the claims on every fiber.
LEMMA StepAccounted ==
  ASSUME IInv, CInv, WInv, [Next]_vars, NEW f \in Fibers
  PROVE  Accounted(f)
<1>1. CASE \E t \in Threads : ThreadStep(t)
  BY <1>1, RunAccounted, FiberAccounted, IdleAccounted DEF ThreadStep
<1>2. CASE PostStep \/ Stop \/ StopStep
  BY <1>2, RootAccounted
<1>3. CASE UNCHANGED vars
  <2>1. UNCHANGED <<m_tasks, slot, cbs, timers, task, fiber, fstate, pc, ret>>
    BY <1>3 DEF vars, runVars, fiberVars, waitVars, idleVars, ioVars
  <2>2. Same(f)
    BY <2>1 DEF Same, Part, At
  <2>3. Live(f)' <=> Live(f)
    BY <2>1 DEF Live
  <2> QED BY <2>2, <2>3, SameKept DEF Accounted
<1> QED BY <1>1, <1>2, <1>3 DEF Next, Stopped

-----------------------------------------------------------------------------
(* What it gives. *)

Unforgotten == \A f \in Fibers : Live(f) => ~None(f)
Disciplined == \A f \in Fibers : IF Live(f) THEN One(f) ELSE None(f)

\* The places hold all claims there are.
LEMMA ClaimsAre ==
  ASSUME NEW f
  PROVE  /\ None(f) <=> Claims(f) = {}
         /\ One(f) => \E c : Claims(f) = {c}
<1>1. \A c : c \in Claims(f) <=> \E k \in Places : \E x \in Part(f, k) : c = <<k, x>>
  BY DEF Claims, Part, Names, Places
<1> HIDE DEF Claims, Part
<1>2. None(f) <=> Claims(f) = {}
  BY <1>1 DEF None
<1>3. ASSUME One(f) PROVE \E c : Claims(f) = {c}
  <2>1a. PICK k \in Places : \E x : Part(f, k) = {x} /\ \A j \in Places \ {k} : Part(f, j) = {}
    BY <1>3 DEF One
  <2>1. PICK x : Part(f, k) = {x} /\ \A j \in Places \ {k} : Part(f, j) = {}
    BY <2>1a
  <2>2. Claims(f) = {<<k, x>>}
    BY <1>1, <2>1
  <2> QED BY <2>2
<1> QED BY <1>2, <1>3

\* No fiber is alive at first, and none is claimed.
LEMMA WakesInit == Init => Unforgotten /\ Disciplined
<1> SUFFICES ASSUME Init, NEW f \in Fibers PROVE ~Live(f) /\ None(f)
  BY DEF Unforgotten, Disciplined
<1>1. ~Live(f)
  BY DEF Init, Live
<1>2. DOMAIN m_tasks = {}
  BY EmptySeq, LenProperties DEF Init
<1>3. \A t \in Threads : At(t) \notin {"dispatch", "resume", "run"}
  BY DEF Init, At
<1>4. \A k \in Places : Part(f, k) = {}
  BY <1>2, <1>3 DEF Init, Places, Part, NoTask, FiberTask
<1> QED BY <1>1, <1>4 DEF None

\* Of a fiber with some claim, some is left.
LEMMA UnforgottenStep == IInv /\ CInv /\ WInv /\ Unforgotten /\ [Next]_vars => Unforgotten'
<1> SUFFICES ASSUME IInv, CInv, WInv, Unforgotten, [Next]_vars, NEW f \in Fibers, Live(f)'
             PROVE  ~None(f)'
  BY DEF Unforgotten
<1>1. Accounted(f) /\ (Live(f) => ~None(f))
  BY StepAccounted DEF Unforgotten
<1> HIDE DEF Live, None, One
<1> QED BY <1>1 DEF Accounted, Kept

\* Of a fiber with one claim, one is left, and none once it has ended.
LEMMA DisciplinedStep ==
  ASSUME MaxExtra = 0
  PROVE  IInv /\ CInv /\ WInv /\ Disciplined /\ [Next]_vars => Disciplined'
<1> SUFFICES ASSUME IInv, CInv, WInv, Disciplined, [Next]_vars, NEW f \in Fibers
             PROVE  (Live(f)' => One(f)') /\ (~Live(f)' => None(f)')
  BY DEF Disciplined
<1>1. Accounted(f) /\ (Live(f) => One(f)) /\ (~Live(f) => None(f))
  BY StepAccounted DEF Disciplined
<1> HIDE DEF Live, None, One
<1> QED BY <1>1 DEF Accounted, Kept

\* No live fiber is ever without a claim: from the moment it is constructed until
\* its function returns there is a task, a timer, an event, a batch of idle() or a
\* thread that will resume it or is running it, even if it schedules itself again
\* while it runs.
THEOREM NoLost == Spec => []NoLostFiber
<1>1. Unforgotten => NoLostFiber
  BY ClaimsAre DEF Unforgotten, NoLostFiber, Live
<1> QED BY <1>1, Inductive, CountInit, CountStep, WakeInit, WakeStep, WakesInit,
      UnforgottenStep, PTL DEF Spec

\* With one wake-up arranged per suspension, which MaxExtra = 0 says of the fibers,
\* a live fiber has exactly one claim, so no wait ends twice, and one that has
\* ended has none, so LockFiber never finds a fiber that is TERM.
THEOREM OneWake ==
  ASSUME MaxExtra = 0
  PROVE  Spec => []ExactlyOneWake
<1>1. Disciplined => ExactlyOneWake
  <2> SUFFICES ASSUME Disciplined, NEW f \in Fibers
               PROVE  Cardinality(Claims(f)) = IF Live(f) THEN 1 ELSE 0
    BY DEF ExactlyOneWake, Live
  <2>1. CASE Live(f)
    <3>1. PICK c : Claims(f) = {c}
      BY <2>1, ClaimsAre DEF Disciplined
    <3> QED BY <2>1, <3>1, FS_Singleton
  <2>2. CASE ~Live(f)
    BY <2>2, ClaimsAre, FS_EmptySet DEF Disciplined
  <2> QED BY <2>1, <2>2
<1> QED BY <1>1, Inductive, CountInit, CountStep, WakeInit, WakeStep, WakesInit,
      DisciplinedStep, PTL DEF Spec

-----------------------------------------------------------------------------
(* Scheduler implements Coroutines.  With Disciplined, a fiber that waits,  *)
(* in the abstract, has its one claim with a timer or an event; one that is *)
(* ready has it in a batch, in the queue or with the thread that took it.   *)

CbQueued == {i \in DOMAIN m_tasks : m_tasks[i].kind = "cb"}
CbTaken  == {t \in Threads : At(t) = "dispatch" /\ task[t].kind = "cb"}

\* tickle() never returns into a stop() that is over.
NoReturn == ret[Root] # "stopped"

RInv == IInv /\ CInv /\ WInv /\ StopInv /\ Disciplined /\ NoReturn

Over == pc[Root] = "stopped"

\* What a program can see, before and after a step.
StateSame(f) == StateOf(f)' = StateOf(f)
OnSame       == \A t \in Threads : RunningOn(t)' = RunningOn(t)
OverSame     == Over' <=> Over

\* Two claims of a fiber with one are the same.
LEMMA OneClaim ==
  ASSUME NEW f, One(f), NEW k \in Places, NEW x \in Part(f, k)
  PROVE  Part(f, k) = {x} /\ \A j \in Places \ {k} : Part(f, j) = {}
BY DEF One

\* A fiber that waits, or runs, in terms of its claims.
LEMMA SeenClaims ==
  ASSUME NEW f
  PROVE  /\ WaitsFor(f) <=> Part(f, "timer") # {} \/ Part(f, "registered") # {}
         /\ \A t \in Threads : RunningOn(t) = f /\ f # NoFiber => t \in Part(f, "running")
BY DEF WaitsFor, RunningOn, Part

\* A fiber looks the same if it is as alive, as running and as waiting as before.
LEMMA StateFrame ==
  ASSUME NEW f,
         fstate'[f] = fstate[f] \/ (Live(f) /\ Live(f)'),
         (\E t \in Threads : RunningOn(t) = f) <=> (\E t \in Threads : RunningOn(t)' = f),
         WaitsFor(f)' <=> WaitsFor(f)
  PROVE  StateSame(f)
BY DEF StateSame, StateOf, Live

\* The states of a fiber one at a time.
LEMMA StateCases ==
  ASSUME NEW f
  PROVE  /\ fstate[f] = "NONE" => StateOf(f) = "absent"
         /\ fstate[f] = "TERM" => StateOf(f) = "ended"
         /\ Live(f) => StateOf(f) = IF \E t \in Threads : RunningOn(t) = f THEN "running"
                                    ELSE IF WaitsFor(f) THEN "waiting" ELSE "ready"
BY DEF StateOf, Live

\* A thread moves: what the threads are seen to run.
LEMMA OnFrame ==
  ASSUME NEW t \in Threads, NEW l, Moves(t, l),
         \A u \in Threads \ {t} : fiber'[u] = fiber[u]
  PROVE  /\ RunningOn(t)' = IF l = "run" THEN fiber'[t] ELSE NoFiber
         /\ \A u \in Threads \ {t} : RunningOn(u)' = RunningOn(u)
BY DEF RunningOn, Moves

\* The callbacks not started are finitely many.
LEMMA CbFinite ==
  ASSUME TypeOK
  PROVE  /\ IsFiniteSet(CbQueued) /\ IsFiniteSet(CbTaken)
         /\ Cardinality(CbQueued) \in Nat /\ Cardinality(CbTaken) \in Nat
         /\ Unstarted = Cardinality(CbQueued) + Cardinality(CbTaken)
         /\ Unstarted \in Nat
<1>1. DOMAIN m_tasks = 1..Len(m_tasks) /\ Len(m_tasks) \in Nat
  BY LenProperties DEF TypeOK
<1>2. IsFiniteSet(1..Len(m_tasks))
  BY <1>1, FS_Interval
<1>3. IsFiniteSet(Threads)
  BY SchedulerAssumption, FS_AddElement DEF Threads
<1>4. CbQueued \in SUBSET (1..Len(m_tasks)) /\ CbTaken \in SUBSET Threads
  BY <1>1 DEF CbQueued, CbTaken
<1>5. IsFiniteSet(CbQueued) /\ IsFiniteSet(CbTaken)
  BY <1>2, <1>3, <1>4, FS_Subset
<1>6. Cardinality(CbQueued) \in Nat /\ Cardinality(CbTaken) \in Nat
  BY <1>5, FS_CardinalityType
<1>7. Unstarted = Cardinality(CbQueued) + Cardinality(CbTaken)
  BY DEF Unstarted, CbQueued, CbTaken
<1> HIDE DEF CbQueued, CbTaken
<1> QED BY <1>5, <1>6, <1>7

\* A push counts if it is of a callback.
LEMMA CbPush ==
  ASSUME TypeOK, NEW t, NEW tk \in Tasks, NEW l, ScheduleLock(t, tk, l)
  PROVE  CbQueued' = IF tk.kind = "cb" THEN CbQueued \cup {Len(m_tasks) + 1} ELSE CbQueued
<1>1. m_tasks \in Seq(Tasks) /\ m_tasks' = Append(m_tasks, tk)
  BY DEF TypeOK, ScheduleLock
<1>2. /\ Len(m_tasks) \in Nat
      /\ DOMAIN m_tasks = 1..Len(m_tasks) /\ DOMAIN m_tasks' = 1..(Len(m_tasks) + 1)
      /\ \A i \in 1..Len(m_tasks) : m_tasks'[i] = m_tasks[i]
      /\ m_tasks'[Len(m_tasks) + 1] = tk
  BY <1>1, AppendProperties, LenProperties
<1> QED BY <1>2 DEF CbQueued

\* A thread moves: whether it holds a callback it has not started.
LEMMA CbMove ==
  ASSUME NEW t \in Threads, NEW l, Moves(t, l),
         \A u \in Threads \ {t} : task'[u] = task[u]
  PROVE  CbTaken' = IF l = "dispatch" /\ task'[t].kind = "cb" THEN CbTaken \cup {t}
                                                              ELSE CbTaken \ {t}
<1>1. At(t)' = l /\ \A u \in Threads \ {t} : At(u)' = At(u)
  BY DEF Moves
<1>2. CbTaken' = {u \in Threads : At(u)' = "dispatch" /\ task'[u].kind = "cb"}
  BY DEF CbTaken
<1> QED BY <1>1, <1>2 DEF CbTaken

\* How the number of callbacks accepted and not started follows.
LEMMA Counted ==
  ASSUME TypeOK, TypeOK', NEW t \in Threads
  PROVE  /\ CbQueued' = CbQueued /\ CbTaken' = CbTaken => Unstarted' = Unstarted
         /\ CbQueued' = CbQueued /\ CbTaken' = CbTaken \ {t} /\ t \in CbTaken
              => Unstarted' = Unstarted - 1 /\ Unstarted' \in Nat
         /\ CbQueued' = CbQueued \cup {Len(m_tasks) + 1} /\ CbTaken' = CbTaken
              => Unstarted' = Unstarted + 1
<1>1. /\ Unstarted = Cardinality(CbQueued) + Cardinality(CbTaken)
      /\ IsFiniteSet(CbQueued) /\ IsFiniteSet(CbTaken)
      /\ Cardinality(CbQueued) \in Nat /\ Cardinality(CbTaken) \in Nat
  BY CbFinite
<1>2. Unstarted' = Cardinality(CbQueued') + Cardinality(CbTaken')
  BY DEF Unstarted, CbQueued, CbTaken
<1>3. Len(m_tasks) + 1 \notin CbQueued
  BY LenProperties DEF TypeOK, CbQueued
<1> HIDE DEF CbQueued, CbTaken
<1>4. Cardinality(CbQueued \cup {Len(m_tasks) + 1}) = Cardinality(CbQueued) + 1
  BY <1>1, <1>3, AddOne
<1>5. t \in CbTaken => Cardinality(CbTaken \ {t}) = Cardinality(CbTaken) - 1
  BY <1>1, RemoveOne
<1>6. ASSUME CbQueued' = CbQueued, CbTaken' = CbTaken PROVE Unstarted' = Unstarted
  BY <1>1, <1>2, <1>6
<1>7. ASSUME CbQueued' = CbQueued, CbTaken' = CbTaken \ {t}, t \in CbTaken
      PROVE  Unstarted' = Unstarted - 1 /\ Unstarted' \in Nat
  <2>1. Cardinality(CbTaken \ {t}) \in Nat
    BY <1>1, <1>7, FS_RemoveElement, FS_CardinalityType
  <2> QED BY <1>1, <1>2, <1>5, <1>7, <2>1
<1>8. ASSUME CbQueued' = CbQueued \cup {Len(m_tasks) + 1}, CbTaken' = CbTaken
      PROVE  Unstarted' = Unstarted + 1
  BY <1>1, <1>2, <1>4, <1>8
<1> QED BY <1>6, <1>7, <1>8

-----------------------------------------------------------------------------
(* The steps of Coroutines, from what a step of Scheduler lets be seen. *)

AllSame(S) == \A f \in S : StateSame(f)

\* A stutter.
LEMMA SeeNothing ==
  ASSUME AllSame(Fibers), OnSame, Unstarted' = Unstarted, OverSame
  PROVE  UNCHANGED C!vars
<1>1. [f \in Fibers |-> StateOf(f)]' = [f \in Fibers |-> StateOf(f)]
  BY DEF AllSame, StateSame
<1>2. [t \in Threads |-> RunningOn(t)]' = [t \in Threads |-> RunningOn(t)]
  BY DEF OnSame
<1>3. (pc[Root] = "stopped")' = (pc[Root] = "stopped")
  BY DEF OverSame, Over
<1> QED BY <1>1, <1>2, <1>3 DEF C!vars

\* A callback is accepted.
LEMMA SeeAccept ==
  ASSUME ~Over, OverSame, AllSame(Fibers), OnSame, Unstarted' = Unstarted + 1
  PROVE  C!Next
<1>1. [f \in Fibers |-> StateOf(f)]' = [f \in Fibers |-> StateOf(f)]
  BY DEF AllSame, StateSame
<1>2. [t \in Threads |-> RunningOn(t)]' = [t \in Threads |-> RunningOn(t)]
  BY DEF OnSame
<1>3. (pc[Root] = "stopped")' = (pc[Root] = "stopped")
  BY DEF OverSame, Over
<1>4. C!Accept
  BY <1>1, <1>2 DEF C!Accept
<1> QED BY <1>3, <1>4 DEF C!Next, C!Work, Over

\* A coroutine comes into being.
LEMMA SeeCreate ==
  ASSUME ~Over, OverSame, NEW c \in Fibers, StateOf(c) = "absent", StateOf(c)' = "ready",
         AllSame(Fibers \ {c}), OnSame,
         Unstarted' \in Nat, Unstarted' = Unstarted \/ Unstarted' = Unstarted - 1
  PROVE  C!Next
<1>1. [f \in Fibers |-> StateOf(f)]' = [[f \in Fibers |-> StateOf(f)] EXCEPT ![c] = "ready"]
  BY DEF AllSame, StateSame
<1>2. [t \in Threads |-> RunningOn(t)]' = [t \in Threads |-> RunningOn(t)]
  BY DEF OnSame
<1>3. (pc[Root] = "stopped")' = (pc[Root] = "stopped")
  BY DEF OverSame, Over
<1>4. [f \in Fibers |-> StateOf(f)][c] = "absent"
  OBVIOUS
<1>5. C!Create(c)
  BY <1>1, <1>2, <1>4 DEF C!Create, C!Become
<1> QED BY <1>3, <1>5 DEF C!Next, C!Work, Over

\* A coroutine continues.
LEMMA SeeRun ==
  ASSUME ~Over, OverSame, NEW t \in Threads, NEW c \in Fibers,
         RunningOn(t) = NoFiber, RunningOn(t)' = c,
         \A u \in Threads \ {t} : RunningOn(u)' = RunningOn(u),
         StateOf(c) = "ready", StateOf(c)' = "running", AllSame(Fibers \ {c}),
         Unstarted' = Unstarted
  PROVE  C!Next
<1>1. [f \in Fibers |-> StateOf(f)]' = [[f \in Fibers |-> StateOf(f)] EXCEPT ![c] = "running"]
  BY DEF AllSame, StateSame
<1>2. [u \in Threads |-> RunningOn(u)]' = [[u \in Threads |-> RunningOn(u)] EXCEPT ![t] = c]
  OBVIOUS
<1>3. (pc[Root] = "stopped")' = (pc[Root] = "stopped")
  BY DEF OverSame, Over
<1>4. /\ [f \in Fibers |-> StateOf(f)][c] = "ready"
      /\ [u \in Threads |-> RunningOn(u)][t] = NoFiber
  OBVIOUS
<1>5. C!Run(t, c)
  BY <1>1, <1>2, <1>4 DEF C!Run, C!Become
<1> QED BY <1>3, <1>5 DEF C!Next, C!Work, Over

\* A coroutine suspends or ends.
LEMMA SeeLeave ==
  ASSUME ~Over, OverSame, NEW t \in Threads, NEW c \in Fibers,
         RunningOn(t) = c, RunningOn(t)' = NoFiber,
         \A u \in Threads \ {t} : RunningOn(u)' = RunningOn(u),
         StateOf(c)' \in {"waiting", "ready", "ended"}, AllSame(Fibers \ {c}),
         Unstarted' = Unstarted
  PROVE  C!Next
<1>1. \E s \in {"waiting", "ready", "ended"} :
        [f \in Fibers |-> StateOf(f)]' = [[f \in Fibers |-> StateOf(f)] EXCEPT ![c] = s]
  BY DEF AllSame, StateSame
<1>2. [u \in Threads |-> RunningOn(u)]'
        = [[u \in Threads |-> RunningOn(u)] EXCEPT ![t] = NoFiber]
  OBVIOUS
<1>3. (pc[Root] = "stopped")' = (pc[Root] = "stopped")
  BY DEF OverSame, Over
<1>4. [u \in Threads |-> RunningOn(u)][t] = c /\ c # NoFiber
  BY SchedulerAssumption
<1>5. C!Leave(t)
  BY <1>1, <1>2, <1>4 DEF C!Leave, C!Become
<1> QED BY <1>3, <1>5 DEF C!Next, C!Work, Over

\* Coroutines are woken.
LEMMA SeeWake ==
  ASSUME ~Over, OverSame, NEW S \in SUBSET Fibers, S # {},
         \A c \in S : StateOf(c) = "waiting" /\ StateOf(c)' = "ready",
         AllSame(Fibers \ S), OnSame, Unstarted' = Unstarted
  PROVE  C!Next
<1>1. [f \in Fibers |-> StateOf(f)]'
        = [f \in Fibers |-> IF f \in S THEN "ready" ELSE [g \in Fibers |-> StateOf(g)][f]]
  BY DEF AllSame, StateSame
<1>2. [t \in Threads |-> RunningOn(t)]' = [t \in Threads |-> RunningOn(t)]
  BY DEF OnSame
<1>3. (pc[Root] = "stopped")' = (pc[Root] = "stopped")
  BY DEF OverSame, Over
<1>4. \A c \in S : [f \in Fibers |-> StateOf(f)][c] = "waiting"
  OBVIOUS
<1>5. C!Wake(S)
  BY <1>1, <1>2, <1>4 DEF C!Wake
<1> QED BY <1>3, <1>5 DEF C!Next, C!Work, Over

\* The pool closes.
LEMMA SeeClose ==
  ASSUME ~Over, Over', AllSame(Fibers), OnSame, Unstarted' = Unstarted, Unstarted = 0,
         \A f \in Fibers : StateOf(f) \notin {"ready", "running"}
  PROVE  C!Next
<1>1. [f \in Fibers |-> StateOf(f)]' = [f \in Fibers |-> StateOf(f)]
  BY DEF AllSame, StateSame
<1>2. [t \in Threads |-> RunningOn(t)]' = [t \in Threads |-> RunningOn(t)]
  BY DEF OnSame
<1>3. (pc[Root] = "stopped")' = TRUE
  BY DEF Over
<1>4. \A f \in Fibers : [g \in Fibers |-> StateOf(g)][f] \notin {"ready", "running"}
  OBVIOUS
<1>5. C!Close
  BY <1>1, <1>2, <1>3, <1>4 DEF C!Close
<1> QED BY <1>5 DEF C!Next, Over

-----------------------------------------------------------------------------
(* stop() is over when, and only when, Join says so. *)

Goes(t) ==
  /\ pc[t] # "stopped"
  /\ \/ UNCHANGED pc
     \/ \E l : pc' = [pc EXCEPT ![t] = l] /\ (l # "stopped" \/ l = ret[t])
  /\ \/ UNCHANGED ret
     \/ \E l : ret' = [ret EXCEPT ![t] = l] /\ l # "stopped"

\* A continuation anywhere but to the end of stop().
LEMMA CallGoes ==
  ASSUME NEW t, NEW l, l # "stopped", NEW need, pc[t] # "stopped",
         TickleIf(need, t, l) \/ Goto(t, l)
  PROVE  Goes(t)
BY DEF Goes, TickleIf, Goto

\* Then stop() is as far as it was.
LEMMA GoesOver ==
  ASSUME TypeOK, NoReturn, NEW t \in Threads, Goes(t)
  PROVE  OverSame /\ NoReturn'
<1>r. Root \in Threads
  BY DEF Threads
<1>1. ret'[Root] # "stopped"
  BY <1>r DEF Goes, NoReturn, TypeOK
<1>2. pc'[Root] = "stopped" <=> pc[Root] = "stopped"
  BY <1>r DEF Goes, NoReturn, TypeOK
<1> QED BY <1>1, <1>2 DEF OverSame, Over, NoReturn

\* The loops of run() and idle() go that way,
LEMMA ThreadGoes ==
  ASSUME NEW t \in Threads, ThreadStep(t)
  PROVE  Goes(t)
<1>1. CASE Tickle(t)
  <2>1. pc[t] # "stopped" /\ "none" # "stopped"
    BY <1>1 DEF Tickle
  <2>2. pc' = [pc EXCEPT ![t] = ret[t]] /\ ret' = [ret EXCEPT ![t] = "none"]
    BY <1>1 DEF Tickle
  <2>3. /\ \E l : pc' = [pc EXCEPT ![t] = l] /\ (l # "stopped" \/ l = ret[t])
        /\ \E l : ret' = [ret EXCEPT ![t] = l] /\ l # "stopped"
    BY <2>1, <2>2, Zenon
  <2> QED BY <2>1, <2>3, Zenon DEF Goes
<1>2. CASE RunStep(t) /\ ~Tickle(t)
  <2>1. CASE TakeTask(t) \/ TakeNothing(t)
    BY <2>1, CallGoes DEF TakeTask, TakeNothing
  <2>2. CASE RunWake(t)
    BY <2>2, CallGoes DEF RunWake, ScheduleLock
  <2>3. CASE LockFiber(t) \/ EnterIdle(t)
    BY <2>3 DEF LockFiber, EnterIdle, Goto, Goes
  <2>4. CASE CreateFiber(t) \/ Resume(t) \/ SwitchBack(t) \/ Release(t)
    BY <2>4, CallGoes DEF CreateFiber, Resume, SwitchBack, Release
  <2> QED BY <1>2, <2>1, <2>2, <2>3, <2>4 DEF RunStep
<1>3. CASE FiberStep(t)
  BY <1>3, CallGoes DEF FiberStep, FiberPost, FiberReschedule, FiberSleep, FiberAddEvent,
    FiberYield, FiberEnd, ScheduleLock
<1>4. CASE TriggerEvent(t)
  <2>1. pc[t] = "events"
    BY <1>4 DEF TriggerEvent
  <2>2. CASE UNCHANGED <<pc, ret>>
    BY <2>1, <2>2 DEF Goes
  <2>3. CASE \E s : Deliver(t, s)
    BY <2>1, <2>3, CallGoes DEF Deliver, ScheduleLock
  <2> QED BY <1>4, <2>2, <2>3 DEF TriggerEvent
<1>5. CASE IdleStep(t) /\ ~TriggerEvent(t)
  <2>1. CASE DrainPipe(t)
    BY <2>1 DEF DrainPipe, Goes
  <2>2. CASE CheckTimers(t) \/ CheckPending(t)
    BY <2>2 DEF CheckTimers, CheckPending, Ask, Goto, Goes
  <2>3. CASE CheckStopping(t)
    BY <2>3 DEF CheckStopping, Goto, Goes
  <2>4. CASE ScheduleExpired(t)
    BY <2>4, CallGoes DEF ScheduleExpired, ScheduleLock
  <2>5. CASE EpollWait(t) \/ ListExpired(t) \/ DropPending(t) \/ LeaveIdle(t)
    BY <2>5, CallGoes DEF EpollWait, ListExpired, DropPending, LeaveIdle
  <2> QED BY <1>5, <2>1, <2>2, <2>3, <2>4, <2>5 DEF IdleStep
<1> QED BY <1>1, <1>2, <1>3, <1>4, <1>5 DEF ThreadStep

\* and the owner up to the join.
LEMMA RootGoes ==
  ASSUME PostStep \/ Stop \/ StopTickle \/ StopRun
  PROVE  Goes(Root)
<1>1. CASE PostEvent \/ StopTickle
  BY <1>1 DEF PostEvent, StopTickle, Goes
<1>2. CASE PostCb \/ PostFiber \/ Stop \/ StopRun
  BY <1>2, CallGoes DEF PostCb, PostFiber, Stop, StopRun, ScheduleLock
<1> QED BY <1>1, <1>2 DEF PostStep

\* So no call of tickle() ever returns to the end of stop().
LEMMA ReturnStep == IInv /\ NoReturn /\ [Next]_vars => NoReturn'
<1> SUFFICES ASSUME IInv, NoReturn, [Next]_vars PROVE NoReturn'
  OBVIOUS
<1>1. CASE \E t \in Threads : ThreadStep(t)
  BY <1>1, ThreadGoes, GoesOver DEF IInv
<1>2. CASE PostStep \/ Stop \/ StopTickle \/ StopRun
  BY <1>2, RootGoes, GoesOver DEF IInv, Threads
<1>3. CASE Join \/ UNCHANGED vars
  BY <1>3 DEF Join, Goto, vars, NoReturn
<1> QED BY <1>1, <1>2, <1>3 DEF Next, Stopped, StopStep

-----------------------------------------------------------------------------
(* What is seen of run(). *)

\* Of a fiber of which one claim is known, all is known.
LEMMA ClaimFixes ==
  ASSUME Disciplined, NEW f \in Fibers, NEW k \in Places, NEW x \in Part(f, k)
  PROVE  Live(f) /\ Part(f, k) = {x} /\ \A j \in Places \ {k} : Part(f, j) = {}
<1> HIDE DEF Part, Places, Live
<1>1. Live(f) /\ One(f)
  BY DEF Disciplined, None
<1> QED BY <1>1, OneClaim

\* Nobody starts or stops running or waiting.
LEMMA QuietSeen ==
  ASSUME OnSame, UNCHANGED <<slot, timers>>,
         \A f \in Fibers : fstate'[f] = fstate[f] \/ (Live(f) /\ Live(f)')
  PROVE  AllSame(Fibers)
<1> SUFFICES ASSUME NEW f \in Fibers PROVE StateSame(f)
  BY DEF AllSame
<1>1. WaitsFor(f)' <=> WaitsFor(f)
  BY DEF WaitsFor
<1>2. (\E t \in Threads : RunningOn(t) = f) <=> (\E t \in Threads : RunningOn(t)' = f)
  BY DEF OnSame
<1> QED BY <1>1, <1>2, StateFrame

\* A thread moves between points at which it runs no fiber.
LEMMA QuietThread ==
  ASSUME IInv, IInv', OverSame, NEW t \in Threads, NEW l, Moves(t, l),
         (At(t) # "run" /\ l # "run") \/ (At(t) = l /\ UNCHANGED fiber),
         \A u \in Threads \ {t} : fiber'[u] = fiber[u],
         UNCHANGED <<slot, timers>>,
         \A f \in Fibers : fstate'[f] = fstate[f] \/ (Live(f) /\ Live(f)'),
         Unstarted' = Unstarted
  PROVE  UNCHANGED C!vars
<1>1. OnSame
  BY OnFrame DEF OnSame, RunningOn
<1> QED BY <1>1, QuietSeen, SeeNothing

\* A task that is taken is counted in the queue before, at the thread after.
LEMMA TakeCounted ==
  ASSUME IInv, IInv', NEW t \in Threads, TakeTask(t)
  PROVE  Unstarted' = Unstarted
<1> DEFINE n == Len(m_tasks)
<1>1. PICK i \in DOMAIN m_tasks : /\ task' = [task EXCEPT ![t] = m_tasks[i]]
                                  /\ m_tasks' = RemoveAt(m_tasks, i)
  BY DEF TakeTask
<1>2. At(t) = "take" /\ Moves(t, "dispatch")
  BY RunControl DEF IInv
<1>3. /\ m_tasks \in Seq(Tasks) /\ n \in Nat /\ DOMAIN m_tasks = 1..n /\ i \in 1..n
      /\ m_tasks[i] \in Tasks /\ task \in [Threads -> Tasks \cup {NoTask}]
  BY LenProperties DEF IInv, TypeOK
<1>4. task'[t] = m_tasks[i] /\ \A u \in Threads \ {t} : task'[u] = task[u]
  BY <1>1, <1>3
<1>5. t \notin CbTaken /\ (i \in CbQueued <=> m_tasks[i].kind = "cb")
  BY <1>2, <1>3 DEF CbTaken, CbQueued
<1>6. CbTaken' = IF m_tasks[i].kind = "cb" THEN CbTaken \cup {t} ELSE CbTaken
  <2>1. CbTaken' = IF task'[t].kind = "cb" THEN CbTaken \cup {t} ELSE CbTaken \ {t}
    BY <1>2, <1>4, CbMove
  <2> HIDE DEF CbTaken
  <2> QED BY <1>4, <1>5, <2>1
<1>7. /\ DOMAIN m_tasks' = 1..(n - 1)
      /\ \A j \in 1..(n - 1) : m_tasks'[j] = IF j < i THEN m_tasks[j] ELSE m_tasks[j+1]
  BY <1>1, <1>3, RemoveAtShifts
<1>8. /\ CbQueued' = {j \in 1..(n - 1) : m_tasks'[j].kind = "cb"}
      /\ CbQueued = {j \in 1..n : m_tasks[j].kind = "cb"}
  BY <1>3, <1>7 DEF CbQueued
<1> DEFINE rest == CbQueued \ {i}
           h == [k \in rest |-> IF k < i THEN k ELSE k - 1]
<1>9. ExistsBijection(rest, CbQueued')
  <2>1. ASSUME NEW k \in rest PROVE h[k] \in CbQueued'
    <3>0. k \in 1..n /\ k # i /\ m_tasks[k].kind = "cb"
      BY <1>8, <2>1
    <3>1. h[k] \in 1..(n - 1) /\ m_tasks'[h[k]] = m_tasks[k]
      BY <1>3, <1>7, <3>0
    <3> HIDE DEF h
    <3> QED BY <1>8, <3>0, <3>1
  <2>2. ASSUME NEW k \in rest, NEW m \in rest, h[k] = h[m] PROVE k = m
    <3>1. k \in 1..n /\ m \in 1..n /\ k # i /\ m # i
      BY <1>8
    <3> QED BY <1>3, <2>2, <3>1
  <2>3. ASSUME NEW j \in CbQueued' PROVE \E k \in rest : h[k] = j
    <3>0. j \in 1..(n - 1) /\ m_tasks'[j].kind = "cb"
      BY <1>8, <2>3
    <3>1. CASE j < i
      <4>1. j \in rest
        BY <1>3, <1>7, <1>8, <3>0, <3>1
      <4>2. h[j] = j
        BY <3>1, <4>1
      <4> QED BY <4>1, <4>2
    <3>2. CASE ~(j < i)
      <4>1. j + 1 \in rest
        BY <1>3, <1>7, <1>8, <3>0, <3>2
      <4>2. h[j + 1] = j
        BY <1>3, <3>0, <3>2, <4>1
      <4> QED BY <4>1, <4>2
    <3> QED BY <3>1, <3>2
  <2>4. h \in Bijection(rest, CbQueued')
    <3>1. h \in [rest -> CbQueued']
      BY <2>1
    <3> HIDE DEF h, rest, CbQueued
    <3> QED BY <2>2, <2>3, <3>1 DEF Bijection, Injection, Surjection, IsInjective
  <2> HIDE DEF h, rest, CbQueued
  <2> QED BY <2>4 DEF ExistsBijection
<1>10. /\ IsFiniteSet(CbQueued) /\ IsFiniteSet(CbTaken)
       /\ Cardinality(CbQueued) \in Nat /\ Cardinality(CbTaken) \in Nat
       /\ Unstarted = Cardinality(CbQueued) + Cardinality(CbTaken)
  BY CbFinite DEF IInv
<1>11. Unstarted' = Cardinality(CbQueued') + Cardinality(CbTaken')
  BY DEF Unstarted, CbQueued, CbTaken
<1> HIDE DEF CbQueued, CbTaken, h
<1>12. IsFiniteSet(rest) /\ Cardinality(CbQueued') = Cardinality(rest)
  BY <1>9, <1>10, FS_Subset, FS_Bijection
<1>13. CASE m_tasks[i].kind = "cb"
  <2>1. Cardinality(rest) = Cardinality(CbQueued) - 1
    BY <1>5, <1>10, <1>13, RemoveOne
  <2>2. Cardinality(CbTaken') = Cardinality(CbTaken) + 1
    BY <1>5, <1>6, <1>10, <1>13, AddOne
  <2> QED BY <1>10, <1>11, <1>12, <2>1, <2>2
<1>14. CASE m_tasks[i].kind # "cb"
  <2>1. rest = CbQueued /\ CbTaken' = CbTaken
    BY <1>5, <1>6, <1>14
  <2> QED BY <1>10, <1>11, <1>12, <2>1
<1> QED BY <1>13, <1>14

\* The steps that go on when the pool is empty show nothing.
LEMMA HiddenSteps ==
  ASSUME RInv, IInv', OverSame, NEW t \in Threads, Tickle(t) \/ TakeNothing(t) \/ EnterIdle(t)
  PROVE  UNCHANGED C!vars
<1> USE DEF runVars, fiberVars, waitVars, pipeVars, idleVars, stopVars, bounds, ioVars
<1>1. UNCHANGED <<m_tasks, slot, timers, task, fiber, fstate>>
  BY DEF Tickle, TakeNothing, EnterIdle
<1>2. PICK l : /\ Moves(t, l)
               /\ \/ l = At(t)
                  \/ At(t) = "take" /\ l = "dispatch" /\ task[t].kind = "none"
                  \/ At(t) = "dispatch" /\ l \in {"exit", "timers?"} /\ task[t].kind = "none"
  <2>1. CASE Tickle(t)
    <3>1. PICK l \in Labels : l = At(t) /\ Moves(t, l)
      BY <2>1 DEF RInv, IInv, TypeOK, ReturnKnown, Tickle, Moves, At, Labels
    <3> QED BY <3>1
  <2>2. CASE TakeNothing(t)
    BY <2>2, RunControl, TaskKinds DEF RInv, IInv, CInv, TaskHeld, Busy
  <2>3. CASE EnterIdle(t)
    BY <2>3, RunControl, TaskKinds DEF RInv, IInv, EnterIdle
  <2> QED BY <2>1, <2>2, <2>3
<1>3. CbQueued' = CbQueued
  BY <1>1 DEF CbQueued
<1>4. CbTaken' = CbTaken
  <2>1. CbTaken' = IF l = "dispatch" /\ task[t].kind = "cb" THEN CbTaken \cup {t}
                                                            ELSE CbTaken \ {t}
    BY <1>1, <1>2, CbMove
  <2>2. t \in CbTaken <=> l = "dispatch" /\ task[t].kind = "cb"
    BY <1>2 DEF CbTaken
  <2> HIDE DEF CbTaken
  <2> QED BY <2>1, <2>2
<1>5. Unstarted' = Unstarted
  BY <1>3, <1>4, Counted DEF RInv, IInv
<1>6. \/ At(t) # "run" /\ l # "run"
      \/ At(t) = l /\ UNCHANGED fiber
  BY <1>1, <1>2
<1> QED BY <1>1, <1>2, <1>5, <1>6, QuietThread DEF RInv

\* A fiber comes into being for a callback.
LEMMA CreateSeen ==
  ASSUME RInv, IInv', ~Over, OverSame, NEW t \in Threads, CreateFiber(t)
  PROVE  C!Next
<1> USE DEF runVars, fiberVars, waitVars, pipeVars, idleVars, stopVars, bounds, ioVars
<1>1. At(t) = "dispatch" /\ Moves(t, "resume") /\ task[t].kind = "cb"
  BY RunControl DEF RInv, IInv, CreateFiber
<1>2. PICK c \in Fibers : /\ fstate[c] = "NONE"
                          /\ fstate' = [fstate EXCEPT ![c] = "READY"]
                          /\ fiber' = [fiber EXCEPT ![t] = c]
  BY DEF CreateFiber
<1>3. /\ UNCHANGED <<m_tasks, slot, timers, task>>
      /\ \A u \in Threads \ {t} : fiber'[u] = fiber[u]
      /\ fstate'[c] = "READY" /\ \A f \in Fibers \ {c} : fstate'[f] = fstate[f]
  BY <1>2 DEF CreateFiber, RInv, IInv, TypeOK
<1>4. OnSame
  BY <1>1, <1>3, OnFrame DEF OnSame, RunningOn
<1>5. StateOf(c) = "absent"
  BY <1>2 DEF StateOf
<1>6. None(c)
  BY <1>2 DEF RInv, Disciplined, Live
<1>7. ~WaitsFor(c) /\ \A u \in Threads : RunningOn(u) # c
  BY <1>6, SeenClaims, SchedulerAssumption DEF None, Places
<1>8. StateOf(c)' = "ready"
  <2>1. ~WaitsFor(c)' /\ \A u \in Threads : RunningOn(u)' # c
    BY <1>3, <1>4, <1>7 DEF WaitsFor, OnSame
  <2> QED BY <1>3, <2>1 DEF StateOf
<1>9. AllSame(Fibers \ {c})
  <2> SUFFICES ASSUME NEW f \in Fibers \ {c} PROVE StateSame(f)
    BY DEF AllSame
  <2>1. WaitsFor(f)' <=> WaitsFor(f)
    BY <1>3 DEF WaitsFor
  <2> QED BY <1>3, <1>4, <2>1, StateFrame DEF OnSame
<1>10. Unstarted' = Unstarted - 1 /\ Unstarted' \in Nat
  <2>1. CbQueued' = CbQueued
    BY <1>3 DEF CbQueued
  <2>2. CbTaken' = CbTaken \ {t} /\ t \in CbTaken
    <3>1. t \in CbTaken
      BY <1>1 DEF CbTaken
    <3>2. CbTaken' = CbTaken \ {t}
      BY <1>1, <1>3, CbMove
    <3> QED BY <3>1, <3>2
  <2> QED BY <2>1, <2>2, Counted DEF RInv, IInv
<1> QED BY <1>4, <1>5, <1>8, <1>9, <1>10, SeeCreate

\* Fiber::resume is where a coroutine runs.
LEMMA ResumeSeen ==
  ASSUME RInv, IInv', ~Over, OverSame, NEW t \in Threads, Resume(t)
  PROVE  C!Next
<1> USE DEF runVars, fiberVars, waitVars, pipeVars, idleVars, stopVars, bounds, ioVars
<1>c. PICK c \in Fibers : c = fiber[t] /\ fstate[c] = "READY"
  <2>1. At(t) = "resume"
    BY RunControl DEF RInv, IInv
  <2> QED BY <2>1 DEF RInv, IInv, Locks, Holding
<1>1. At(t) = "resume" /\ Moves(t, "run")
  BY RunControl DEF RInv, IInv
<1>2. /\ UNCHANGED <<m_tasks, slot, timers, task, fiber>>
      /\ fstate'[c] = "RUNNING" /\ \A f \in Fibers \ {c} : fstate'[f] = fstate[f]
  BY <1>c DEF RInv, IInv, Resume, TypeOK
<1>3. RunningOn(t)' = c /\ \A u \in Threads \ {t} : RunningOn(u)' = RunningOn(u)
  BY <1>c, <1>1, <1>2, OnFrame
<1>4. RunningOn(t) = NoFiber
  BY <1>1 DEF RunningOn
<1>5. t \in Part(c, "running")
  BY <1>c, <1>1, InPlace
<1>6. ~WaitsFor(c) /\ \A u \in Threads : RunningOn(u) # c
  <2>1. /\ Part(c, "running") = {t} /\ Part(c, "timer") = {} /\ Part(c, "registered") = {}
    BY <1>2, <1>5, ClaimFixes DEF RInv, Places
  <2>2. \A u \in Threads : RunningOn(u) = c => u = t
    BY <1>2, <2>1, SeenClaims, SchedulerAssumption
  <2> QED BY <1>2, <1>4, <2>1, <2>2, SeenClaims, SchedulerAssumption
<1>7. StateOf(c) = "ready"
  BY <1>c, <1>6 DEF StateOf
<1>8. StateOf(c)' = "running"
  BY <1>2, <1>3 DEF StateOf
<1>9. AllSame(Fibers \ {c})
  <2> SUFFICES ASSUME NEW f \in Fibers \ {c} PROVE StateSame(f)
    BY DEF AllSame
  <2>1. WaitsFor(f)' <=> WaitsFor(f)
    BY <1>2 DEF WaitsFor
  <2>2. (\E u \in Threads : RunningOn(u) = f) <=> (\E u \in Threads : RunningOn(u)' = f)
    BY <1>3, <1>4, SchedulerAssumption
  <2> QED BY <1>2, <2>1, <2>2, StateFrame
<1>10. Unstarted' = Unstarted
  <2>1. CbQueued' = CbQueued
    BY <1>2 DEF CbQueued
  <2>2. CbTaken' = CbTaken
    <3>1. t \notin CbTaken
      BY <1>1 DEF CbTaken
    <3>2. CbTaken' = CbTaken \ {t}
      BY <1>1, <1>2, CbMove
    <3> QED BY <3>1, <3>2
  <2> QED BY <2>1, <2>2, Counted DEF RInv, IInv
<1> QED BY <1>2, <1>3, <1>4, <1>7, <1>8, <1>9, <1>10, SeeRun

\* The rest of run(): between the queue and resume(), and after the switch back.
LEMMA RunSeen ==
  ASSUME RInv, IInv', ~Over, OverSame, NEW t \in Threads, RunStep(t)
  PROVE  C!Next \/ UNCHANGED C!vars
<1> USE DEF runVars, fiberVars, waitVars, pipeVars, idleVars, stopVars, bounds, ioVars
<1>1. CASE TakeTask(t)
  <2>1. At(t) = "take" /\ Moves(t, "dispatch") /\ UNCHANGED <<slot, timers, fiber, fstate>>
    BY <1>1, RunControl DEF RInv, IInv, TakeTask
  <2> QED BY <1>1, <2>1, TakeCounted, QuietThread DEF RInv
<1>2. CASE LockFiber(t) \/ SwitchBack(t) \/ Release(t)
  <2>1. PICK l \in {"resume", "release", "take"} : Moves(t, l)
    BY <1>2, RunControl DEF RInv, IInv
  <2>2. At(t) # "run" /\ t \notin CbTaken
    BY <1>2, RunControl DEF RInv, IInv, CbTaken, LockFiber
  <2>3. /\ \A u \in Threads \ {t} : fiber'[u] = fiber[u] /\ task'[u] = task[u]
        /\ UNCHANGED <<m_tasks, slot, timers, fstate>>
    BY <1>2 DEF LockFiber, SwitchBack, Release, RInv, IInv, TypeOK
  <2>4. CbQueued' = CbQueued
    BY <2>3 DEF CbQueued
  <2>5. CbTaken' = CbTaken
    <3>1. CbTaken' = CbTaken \ {t}
      BY <2>1, <2>3, CbMove
    <3> QED BY <2>2, <3>1
  <2>6. Unstarted' = Unstarted
    BY <2>4, <2>5, Counted DEF RInv, IInv
  <2> QED BY <2>1, <2>2, <2>3, <2>6, QuietThread DEF RInv
<1>3. CASE RunWake(t)
  <2>1. /\ Moves(t, "release") /\ At(t) = "dispatch" /\ task[t].kind = "wake"
        /\ UNCHANGED <<slot, timers, task, fiber, fstate>>
    BY <1>3, RunControl DEF RInv, IInv, RunWake
  <2>2. CbQueued' = CbQueued
    <3>1. /\ ScheduleLock(t, FiberTask(task[t].fiber), "release")
          /\ FiberTask(task[t].fiber) \in Tasks
      BY <1>3, TaskKinds, TaskMembers DEF RunWake, RInv, IInv, TypeOK
    <3> QED BY <3>1, CbPush, NamesApart DEF RInv, IInv
  <2>3. CbTaken' = CbTaken
    <3>1. CbTaken' = CbTaken \ {t}
      BY <2>1, CbMove
    <3>2. t \notin CbTaken
      BY <2>1 DEF CbTaken
    <3> QED BY <3>1, <3>2
  <2>4. Unstarted' = Unstarted
    BY <2>2, <2>3, Counted DEF RInv, IInv
  <2> QED BY <2>1, <2>4, QuietThread DEF RInv
<1> QED BY <1>1, <1>2, <1>3, HiddenSteps, CreateSeen, ResumeSeen DEF RunStep

-----------------------------------------------------------------------------
(* What is seen of a fiber that runs. *)

\* A thread that is neither taking a task nor about to start a callback.
LEMMA NoStart ==
  ASSUME IInv, IInv', NEW t \in Threads, NEW l, Moves(t, l),
         At(t) # "dispatch", l # "dispatch", UNCHANGED task
  PROVE  /\ CbQueued' = CbQueued => Unstarted' = Unstarted
         /\ CbQueued' = CbQueued \cup {Len(m_tasks) + 1} => Unstarted' = Unstarted + 1
<1>1. CbTaken' = CbTaken
  <2>1. CbTaken' = CbTaken \ {t}
    BY CbMove
  <2>2. t \notin CbTaken
    BY DEF CbTaken
  <2> QED BY <2>1, <2>2
<1> QED BY <1>1, Counted DEF IInv

\* It suspends or ends.
LEMMA LeaveSeen ==
  ASSUME RInv, ~Over, OverSame, NEW t \in Threads, At(t) = "run",
         NEW l \in {"yield", "switch"}, Moves(t, l), UNCHANGED fiber,
         fstate'[fiber[t]] # "NONE",
         \A f \in Fibers \ {fiber[t]} : fstate'[f] = fstate[f] /\ (WaitsFor(f)' <=> WaitsFor(f)),
         Unstarted' = Unstarted
  PROVE  C!Next
<1>c. PICK c \in Fibers : c = fiber[t]
  BY DEF RInv, IInv, Locks, Holding
<1>1. RunningOn(t) = c
  BY <1>c DEF RunningOn
<1>2. RunningOn(t)' = NoFiber /\ \A u \in Threads \ {t} : RunningOn(u)' = RunningOn(u)
  BY OnFrame
<1>3. \A u \in Threads : RunningOn(u)' # c
  <2>1. t \in Part(c, "running")
    BY <1>c, InPlace
  <2>2. Part(c, "running") = {t}
    BY <2>1, ClaimFixes DEF RInv, Places
  <2>3. \A u \in Threads : RunningOn(u) = c => u = t
    BY <2>2, SeenClaims, SchedulerAssumption
  <2> QED BY <1>2, <2>3, SchedulerAssumption
<1>4. StateOf(c)' \in {"waiting", "ready", "ended"}
  BY <1>c, <1>3 DEF StateOf
<1>5. AllSame(Fibers \ {c})
  <2> SUFFICES ASSUME NEW f \in Fibers \ {c} PROVE StateSame(f)
    BY DEF AllSame
  <2>1. (\E u \in Threads : RunningOn(u) = f) <=> (\E u \in Threads : RunningOn(u)' = f)
    BY <1>1, <1>2, SchedulerAssumption
  <2> QED BY <1>c, <2>1, StateFrame
<1> QED BY <1>1, <1>2, <1>4, <1>5, SeeLeave

\* What a fiber does: it posts, arranges its wake-up, yields or ends.
LEMMA FiberSeen ==
  ASSUME MaxExtra = 0, RInv, IInv', ~Over, OverSame, NEW t \in Threads, FiberStep(t)
  PROVE  C!Next \/ UNCHANGED C!vars
<1> USE DEF runVars, fiberVars, waitVars, pipeVars, idleVars, stopVars, bounds, ioVars
<1>g. /\ fiber[t] \in Fibers /\ fstate[fiber[t]] = "RUNNING"
      /\ FiberTask(fiber[t]) \in Tasks /\ UNCHANGED <<task, fiber>>
      /\ At(t) \in {"run", "yield"}
  <2>1. At(t) \in {"run", "yield"}
    BY FiberControl DEF RInv, IInv, FiberStep
  <2>2. UNCHANGED <<task, fiber>>
    BY DEF FiberStep, FiberPost, FiberReschedule, FiberSleep, FiberAddEvent, FiberYield,
      FiberEnd
  <2> QED BY <2>1, <2>2, TaskMembers DEF RInv, IInv, Locks, Holding
<1>1. CASE FiberPost(t)
  <2>1. /\ Moves(t, "run") /\ At(t) = "run" /\ UNCHANGED <<slot, timers, fstate>>
    BY <1>1, FiberControl DEF RInv, IInv, FiberPost
  <2>2. CbQueued' = CbQueued \cup {Len(m_tasks) + 1}
    <3>1. PICK th \in Pins : ScheduleLock(t, CbTask(th), "run")
      BY <1>1 DEF FiberPost
    <3>2. CbTask(th) \in Tasks
      BY SchedulerAssumption, TaskMembers
    <3> QED BY <3>1, <3>2, CbPush, NamesApart DEF RInv, IInv
  <2>3. Unstarted' = Unstarted + 1
    BY <1>g, <2>1, <2>2, NoStart DEF RInv
  <2>4. OnSame
    BY <1>g, <2>1, OnFrame DEF OnSame, RunningOn
  <2>5. AllSame(Fibers)
    BY <2>1, <2>4, QuietSeen
  <2> QED BY <2>3, <2>4, <2>5, SeeAccept
<1>2. CASE FiberReschedule(t, "yield")
  <2>1. Moves(t, "yield") /\ At(t) = "run" /\ UNCHANGED <<slot, timers, fstate>>
    BY <1>2, FiberControl DEF RInv, IInv, FiberReschedule
  <2>2. CbQueued' = CbQueued
    <3>1. ScheduleLock(t, FiberTask(fiber[t]), "yield")
      BY <1>2 DEF FiberReschedule
    <3> QED BY <1>g, <3>1, CbPush, NamesApart DEF RInv, IInv
  <2>3. Unstarted' = Unstarted
    BY <1>g, <2>1, <2>2, NoStart DEF RInv
  <2>4. \A f \in Fibers : WaitsFor(f)' <=> WaitsFor(f)
    BY <2>1 DEF WaitsFor
  <2> QED BY <1>g, <2>1, <2>3, <2>4, LeaveSeen
<1>3. CASE FiberReschedule(t, "run")
  BY <1>3 DEF FiberReschedule, RInv, IInv, TypeOK
<1>4. CASE FiberSleep(t)
  <2>1. /\ Moves(t, "yield") /\ At(t) = "run" /\ UNCHANGED <<m_tasks, slot, fstate>>
        /\ timers' = timers \cup {fiber[t]}
    BY <1>4, FiberControl DEF RInv, IInv, FiberSleep
  <2>2. Unstarted' = Unstarted
    BY <1>g, <2>1, NoStart DEF RInv, CbQueued
  <2>3. \A f \in Fibers \ {fiber[t]} : WaitsFor(f)' <=> WaitsFor(f)
    BY <2>1 DEF WaitsFor
  <2> QED BY <1>g, <2>1, <2>2, <2>3, LeaveSeen
<1>5. CASE FiberAddEvent(t)
  <2>1. Moves(t, "yield") /\ At(t) = "run" /\ UNCHANGED <<m_tasks, timers, fstate>>
    BY <1>5, FiberControl DEF RInv, IInv, FiberAddEvent
  <2>2. Unstarted' = Unstarted
    BY <1>g, <2>1, NoStart DEF RInv, CbQueued
  <2>3. \A f \in Fibers \ {fiber[t]} : WaitsFor(f)' <=> WaitsFor(f)
    <3>1. PICK r \in Slots : /\ slot[r] = NoTask
                             /\ slot' = [slot EXCEPT ![r] = FiberTask(fiber[t])]
      BY <1>5 DEF FiberAddEvent
    <3>2. /\ slot'[r] = FiberTask(fiber[t]) /\ \A x \in Slots \ {r} : slot'[x] = slot[x]
      BY <3>1 DEF RInv, IInv, TypeOK
    <3>3. \A f \in Fibers \ {fiber[t]} : slot[r] # FiberTask(f) /\ slot'[r] # FiberTask(f)
      BY <3>1, <3>2, NamesApart DEF NoTask, FiberTask
    <3>4. \A f : WaitsFor(f)' <=> f \in timers' \/ \E x \in Slots : slot'[x] = FiberTask(f)
      BY DEF WaitsFor, FiberTask
    <3>5. \A f : WaitsFor(f) <=> f \in timers \/ \E x \in Slots : slot[x] = FiberTask(f)
      BY DEF WaitsFor
    <3> QED BY <2>1, <3>2, <3>3, <3>4, <3>5
  <2> QED BY <1>g, <2>1, <2>2, <2>3, LeaveSeen
<1>6. CASE FiberYield(t)
  <2>1. Moves(t, "switch") /\ At(t) = "yield" /\ UNCHANGED <<m_tasks, slot, timers>>
    BY <1>6, FiberControl DEF RInv, IInv, FiberYield
  <2>2. Unstarted' = Unstarted
    BY <1>g, <2>1, NoStart DEF RInv, CbQueued
  <2>3. \A f \in Fibers : fstate'[f] = fstate[f] \/ (Live(f) /\ Live(f)')
    BY <1>6, <1>g DEF FiberYield, RInv, IInv, TypeOK, Live
  <2> QED BY <1>g, <2>1, <2>2, <2>3, QuietThread DEF RInv
<1>7. CASE FiberEnd(t)
  <2>1. Moves(t, "switch") /\ At(t) = "run" /\ UNCHANGED <<m_tasks, slot, timers>>
    BY <1>7, FiberControl DEF RInv, IInv, FiberEnd
  <2>2. Unstarted' = Unstarted
    BY <1>g, <2>1, NoStart DEF RInv, CbQueued
  <2>3. /\ fstate'[fiber[t]] # "NONE"
        /\ \A f \in Fibers \ {fiber[t]} : fstate'[f] = fstate[f]
    BY <1>7, <1>g DEF FiberEnd, RInv, IInv, TypeOK
  <2>4. \A f \in Fibers : WaitsFor(f)' <=> WaitsFor(f)
    BY <2>1 DEF WaitsFor
  <2> QED BY <1>g, <2>1, <2>2, <2>3, <2>4, LeaveSeen
<1> QED BY <1>1, <1>2, <1>3, <1>4, <1>5, <1>6, <1>7 DEF FiberStep

-----------------------------------------------------------------------------
(* What is seen of idle(): fibers are woken when their timers leave the set *)
(* and when their event is taken out of its context.                        *)

\* listExpireCb is seen as the waking of the fibers whose timers it takes.
LEMMA ExpiredSeen ==
  ASSUME RInv, IInv', ~Over, OverSame, NEW t \in Threads, ListExpired(t),
         OnSame, UNCHANGED fstate, Unstarted' = Unstarted
  PROVE  C!Next \/ UNCHANGED C!vars
<1>1. PICK E \in SUBSET timers : timers' = timers \ E
  BY DEF ListExpired
<1>2. UNCHANGED slot /\ E \in SUBSET Fibers
  BY <1>1 DEF ListExpired, RInv, IInv, TypeOK
<1>3. ASSUME NEW f \in Fibers \ E PROVE StateSame(f)
  <2>1. WaitsFor(f)' <=> WaitsFor(f)
    BY <1>1, <1>2 DEF WaitsFor
  <2> QED BY <2>1, StateFrame DEF OnSame
<1>4. ASSUME NEW c \in E PROVE StateOf(c) = "waiting" /\ StateOf(c)' = "ready"
  <2>1. c \in Part(c, "timer") /\ c \in Fibers
    BY <1>1, <1>2 DEF Part
  <2>2. Live(c) /\ Part(c, "registered") = {} /\ Part(c, "running") = {}
    BY <2>1, ClaimFixes DEF RInv, Places
  <2>3. \A u \in Threads : RunningOn(u) # c /\ RunningOn(u)' # c
    BY <2>1, <2>2, SeenClaims, SchedulerAssumption DEF OnSame
  <2>4. WaitsFor(c)
    BY <2>1, SeenClaims
  <2>5. ~WaitsFor(c)'
    <3>1. \A s \in Slots : slot[s] # FiberTask(c)
      BY <2>2 DEF Part
    <3> QED BY <1>1, <1>2, <3>1 DEF WaitsFor
  <2>6. Live(c)'
    BY <2>2 DEF Live
  <2> QED BY <2>2, <2>3, <2>4, <2>5, <2>6 DEF StateOf, Live
<1>5. CASE E = {}
  BY <1>3, <1>5, SeeNothing DEF AllSame
<1>6. CASE E # {}
  BY <1>2, <1>3, <1>4, <1>6, SeeWake DEF AllSame
<1> QED BY <1>5, <1>6

\* triggerEvent wakes the fiber, or accepts the callback, that the event was for.
LEMMA DeliverSeen ==
  ASSUME RInv, IInv', ~Over, OverSame, NEW t \in Threads, TriggerEvent(t), OnSame,
         UNCHANGED fstate,
         CbQueued' = CbQueued => Unstarted' = Unstarted,
         CbQueued' = CbQueued \cup {Len(m_tasks) + 1} => Unstarted' = Unstarted + 1
  PROVE  C!Next \/ UNCHANGED C!vars
<1>1. UNCHANGED timers
  BY DEF TriggerEvent
<1>2. CASE UNCHANGED <<m_tasks, slot>>
  <2>1. AllSame(Fibers)
    BY <1>1, <1>2, QuietSeen
  <2>2. Unstarted' = Unstarted
    BY <1>2 DEF CbQueued
  <2> QED BY <2>1, <2>2, SeeNothing
<1>3. CASE ~UNCHANGED <<m_tasks, slot>>
  <2>1. PICK s \in ready[t] \ {Wakeup} : slot[s] # NoTask /\ Deliver(t, s)
    BY <1>3 DEF TriggerEvent
  <2>2. /\ s \in Slots /\ slot[s] \in Tasks /\ slot[s].kind # "wake"
        /\ slot' = [slot EXCEPT ![s] = NoTask]
        /\ ScheduleLock(t, slot[s], "triggered")
    BY <2>1 DEF Deliver, Clear, RInv, WInv, IInv, TypeOK
  <2>3. slot'[s] = NoTask /\ \A r \in Slots \ {s} : slot'[r] = slot[r]
    BY <2>2 DEF RInv, IInv, TypeOK
  <2>4. ASSUME NEW f \in Fibers, slot[s] # FiberTask(f) PROVE StateSame(f)
    <3>1. NoTask # FiberTask(f)
      BY DEF NoTask, FiberTask
    <3>2. WaitsFor(f)' <=> f \in timers' \/ \E x \in Slots : slot'[x] = FiberTask(f)
      BY DEF WaitsFor, FiberTask
    <3>3. WaitsFor(f) <=> f \in timers \/ \E x \in Slots : slot[x] = FiberTask(f)
      BY DEF WaitsFor
    <3>4. WaitsFor(f)' <=> WaitsFor(f)
      BY <1>1, <2>3, <2>4, <3>1, <3>2, <3>3
    <3> QED BY <3>4, StateFrame DEF OnSame
  <2>5. CASE slot[s].kind = "cb"
    <3>1. CbQueued' = CbQueued \cup {Len(m_tasks) + 1}
      BY <2>2, <2>5, CbPush DEF RInv, IInv
    <3>2. AllSame(Fibers)
      BY <2>4, <2>5, NamesApart DEF AllSame
    <3> QED BY <3>1, <3>2, SeeAccept
  <2>6. CASE slot[s].kind = "fiber"
    <3>1. CbQueued' = CbQueued
      BY <2>2, <2>6, CbPush DEF RInv, IInv
    <3>2. PICK c \in Fibers : slot[s] = FiberTask(c)
      BY <2>2, <2>6 DEF Tasks, WakeTask, CbTask
    <3>3. s \in Part(c, "registered")
      BY <2>2, <3>2 DEF Part
    <3>4. /\ Live(c) /\ Part(c, "timer") = {} /\ Part(c, "running") = {}
          /\ Part(c, "registered") = {s}
      BY <3>3, ClaimFixes DEF RInv, Places
    <3>5. \A u \in Threads : RunningOn(u) # c /\ RunningOn(u)' # c
      BY <3>4, SeenClaims, SchedulerAssumption DEF OnSame
    <3>6. WaitsFor(c)
      BY <3>3, SeenClaims
    <3>7. ~WaitsFor(c)'
      <4>1. \A r \in Slots \ {s} : slot[r] # FiberTask(c)
        BY <3>4 DEF Part
      <4>2. c \notin timers
        BY <3>4 DEF Part
      <4>3. NoTask # FiberTask(c)
        BY DEF NoTask, FiberTask
      <4>4. WaitsFor(c)' <=> c \in timers' \/ \E x \in Slots : slot'[x] = FiberTask(c)
        BY DEF WaitsFor, FiberTask
      <4> QED BY <1>1, <2>3, <4>1, <4>2, <4>3, <4>4
    <3>8. Live(c)'
      BY <3>4 DEF Live
    <3>9. StateOf(c) = "waiting" /\ StateOf(c)' = "ready"
      BY <3>4, <3>5, <3>6, <3>7, <3>8 DEF StateOf, Live
    <3>10. AllSame(Fibers \ {c})
      BY <2>4, <3>2, NamesApart DEF AllSame
    <3>11. /\ {c} \in SUBSET Fibers /\ {c} # {}
           /\ \A f \in {c} : StateOf(f) = "waiting" /\ StateOf(f)' = "ready"
      BY <3>9
    <3>12. Unstarted' = Unstarted
      BY <3>1
    <3> QED BY <3>10, <3>11, <3>12, SeeWake, Zenon
  <2> QED BY <2>2, <2>5, <2>6 DEF Tasks, FiberTask, WakeTask, CbTask
<1> QED BY <1>2, <1>3

\* The idle loop.
LEMMA IdleSeen ==
  ASSUME RInv, IInv', ~Over, OverSame, NEW t \in Threads, IdleStep(t)
  PROVE  C!Next \/ UNCHANGED C!vars
<1> USE DEF runVars, fiberVars, waitVars, pipeVars, idleVars, stopVars, bounds, ioVars
<1>1. UNCHANGED <<task, fiber, fstate>>
  BY IdlePlaces DEF RInv
<1>2. PICK l \in IdleLabels \cup {"take"} : Moves(t, l)
  BY IdleControl DEF RInv, IInv, IdleStep, IdleLabels
<1>3. At(t) \in IdleLabels
  BY IdleControl DEF RInv, IInv, IdleStep, IdleLabels
<1>4. OnSame
  BY <1>1, <1>2, <1>3, OnFrame DEF OnSame, RunningOn, IdleLabels
<1>5. /\ CbQueued' = CbQueued => Unstarted' = Unstarted
      /\ CbQueued' = CbQueued \cup {Len(m_tasks) + 1} => Unstarted' = Unstarted + 1
  BY <1>1, <1>2, <1>3, NoStart DEF RInv, IdleLabels
<1>6. CASE ListExpired(t)
  <2>1. CbQueued' = CbQueued
    BY <1>6 DEF ListExpired, CbQueued
  <2> QED BY <1>1, <1>4, <1>5, <1>6, <2>1, ExpiredSeen
<1>7. CASE TriggerEvent(t)
  BY <1>1, <1>4, <1>5, <1>7, DeliverSeen
<1>8. CASE ScheduleExpired(t)
  <2>1. PICK g \in cbs[t] : ScheduleLock(t, WakeTask(g), "events")
    BY <1>8 DEF ScheduleExpired
  <2>2. WakeTask(g) \in Tasks
    BY TaskMembers DEF RInv, IInv, TypeOK
  <2>3. CbQueued' = CbQueued
    BY <2>1, <2>2, CbPush, NamesApart DEF RInv, IInv
  <2>4. UNCHANGED <<slot, timers>>
    BY <1>8 DEF ScheduleExpired
  <2>5. AllSame(Fibers)
    BY <1>1, <1>4, <2>4, QuietSeen
  <2> QED BY <1>4, <1>5, <2>3, <2>5, SeeNothing
<1>9. CASE ~(ListExpired(t) \/ TriggerEvent(t) \/ ScheduleExpired(t))
  <2>1. UNCHANGED <<m_tasks, slot, timers>>
    BY <1>9 DEF IdleStep, CheckTimers, CheckPending, Ask, CheckStopping, EpollWait,
      DrainPipe, DropPending, LeaveIdle
  <2>2. AllSame(Fibers)
    BY <1>1, <1>4, <2>1, QuietSeen
  <2>3. CbQueued' = CbQueued
    BY <2>1 DEF CbQueued
  <2> QED BY <1>4, <1>5, <2>2, <2>3, SeeNothing
<1> QED BY <1>6, <1>7, <1>8, <1>9

-----------------------------------------------------------------------------
(* What is seen of the owner. *)

\* stop() joins a pool that has nothing to do: the threads have left run().
LEMMA JoinSeen ==
  ASSUME RInv, ~Over, Join
  PROVE  C!Next
<1> USE DEF runVars, fiberVars, waitVars, pipeVars, idleVars, stopVars, bounds, ioVars
<1>r. Root \in Threads
  BY DEF Threads
<1>1. \A t \in Threads : pc[t] = "exit" /\ At(t) = "exit"
  BY DEF Join, At
<1>2. /\ UNCHANGED <<m_tasks, slot, timers, task, fiber, fstate, ret>>
      /\ pc' = [pc EXCEPT ![Root] = "stopped"]
  BY DEF Join, Goto
<1>3. pc'[Root] = "stopped" /\ \A t \in Threads \ {Root} : pc'[t] = "exit"
  BY <1>r, <1>1, <1>2 DEF RInv, IInv, TypeOK
<1>4. \A t \in Threads : RunningOn(t) = NoFiber /\ RunningOn(t)' = NoFiber
  BY <1>1, <1>3 DEF RunningOn, At
<1>5. OnSame
  BY <1>4 DEF OnSame
<1>6. AllSame(Fibers)
  BY <1>2, <1>5, QuietSeen
<1>7. m_tasks = <<>> /\ \A t \in Threads : task[t] = NoTask
  BY <1>1 DEF RInv, StopInv, AllDone, Runners, Threads
<1>8. CbQueued = {} /\ CbTaken = {} /\ CbQueued' = {} /\ CbTaken' = {}
  <2>1. DOMAIN m_tasks = {}
    BY <1>7, EmptySeq, LenProperties
  <2> QED BY <1>2, <1>7, <2>1, TaskKinds DEF CbQueued, CbTaken
<1>9. Unstarted = 0 /\ Unstarted' = 0
  <2>1. /\ Unstarted = Cardinality(CbQueued) + Cardinality(CbTaken)
        /\ Unstarted' = Cardinality(CbQueued') + Cardinality(CbTaken')
    BY DEF Unstarted, CbQueued, CbTaken
  <2>2. Cardinality({}) = 0
    BY FS_EmptySet
  <2> HIDE DEF CbQueued, CbTaken
  <2> QED BY <1>8, <2>1, <2>2
<1>10. ASSUME NEW f \in Fibers PROVE StateOf(f) \notin {"ready", "running"}
  <2>1. CASE Live(f)
    <3>1a. PICK k \in Places : \E x : x \in Part(f, k)
      BY <2>1 DEF RInv, Disciplined, One
    <3>1. PICK x : x \in Part(f, k)
      BY <3>1a
    <3>2. Part(f, "queued") = {} /\ Part(f, "taken") = {} /\ Part(f, "running") = {}
      <4>1. DOMAIN m_tasks = {}
        BY <1>7, EmptySeq, LenProperties
      <4> QED BY <1>1, <4>1 DEF Part
    <3>3. Part(f, "expired") = {}
      BY <1>1 DEF Part, RInv, WInv
    <3>4. WaitsFor(f)
      <4>1. k \in {"timer", "registered"}
        BY <3>1, <3>2, <3>3 DEF Places
      <4> QED BY <3>1, <4>1, SeenClaims
    <3>5. \A t \in Threads : RunningOn(t) # f
      BY <1>4, SchedulerAssumption
    <3> QED BY <2>1, <3>4, <3>5 DEF StateOf, Live
  <2>2. CASE ~Live(f)
    BY <2>2 DEF StateOf, Live, RInv, IInv, TypeOK
  <2> QED BY <2>1, <2>2
<1>11. Over'
  BY <1>3 DEF Over
<1> QED BY <1>5, <1>6, <1>9, <1>10, <1>11, SeeClose

\* The owner's other steps.
LEMMA RootSeen ==
  ASSUME RInv, IInv', ~Over, OverSame, PostStep \/ Stop \/ StopTickle \/ StopRun
  PROVE  C!Next \/ UNCHANGED C!vars
<1> USE DEF runVars, fiberVars, waitVars, pipeVars, idleVars, stopVars, bounds, ioVars
<1>r. Root \in Threads
  BY DEF Threads
<1>1. /\ At(Root) \in {"user", "stop"} /\ UNCHANGED <<task, fiber, timers>>
      /\ \E l \in {"user", "stop", "exit", "take"} : Moves(Root, l)
  BY RootControl DEF RInv, IInv, PostStep, PostCb, PostFiber, PostEvent, Stop, StopTickle,
    StopRun
<1>2. OnSame
  BY <1>r, <1>1, OnFrame DEF OnSame, RunningOn
<1>3. /\ CbQueued' = CbQueued => Unstarted' = Unstarted
      /\ CbQueued' = CbQueued \cup {Len(m_tasks) + 1} => Unstarted' = Unstarted + 1
  BY <1>r, <1>1, NoStart DEF RInv
<1>4. CASE PostCb
  <2>1. PICK th \in Pins : ScheduleLock(Root, CbTask(th), "user")
    BY <1>4 DEF PostCb
  <2>2. CbTask(th) \in Tasks
    BY SchedulerAssumption, TaskMembers
  <2>3. CbQueued' = CbQueued \cup {Len(m_tasks) + 1}
    BY <2>1, <2>2, CbPush, NamesApart DEF RInv, IInv
  <2>4. AllSame(Fibers)
    BY <1>1, <1>2, <1>4, QuietSeen DEF PostCb
  <2> QED BY <1>2, <1>3, <2>3, <2>4, SeeAccept
<1>5. CASE PostFiber
  <2>1. PICK c \in Fibers : /\ fstate[c] = "NONE"
                            /\ fstate' = [fstate EXCEPT ![c] = "READY"]
                            /\ ScheduleLock(Root, FiberTask(c), "user")
    BY <1>5 DEF PostFiber
  <2>2. CbQueued' = CbQueued
    BY <2>1, TaskMembers, CbPush, NamesApart DEF RInv, IInv
  <2>3. UNCHANGED slot /\ fstate'[c] = "READY" /\ \A f \in Fibers \ {c} : fstate'[f] = fstate[f]
    BY <1>5, <2>1 DEF PostFiber, RInv, IInv, TypeOK
  <2>4. None(c)
    BY <2>1 DEF RInv, Disciplined, Live
  <2>5. ~WaitsFor(c) /\ \A t \in Threads : RunningOn(t) # c
    BY <2>4, SeenClaims, SchedulerAssumption DEF None, Places
  <2>6. StateOf(c) = "absent"
    BY <2>1 DEF StateOf
  <2>7. StateOf(c)' = "ready"
    <3>1. ~WaitsFor(c)' /\ \A t \in Threads : RunningOn(t)' # c
      BY <1>1, <1>2, <2>3, <2>5 DEF WaitsFor, OnSame
    <3> QED BY <2>3, <3>1 DEF StateOf
  <2>8. AllSame(Fibers \ {c})
    <3> SUFFICES ASSUME NEW f \in Fibers \ {c} PROVE StateSame(f)
      BY DEF AllSame
    <3>1. WaitsFor(f)' <=> WaitsFor(f)
      BY <1>1, <2>3 DEF WaitsFor
    <3> QED BY <1>2, <2>3, <3>1, StateFrame DEF OnSame
  <2>9. Unstarted' = Unstarted /\ Unstarted' \in Nat
    BY <1>3, <2>2, CbFinite DEF RInv, IInv
  <2> QED BY <1>2, <2>6, <2>7, <2>8, <2>9, SeeCreate
<1>6. CASE PostEvent
  <2>1. PICK s \in Slots : slot[s] = NoTask /\ slot' = [slot EXCEPT ![s] = CbTask(AnyThread)]
    BY <1>6 DEF PostEvent
  <2>2. UNCHANGED <<m_tasks, fstate>>
    BY <1>6 DEF PostEvent
  <2>3. AllSame(Fibers)
    <3> SUFFICES ASSUME NEW f \in Fibers PROVE StateSame(f)
      BY DEF AllSame
    <3>1. /\ slot'[s] = CbTask(AnyThread)
          /\ NoTask # FiberTask(f) /\ CbTask(AnyThread) # FiberTask(f)
          /\ \A r \in Slots \ {s} : slot'[r] = slot[r]
      BY <2>1 DEF RInv, IInv, TypeOK, NoTask, FiberTask, CbTask
    <3>2. WaitsFor(f)' <=> f \in timers' \/ \E x \in Slots : slot'[x] = FiberTask(f)
      BY DEF WaitsFor, FiberTask
    <3>3. WaitsFor(f) <=> f \in timers \/ \E x \in Slots : slot[x] = FiberTask(f)
      BY DEF WaitsFor
    <3>4. WaitsFor(f)' <=> WaitsFor(f)
      BY <1>1, <2>1, <3>1, <3>2, <3>3
    <3> QED BY <1>2, <2>2, <3>4, StateFrame DEF OnSame
  <2>4. CbQueued' = CbQueued
    BY <2>2 DEF CbQueued
  <2> QED BY <1>2, <1>3, <2>3, <2>4, SeeNothing
<1>7. CASE Stop \/ StopTickle \/ StopRun
  <2>1. UNCHANGED <<m_tasks, slot, fstate>>
    BY <1>7 DEF Stop, StopTickle, StopRun
  <2>2. AllSame(Fibers)
    BY <1>1, <1>2, <2>1, QuietSeen
  <2>3. CbQueued' = CbQueued
    BY <2>1 DEF CbQueued
  <2> QED BY <1>2, <1>3, <2>2, <2>3, SeeNothing
<1> QED BY <1>4, <1>5, <1>6, <1>7 DEF PostStep

-----------------------------------------------------------------------------
(* The refinement. *)

\* Initial states map to initial states.
LEMMA SeenInit == Init => C!Init
<1> SUFFICES ASSUME Init PROVE C!Init
  OBVIOUS
<1>1. [f \in Fibers |-> StateOf(f)] = [c \in Fibers |-> "absent"]
  BY DEF Init, StateOf
<1>2. [t \in Threads |-> RunningOn(t)] = [t \in Threads |-> NoFiber]
  BY DEF Init, RunningOn, At
<1>3. Unstarted = 0
  <2>1. CbQueued = {} /\ CbTaken = {}
    BY EmptySeq, LenProperties DEF Init, CbQueued, CbTaken, At
  <2> QED BY <2>1, FS_EmptySet DEF Unstarted, CbQueued, CbTaken
<1>4. (pc[Root] = "stopped") = FALSE
  BY DEF Init, Threads
<1> QED BY <1>1, <1>2, <1>3, <1>4 DEF C!Init

\* Once stop() is over the threads can at most finish what they were doing, and
\* by StopInv they have nothing left to do.
LEMMA SeenStep ==
  ASSUME MaxExtra = 0
  PROVE  RInv /\ IInv' /\ [Next]_vars => [C!Next]_(C!vars)
<1> SUFFICES ASSUME RInv, IInv', [Next]_vars PROVE C!Next \/ UNCHANGED C!vars
  OBVIOUS
<1>1. CASE \E t \in Threads : ThreadStep(t)
  <2>1. PICK t \in Threads : ThreadStep(t)
    BY <1>1
  <2>2. OverSame
    BY <2>1, ThreadGoes, GoesOver DEF RInv, IInv
  <2>3. CASE Over
    <3>1. AllDone
      BY <2>3 DEF RInv, StopInv, Over, At
    <3>2. Tickle(t) \/ TakeNothing(t) \/ EnterIdle(t)
      BY <2>1, <3>1, DoneIsQuiet DEF RInv
    <3> QED BY <2>2, <3>2, HiddenSteps
  <2>4. CASE ~Over
    BY <2>1, <2>2, <2>4, RunSeen, FiberSeen, IdleSeen DEF ThreadStep
  <2> QED BY <2>3, <2>4
<1>2. CASE PostStep \/ Stop \/ StopTickle \/ StopRun
  <2>1. OverSame
    BY <1>2, RootGoes, GoesOver DEF RInv, IInv, Threads
  <2>2. ~Over
    BY <1>2 DEF Over, PostStep, PostCb, PostFiber, PostEvent, Stop, StopTickle, StopRun
  <2> QED BY <1>2, <2>1, <2>2, RootSeen
<1>3. CASE Join
  <2>1. ~Over
    BY <1>3 DEF Over, Join, Threads
  <2> QED BY <1>3, <2>1, JoinSeen
<1>4. CASE UNCHANGED vars
  <2>1. UNCHANGED <<m_tasks, slot, timers, task, fiber, fstate, pc, ret>>
    BY <1>4 DEF vars, runVars, fiberVars, waitVars, ioVars
  <2>2. OnSame /\ OverSame
    BY <2>1 DEF OnSame, RunningOn, At, OverSame, Over
  <2>3. AllSame(Fibers)
    BY <2>1, <2>2, QuietSeen
  <2>4. Unstarted' = Unstarted
    BY <2>1 DEF Unstarted, At
  <2> QED BY <2>2, <2>3, <2>4, SeeNothing
<1> QED BY <1>1, <1>2, <1>3, <1>4 DEF Next, Stopped, StopStep

\* What the refinement rests on holds throughout.
LEMMA SeenInv ==
  ASSUME Runners # {}, MaxExtra = 0
  PROVE  Spec => []RInv
<1>1. Init => NoReturn
  BY DEF Init, NoReturn, Threads
<1> QED BY <1>1, Inductive, CountInit, CountStep, WakeInit, WakeStep, StopInductive,
      WakesInit, DisciplinedStep, ReturnStep, PTL DEF Spec, RInv

\* The scheduler of a pool with at least one thread implements Coroutines for fibers
\* that arrange one wake-up per suspension: every step, of whichever of its threads,
\* is one step of the promise or is hidden from the program, and stop() joins the
\* pool only when nothing is ready, running or accepted and not started.
THEOREM Implements ==
  ASSUME Runners # {}, MaxExtra = 0
  PROVE  Spec => ImplementsCoroutines
BY SeenInit, SeenStep, SeenInv, Inductive, PTL DEF Spec, ImplementsCoroutines, C!Spec
=============================================================================

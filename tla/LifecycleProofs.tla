-------------------------- MODULE LifecycleProofs --------------------------
(***************************************************************************)
(* start() and the constructor of Thread, for any number of workers: the   *)
(* semaphore orders the new thread's write of m_id before the read by      *)
(* start(), which holds at most one constructor at a time. The theorems    *)
(* about the worker loops carry over to the life of an IOManager, and say  *)
(* when its second stop() is safe.                                         *)
(***************************************************************************)
EXTENDS Lifecycle, SchedulerWakes

\* What is known of a worker by how far its thread has come.
Begun(w) ==
  /\ thread[w] \in {"none", "created"} => m_id[w] = NoId
  /\ thread[w] \in {"named", "begun"} => m_id[w] = w
  /\ thread[w] \in {"created", "named"} => making = w
  /\ semaphore[w] = 1 => making = w /\ thread[w] = "begun"
  /\ making = w => thread[w] # "none"

Caller == IF UseCaller THEN {Root} ELSE {}

\* Whom start() has recorded: all whose constructor has returned.
Recorded == Caller \cup {w \in Workers : thread[w] # "none" /\ making # w}

LInv ==
  /\ LifecycleTypeOK
  /\ \A w \in Workers : Begun(w)
  /\ m_threadIds = Recorded
  /\ life # "start" => making = NoThread /\ \A w \in Workers : thread[w] # "none"

\* At first no thread is constructed, and the caller, if it takes part, is recorded.
LEMMA InitLInv == LifeInit => LInv
<1> SUFFICES ASSUME LifeInit PROVE LInv
  OBVIOUS
<1>1. LifecycleTypeOK
  BY DEF LifeInit, LifecycleTypeOK, Threads
<1>2. \A w \in Workers : Begun(w)
  BY LifecycleAssumption DEF LifeInit, Begun, Threads
<1>3. m_threadIds = Recorded
  BY DEF LifeInit, Recorded, Caller
<1> QED BY <1>1, <1>2, <1>3 DEF LInv, LifeInit

\* pthread_create
LEMMA CreateLInv == ASSUME LInv, NEW v \in Workers, CreateThread(v) PROVE LInv'
<1> USE LifecycleAssumption DEF LInv, CreateThread, Threads
<1>1. LifecycleTypeOK' BY DEF LifecycleTypeOK
<1>2. ASSUME NEW w \in Workers PROVE Begun(w)'
  BY DEF Begun, LifecycleTypeOK
<1>3. Recorded' = Recorded BY DEF Recorded, Begun, LifecycleTypeOK
<1> QED BY <1>1, <1>2, <1>3

\* The new thread: m_id, then the semaphore.
LEMMA ThreadLInv ==
  ASSUME LInv, NEW v \in Workers, SetId(v) \/ Signal(v) PROVE LInv'
<1> USE LifecycleAssumption DEF LInv, SetId, Signal, SemSignal, Threads
<1>1. LifecycleTypeOK' BY DEF LifecycleTypeOK, Begun
<1>2. ASSUME NEW w \in Workers PROVE Begun(w)'
  BY DEF Begun, LifecycleTypeOK
<1>3. Recorded' = Recorded BY DEF Recorded, LifecycleTypeOK
<1> QED BY <1>1, <1>2, <1>3 DEF Begun, LifecycleTypeOK

\* The constructor returns: the semaphore says that m_id is set.
LEMMA RecordLInv == ASSUME LInv, RecordId PROVE LInv'
<1> USE LifecycleAssumption DEF LInv, RecordId, SemWait, Threads
<1>0. making \in Workers /\ semaphore[making] = 1
  BY DEF LifecycleTypeOK
<1>1. m_id[making] = making
  BY <1>0 DEF Begun
<1>2. LifecycleTypeOK' BY <1>0, <1>1 DEF LifecycleTypeOK
<1>3. ASSUME NEW w \in Workers PROVE Begun(w)'
  BY <1>0 DEF Begun, LifecycleTypeOK
<1>4. Recorded' = Recorded \cup {making}
  BY <1>0 DEF Recorded, Begun
<1> QED BY <1>1, <1>2, <1>3, <1>4

\* Each step of start() keeps LInv; the others do not touch what it is about.
LEMMA StepLInv == LInv /\ [LifeNext]_<<vars, lifeVars>> => LInv'
<1> SUFFICES ASSUME LInv, [LifeNext]_<<vars, lifeVars>> PROVE LInv'
  OBVIOUS
<1>1. CASE UNCHANGED lifeVars
  BY <1>1 DEF lifeVars, startVars, LInv, LifecycleTypeOK, Begun, Recorded
<1>2. CASE StartReturns \/ StopAgain \/ Destroy
  BY <1>2 DEF StartReturns, StopAgain, Destroy, startVars, LInv, LifecycleTypeOK,
    Begun, Recorded
<1>3. CASE \E w \in Workers : CreateThread(w) \/ SetId(w) \/ Signal(w)
  BY <1>3, CreateLInv, ThreadLInv
<1>4. CASE RecordId
  BY <1>4, RecordLInv
<1> QED BY <1>1, <1>2, <1>3, <1>4 DEF LifeNext, StartStep, Ended

\* What is known of each thread of the pool while start() constructs it.
THEOREM StartInductive == LifeSpec => []LInv
BY InitLInv, StepLInv, PTL DEF LifeSpec

\* The variables of start() keep their types; the semaphores are binary ones.
THEOREM StartTypeCorrect == LifeSpec => []LifecycleTypeOK
<1>1. LInv => LifecycleTypeOK
  BY DEF LInv
<1> QED BY <1>1, StartInductive, PTL

\* When start() returns, m_threadIds names the threads of the pool, and none by
\* the -1 that Thread::m_id is before the thread runs.
THEOREM IdsRecorded == LifeSpec => []IdsKnown
<1>1. LInv => IdsKnown
  BY LifecycleAssumption DEF LInv, IdsKnown, Recorded, Caller, Runners, Threads
<1> QED BY <1>1, StartInductive, PTL

-----------------------------------------------------------------------------
(* The worker loops, in the life of their IOManager. *)

\* Around start(), a second stop() and the destructor, the worker loops are the
\* ones of Scheduler: whatever is proved of Spec holds throughout the life of an
\* IOManager.
THEOREM LifeIsScheduler == LifeSpec => Spec
<1>1. LifeInit => Init
  BY DEF LifeInit
<1>2. [LifeNext]_<<vars, lifeVars>> => [Next]_vars
  BY DEF LifeNext, StartStep, CreateThread, SetId, Signal, RecordId, StartReturns,
    StopAgain, Destroy, Ended
<1> QED BY <1>1, <1>2, PTL DEF LifeSpec, Spec

\* From the constructor to the destructor: one thread per stack, resume() only of
\* what is READY, no fiber forgotten, no counter wrapped, and a pool that is
\* joined with an empty queue and no thread at work.
THEOREM PoolCorrect ==
  ASSUME Runners # {}
  PROVE  LifeSpec => []( /\ FiberExclusive /\ ResumeReady /\ NoLostFiber
                         /\ CountersExact /\ DestructorAssertion )
BY LifeIsScheduler, Exclusive, ResumeSafe, NoLost, Counters, StoppedIsEmpty, PTL

\* What StopAgainIsSafe lacks to be true.
AbortsOnWaiting == life = "aborted" => UseCaller /\ ~(timers = {} /\ pending = 0)

\* ~Scheduler's assertion never fails, and the assertion of resume() in the stop()
\* of ~IOManager fails only if the caller is a worker and a timer or an event was
\* still waited for when the first stop() returned.
THEOREM OnlyWaitsAbort ==
  ASSUME Runners # {}
  PROVE  LifeSpec => []AbortsOnWaiting
<1>1. LifeInit => AbortsOnWaiting
  BY DEF LifeInit, AbortsOnWaiting
<1>2. AbortsOnWaiting /\ DestructorAssertion /\ [LifeNext]_<<vars, lifeVars>>
        => AbortsOnWaiting'
  <2> SUFFICES ASSUME AbortsOnWaiting, DestructorAssertion, [LifeNext]_<<vars, lifeVars>>
               PROVE  AbortsOnWaiting'
    OBVIOUS
  <2>1. CASE StopAgain \/ Destroy
    <3>1. SchedulerStopping
      BY <2>1 DEF StopAgain, Destroy, DestructorAssertion, SchedulerStopping
    <3>2. UNCHANGED <<timers, pending>>
      BY <2>1 DEF StopAgain, Destroy, vars, ioVars, waitVars
    <3> QED BY <2>1, <3>1, <3>2 DEF StopAgain, Destroy, StoppingNow, AbortsOnWaiting
  <2>2. CASE StartStep
    BY <2>2 DEF StartStep, CreateThread, SetId, Signal, RecordId, StartReturns,
      AbortsOnWaiting, vars, ioVars, waitVars
  <2>3. CASE life = "up" /\ Next /\ UNCHANGED lifeVars
    BY <2>3 DEF lifeVars, AbortsOnWaiting
  <2>4. CASE UNCHANGED <<vars, lifeVars>>
    BY <2>4 DEF vars, ioVars, waitVars, lifeVars, AbortsOnWaiting
  <2> QED BY <2>1, <2>2, <2>3, <2>4 DEF LifeNext, Ended
<1> QED BY <1>1, <1>2, LifeIsScheduler, StoppedIsEmpty, PTL DEF LifeSpec

=============================================================================

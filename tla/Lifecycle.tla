------------------------------ MODULE Lifecycle ------------------------------
(***************************************************************************)
(* The life of an IOManager around the worker loop of Scheduler: start(),  *)
(* with the Thread constructor and its semaphore; a second call of stop(), *)
(* by the user or from ~IOManager; and ~Scheduler.                         *)
(*                                                                         *)
(* start() holds Scheduler::m_mtx throughout, so a new thread comes as far *)
(* as its first look at the queue, which is where Scheduler has it begin.  *)
(***************************************************************************)
EXTENDS Scheduler

CONSTANTS
  NoThread,    \* no constructor is running
  NoId         \* Thread::m_id before the thread has set it, -1

ASSUME LifecycleAssumption == NoThread \notin Threads /\ NoId \notin Threads

VARIABLES
  life,        \* of the owner: start, up, over (after a second stop()),
               \* destroyed, aborted
  making,      \* the thread whose constructor start() is in
  thread,      \* of each worker: none, created, named, begun
  m_id,        \* Thread::m_id
  semaphore,   \* Semaphore::cnt_ of each Thread
  m_threadIds  \* as a set

startVars == <<making, thread, m_id, semaphore, m_threadIds>>
lifeVars == <<life, startVars>>

-----------------------------------------------------------------------------
(* Semaphore: each is used by one waiter and one signaller. *)

SemSignal(w) == semaphore' = [semaphore EXCEPT ![w] = @ + 1]

SemWaitUnblocked(w) == semaphore' = [semaphore EXCEPT ![w] = @ - 1]   \* Mutant
SemWait(w) == semaphore[w] > 0 /\ semaphore' = [semaphore EXCEPT ![w] = @ - 1]

-----------------------------------------------------------------------------
(* start() *)

\* pthread_create, in the constructor of the next Thread.
CreateThread(w) ==
  /\ life = "start" /\ making = NoThread /\ thread[w] = "none"
  /\ making' = w
  /\ thread' = [thread EXCEPT ![w] = "created"]
  /\ UNCHANGED <<vars, life, m_id, semaphore, m_threadIds>>

\* Thread::run: m_id first ...
SetId(w) ==
  /\ thread[w] = "created"
  /\ m_id' = [m_id EXCEPT ![w] = w]
  /\ thread' = [thread EXCEPT ![w] = "named"]
  /\ UNCHANGED <<vars, life, making, semaphore, m_threadIds>>

SignalEarly(w) ==                                 \* Mutant: before m_id is set
  /\ thread[w] \in {"created", "named"} /\ semaphore[w] = 0
  /\ semaphore' = [semaphore EXCEPT ![w] = 1]
  /\ thread' = [thread EXCEPT ![w] = IF @ = "named" THEN "begun" ELSE @]
  /\ UNCHANGED <<vars, life, making, m_id, m_threadIds>>

\* ... then the semaphore, then the callback, run().
Signal(w) ==
  /\ thread[w] = "named"
  /\ SemSignal(w)
  /\ thread' = [thread EXCEPT ![w] = "begun"]
  /\ UNCHANGED <<vars, life, making, m_id, m_threadIds>>

\* The constructor's wait ends, and start() asks the Thread for its id.
RecordId ==
  /\ making # NoThread /\ SemWait(making)
  /\ m_threadIds' = m_threadIds \cup {m_id[making]}
  /\ making' = NoThread
  /\ UNCHANGED <<vars, life, thread, m_id>>

StartReturns ==
  /\ life = "start" /\ making = NoThread /\ \A w \in Workers : thread[w] # "none"
  /\ life' = "up"
  /\ UNCHANGED <<vars, startVars>>

-----------------------------------------------------------------------------
(* The end *)

\* IOManager::stopping(), asked by the only thread that is left.
StoppingNow == timers = {} /\ pending = 0 /\ SchedulerStopping

\* stop() once more.  It returns if stopping(); else it tickles (nobody is idle,
\* tickle() does nothing), resumes m_schedulerFiber, which has terminated, and
\* has no threads to join.
StopAgain ==
  /\ life = "up" /\ pc[Root] = "stopped"
  /\ life' = IF ~StoppingNow /\ UseCaller THEN "aborted" ELSE "over"
  /\ UNCHANGED <<vars, startVars>>

\* ~Scheduler, at the latest after the stop() of ~IOManager.
Destroy ==
  /\ life \in {"up", "over"} /\ pc[Root] = "stopped"
  /\ life' = IF SchedulerStopping THEN "destroyed" ELSE "aborted"
  /\ UNCHANGED <<vars, startVars>>

Ended == life \in {"destroyed", "aborted"} /\ UNCHANGED <<vars, lifeVars>>

-----------------------------------------------------------------------------
LifeInit ==
  /\ Init
  /\ life = "start" /\ making = NoThread
  /\ thread = [w \in Workers |-> "none"]
  /\ m_id = [w \in Workers |-> NoId]
  /\ semaphore = [w \in Workers |-> 0]
  /\ m_threadIds = IF UseCaller THEN {Root} ELSE {}

StartStep ==
  \/ \E w \in Workers : CreateThread(w) \/ SetId(w) \/ Signal(w)
  \/ RecordId \/ StartReturns

LifeNext ==
  \/ StartStep
  \/ life = "up" /\ Next /\ UNCHANGED lifeVars
  \/ StopAgain \/ Destroy \/ Ended

LifeSpec == LifeInit /\ [][LifeNext]_<<vars, lifeVars>>

-----------------------------------------------------------------------------
(* Properties *)

\* Thread ids are the threads' own or not set; a semaphore is a binary one.
LifecycleTypeOK ==
  /\ life \in {"start", "up", "over", "destroyed", "aborted"}
  /\ making \in Workers \cup {NoThread}
  /\ thread \in [Workers -> {"none", "created", "named", "begun"}]
  /\ m_id \in [Workers -> Workers \cup {NoId}]
  /\ semaphore \in [Workers -> 0..1]
  /\ m_threadIds \subseteq Threads \cup {NoId}

\* start() records the real id of each thread of the pool: the Thread's
\* constructor does not return before the new thread has set m_id.
IdsKnown ==
  life # "start" => m_threadIds = Runners

\* "assert(m_state == READY)" (fiber.cpp:85) for m_schedulerFiber, and with it
\* the destructor: after a stop() of the user, ~IOManager's stop() finds nothing
\* to do.
StopAgainIsSafe == life # "aborted"
=============================================================================

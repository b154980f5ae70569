------------------------------- MODULE Timer -------------------------------
(***************************************************************************)
(* TimerManager and Timer: addTimer, cancel, refresh, reset, getNextTimer  *)
(* and listExpireCb over a std::set that orders timers by m_next alone,    *)
(* and the threads of IOManager::idle that sleep until the next timer.     *)
(*                                                                         *)
(* Time is a clock of whole milliseconds, `now`.  m_next is the            *)
(* millisecond and the reading of the clock it was computed from: two      *)
(* readings never give the same nanosecond, so two timers have equal       *)
(* m_next only if both come from one reading, as in listExpireCb's loop.   *)
(***************************************************************************)
EXTENDS Integers, FiniteSets

CONSTANTS
  Timers,      \* identities of timers
  Recurring,   \* those added with recurring = 1
  Periods,     \* values of m_ms
  Resetters,   \* threads that call reset
  Idlers,      \* threads of the pool
  Nobody,      \* no thread holds m_mtx
  NoTimer,
  Batch,       \* the clock reading of a run of listExpireCb
  Hour,        \* detectClockRollover's threshold
  MaxTime,     \* bound: the clock
  MaxBack,     \* bound: times the clock is set back
  MaxMoves     \* bound: calls of refresh and reset

ASSUME TimerAssumption ==
  /\ Recurring \subseteq Timers
  /\ Periods \subseteq Nat \ {0}
  /\ Nobody \notin Idlers /\ NoTimer \notin Timers /\ Batch \notin Timers
  /\ Hour \in Nat /\ MaxTime \in Nat /\ MaxBack \in Nat /\ MaxMoves \in Nat

VARIABLES
  now, m_preTime,
  m_timers,    \* the set, guarded by m_mtx
  m_next, m_ms,
  live,        \* timers whose m_cb is not null
  added,       \* timers that have been constructed
  cancelled,   \* timers for which cancel() returned 1
  fires,       \* how often each timer's callback was handed out
  m_tickled,
  owed,        \* onTimerInsertedAtFront() calls still to be made
  edge,        \* an unreported byte in the tickle pipe
  lock,        \* exclusive holder of m_mtx, if a thread keeps it over steps
  pc,          \* pool thread: out (running tasks), sleep, woken, expire
  deadline,    \* what getNextTimer told the sleeping thread (locals that are
  seen,        \* local `now` of listExpireCb          not in use are 0 or FALSE)
  rollover,    \* its local `rollover`
  moving,      \* timer a thread inside reset() has taken out of the set
  target,      \* the new period and origin of that reset
  backs, moves \* uses of the bounds

clockVars == <<now, m_preTime, backs>>
timerVars == <<m_timers, m_next, m_ms, live, added>>
wakeVars  == <<m_tickled, owed, edge>>
idleVars  == <<lock, pc, deadline, seen, rollover>>
resetVars == <<moving, target, moves>>
history   == <<cancelled, fires>>
vars == <<clockVars, timerVars, wakeVars, idleVars, resetVars, history>>

-----------------------------------------------------------------------------
(* The set: find, insert and begin see m_next only. *)

Equal(tm, next) == {x \in m_timers : next[x] = next[tm]}
Firsts(S, next) == {x \in S : \A y \in S : next[x].at <= next[y].at}

\* insert(tm) into S; S already holds tm's equal, or gains tm.
\* Mutant: the order sees whole milliseconds.
InsertCoarse(S, tm, next) ==
  IF \E x \in S : next[x].at = next[tm].at THEN S ELSE S \cup {tm}
Insert(S, tm, next) == IF \E x \in S : next[x] = next[tm] THEN S ELSE S \cup {tm}

Reading(at, by) == [at |-> at, by |-> by]

\* TimerManager::addTimer(shared_ptr): m_next is next', the set without tm is S.
\* begin() among timers of one millisecond is any of them.
AddToSet(S, tm) ==
  /\ m_timers' = Insert(S, tm, m_next')
  /\ \E first \in Firsts(m_timers', m_next') :
       IF m_next'[first] = m_next'[tm] /\ ~m_tickled
         THEN m_tickled' = TRUE /\ owed' = owed + 1
         ELSE UNCHANGED <<m_tickled, owed>>
  /\ UNCHANGED edge

Free == lock = Nobody

AddTimer(tm, d) ==
  /\ Free /\ tm \notin added
  /\ added' = added \cup {tm} /\ live' = live \cup {tm}
  /\ m_ms' = [m_ms EXCEPT ![tm] = d]
  /\ m_next' = [m_next EXCEPT ![tm] = Reading(now + d, tm)]
  /\ AddToSet(m_timers, tm)
  /\ UNCHANGED <<clockVars, idleVars, resetVars, history>>

\* onTimerInsertedAtFront: IOManager's tickle, if a thread is idle.
TickleUnasked ==                                  \* Mutant
  /\ owed' = owed - 1
  /\ edge' = (edge \/ \E t \in Idlers : pc[t] # "out")
  /\ UNCHANGED <<clockVars, timerVars, m_tickled, idleVars, resetVars, history>>
Tickle ==
  /\ owed > 0
  /\ owed' = owed - 1
  /\ edge' = (edge \/ \E t \in Idlers : pc[t] # "out")
  /\ UNCHANGED <<clockVars, timerVars, m_tickled, idleVars, resetVars, history>>

\* Mutant: the callback is dropped, the timer stays in the set.
CancelInPlace(tm) ==
  /\ Free /\ tm \in live
  /\ live' = live \ {tm}
  /\ cancelled' = cancelled \cup {tm}
  /\ UNCHANGED <<clockVars, m_timers, m_next, m_ms, added, wakeVars, idleVars, resetVars,
                 fires>>

Cancel(tm) ==
  /\ Free /\ tm \in live
  /\ live' = live \ {tm}
  /\ m_timers' = m_timers \ Equal(tm, m_next)
  /\ cancelled' = cancelled \cup {tm}
  /\ UNCHANGED <<clockVars, m_next, m_ms, added, wakeVars, idleVars, resetVars, fires>>

\* Mutant: the timer need not have been found.
RefreshUnchecked(tm) ==
  /\ Free /\ tm \in live /\ moves < MaxMoves
  /\ moves' = moves + 1
  /\ m_next' = [m_next EXCEPT ![tm] = Reading(now + m_ms[tm], tm)]
  /\ m_timers' = Insert(m_timers \ Equal(tm, m_next), tm, m_next')
  /\ UNCHANGED <<clockVars, m_ms, live, added, wakeVars, idleVars, moving, target, history>>

Refresh(tm) ==
  /\ Free /\ tm \in live /\ Equal(tm, m_next) # {} /\ moves < MaxMoves
  /\ moves' = moves + 1
  /\ m_next' = [m_next EXCEPT ![tm] = Reading(now + m_ms[tm], tm)]
  /\ m_timers' = Insert(m_timers \ Equal(tm, m_next), tm, m_next')
  /\ UNCHANGED <<clockVars, m_ms, live, added, wakeVars, idleVars, moving, target, history>>

\* reset, first half: take the timer out, under the lock.
ResetTake(u, tm, d, fromNow) ==
  /\ moving[u] = NoTimer /\ moves < MaxMoves
  /\ Free /\ tm \in live /\ Equal(tm, m_next) # {}
  /\ d # m_ms[tm] \/ fromNow
  /\ moves' = moves + 1
  /\ moving' = [moving EXCEPT ![u] = tm]
  /\ target' = [target EXCEPT ![u] = [ms |-> d, fromNow |-> fromNow]]
  /\ m_timers' = m_timers \ Equal(tm, m_next)
  /\ UNCHANGED <<clockVars, m_next, m_ms, live, added, wakeVars, idleVars, history>>

\* Second half: compute the new time without the lock and add it again.
ResetPut(u) ==
  LET tm == moving[u]
      d  == target[u].ms IN
  /\ tm # NoTimer /\ Free
  /\ m_ms' = [m_ms EXCEPT ![tm] = d]
  /\ m_next' = [m_next EXCEPT ![tm] =
       IF target[u].fromNow THEN Reading(now + d, tm)
                            ELSE Reading(@.at - m_ms[tm] + d, @.by)]
  /\ AddToSet(m_timers, tm)
  /\ moving' = [moving EXCEPT ![u] = NoTimer]
  /\ target' = [target EXCEPT ![u] = [ms |-> 0, fromNow |-> FALSE]]
  /\ UNCHANGED <<clockVars, live, added, idleVars, moves, history>>

-----------------------------------------------------------------------------
(* A thread of the pool in IOManager::idle. *)

NextAt == IF m_timers = {} THEN MaxTime + Hour
          ELSE m_next[CHOOSE x \in Firsts(m_timers, m_next) : TRUE].at

\* Mutant: m_tickled survives getNextTimer.
GetNextTimerKept(t) ==
  /\ pc[t] = "out" /\ Free
  /\ deadline' = [deadline EXCEPT ![t] = NextAt]
  /\ pc' = [pc EXCEPT ![t] = "sleep"]
  /\ UNCHANGED <<clockVars, timerVars, wakeVars, lock, seen, rollover, resetVars, history>>

\* getNextTimer, and into epoll_wait with what it returned.
GetNextTimer(t) ==
  /\ pc[t] = "out" /\ Free
  /\ m_tickled' = FALSE
  /\ deadline' = [deadline EXCEPT ![t] = NextAt]
  /\ pc' = [pc EXCEPT ![t] = "sleep"]
  /\ UNCHANGED <<clockVars, timerVars, owed, edge, lock, seen, rollover, resetVars, history>>

\* epoll_wait returns: for the pipe, at the deadline, or for another event or
\* MAX_TIMEOUT.  listExpireCb reads the clock before it takes the lock.
Wake(t) ==
  /\ pc[t] = "sleep"
  /\ edge' = FALSE
  /\ seen' = [seen EXCEPT ![t] = now]
  /\ deadline' = [deadline EXCEPT ![t] = 0]
  /\ pc' = [pc EXCEPT ![t] = "woken"]
  /\ UNCHANGED <<clockVars, timerVars, m_tickled, owed, lock, rollover, resetVars, history>>

\* The lock, and detectClockRollover.
ListExpire(t) ==
  /\ pc[t] = "woken" /\ Free
  /\ lock' = t
  /\ rollover' = [rollover EXCEPT ![t] = now < m_preTime - Hour]
  /\ m_preTime' = now
  /\ pc' = [pc EXCEPT ![t] = "expire"]
  /\ UNCHANGED <<now, backs, timerVars, wakeVars, deadline, seen, resetVars, history>>

DueLate(t, tm) == rollover[t] \/ m_next[tm].at < seen[t]    \* Mutant: off by one
Due(t, tm) == rollover[t] \/ m_next[tm].at <= seen[t]

RearmedAlways(tm) == TRUE                         \* Mutant
Rearmed(tm) == tm \in Recurring

RearmAtNow(t, tm) == Reading(seen[t], Batch)      \* Mutant: the period is missing
RearmAt(t, tm) == Reading(seen[t] + m_ms[tm], Batch)

\* One turn of the loop: the first timer leaves the set, its callback goes to
\* cbs; a recurring one is set to `now` plus its period and put back.
ExpireOne(t) ==
  /\ pc[t] = "expire"
  /\ \E tm \in Firsts(m_timers, m_next) :
       /\ Due(t, tm)
       /\ fires' = [fires EXCEPT ![tm] =
            IF tm \in live /\ tm \notin Recurring THEN @ + 1 ELSE @]
       /\ IF Rearmed(tm)
            THEN /\ m_next' = [m_next EXCEPT ![tm] = RearmAt(t, tm)]
                 /\ m_timers' = Insert(m_timers \ {tm}, tm, m_next')
                 /\ UNCHANGED live
            ELSE /\ m_timers' = m_timers \ {tm}
                 /\ live' = live \ {tm}
                 /\ UNCHANGED m_next
  /\ UNCHANGED <<clockVars, m_ms, added, wakeVars, idleVars, resetVars, cancelled>>

\* No timer is left, or none that is due; the callbacks are then scheduled.
ExpireEnd(t) ==
  /\ pc[t] = "expire"
  /\ \A tm \in Firsts(m_timers, m_next) : ~Due(t, tm)
  /\ lock' = Nobody
  /\ pc' = [pc EXCEPT ![t] = "out"]
  /\ seen' = [seen EXCEPT ![t] = 0] /\ rollover' = [rollover EXCEPT ![t] = FALSE]
  /\ UNCHANGED <<clockVars, timerVars, wakeVars, deadline, resetVars, history>>

-----------------------------------------------------------------------------
(* The system clock. *)

Tick ==
  /\ now < MaxTime
  /\ now' = now + 1
  /\ UNCHANGED <<m_preTime, backs, timerVars, wakeVars, idleVars, resetVars, history>>

SetBack ==
  /\ backs < MaxBack
  /\ backs' = backs + 1
  /\ now' \in 0..(now - 1)
  /\ UNCHANGED <<m_preTime, timerVars, wakeVars, idleVars, resetVars, history>>

-----------------------------------------------------------------------------
Init ==
  /\ now = 0 /\ m_preTime = 0 /\ backs = 0
  /\ m_timers = {} /\ live = {} /\ added = {}
  /\ m_next = [tm \in Timers |-> Reading(0, tm)]
  /\ m_ms = [tm \in Timers |-> 0]
  /\ m_tickled = FALSE /\ owed = 0 /\ edge = FALSE
  /\ lock = Nobody
  /\ pc = [t \in Idlers |-> "out"]
  /\ deadline = [t \in Idlers |-> 0]
  /\ seen = [t \in Idlers |-> 0]
  /\ rollover = [t \in Idlers |-> FALSE]
  /\ moving = [u \in Resetters |-> NoTimer]
  /\ target = [u \in Resetters |-> [ms |-> 0, fromNow |-> FALSE]]
  /\ moves = 0
  /\ cancelled = {} /\ fires = [tm \in Timers |-> 0]

UserStep ==
  \/ \E tm \in Timers : \/ \E d \in Periods : AddTimer(tm, d)
                        \/ Cancel(tm) \/ Refresh(tm)
  \/ \E u \in Resetters, tm \in Timers, d \in Periods, fromNow \in BOOLEAN :
       ResetTake(u, tm, d, fromNow)

PoolStep(t) == \/ GetNextTimer(t) \/ Wake(t) \/ ListExpire(t)
               \/ ExpireOne(t) \/ ExpireEnd(t)

Next ==
  \/ UserStep \/ Tickle \/ Tick \/ SetBack
  \/ \E u \in Resetters : ResetPut(u)
  \/ \E t \in Idlers : PoolStep(t)

Spec == Init /\ [][Next]_vars

\* Threads of the pool keep coming back to idle(), epoll_wait has a finite
\* timeout, and a call of reset or of a tickle that has begun is finished.
FairSpec ==
  /\ Spec
  /\ \A t \in Idlers : WF_vars(PoolStep(t)) /\ SF_vars(ListExpire(t))
  /\ \A u \in Resetters : WF_vars(ResetPut(u))
  /\ WF_vars(Tickle)

-----------------------------------------------------------------------------
(* Properties *)

TypeOK ==
  /\ now \in 0..MaxTime /\ m_preTime \in 0..MaxTime
  /\ m_timers \in SUBSET added /\ live \in SUBSET added /\ cancelled \in SUBSET added
  /\ added \in SUBSET Timers
  /\ m_next \in [Timers -> [at : Int, by : Timers \cup {Batch}]]
  /\ m_ms \in [Timers -> Nat] /\ fires \in [Timers -> Nat]
  /\ m_tickled \in BOOLEAN /\ owed \in Nat /\ edge \in BOOLEAN
  /\ lock \in Idlers \cup {Nobody}
  /\ pc \in [Idlers -> {"out", "sleep", "woken", "expire"}]
  /\ \A t \in Idlers : pc[t] = "expire" <=> lock = t
  /\ deadline \in [Idlers -> Int] /\ seen \in [Idlers -> Nat]
  /\ rollover \in [Idlers -> BOOLEAN]
  /\ moving \in [Resetters -> Timers \cup {NoTimer}]
  /\ target \in [Resetters -> [ms : Nat, fromNow : BOOLEAN]]

\* A one-shot timer's callback is handed out at most once, whatever cancel,
\* refresh, reset and several threads in listExpireCb do to it.
OneShotOnce == \A tm \in Timers \ Recurring : fires[tm] <= 1

\* A timer that can still fire is in the set, or in the hands of a reset that
\* will put it back: "timeout tasks are added to the queue" (README:69) for it.
LiveIsManaged ==
  \A tm \in live : tm \in m_timers \/ \E u \in Resetters : moving[u] = tm

\* reset() rewrites m_next and m_ms without the lock (timer.cpp:62-64), and the
\* set is ordered by m_next: until it puts the timer back, the timer is not in
\* the set, and no other reset() has it as well.
ResetHoldsTimer ==
  \A u \in Resetters : moving[u] # NoTimer =>
    /\ moving[u] \notin m_timers
    /\ \A v \in Resetters \ {u} : moving[v] # moving[u]

\* "Remove this timer from the manager's care" (timer.cpp:18): after cancel()
\* the timer is not in the set, where it would keep stopping() from ever
\* answering yes.  For timers that nobody resets: the second half of reset()
\* puts back a timer that was cancelled after the first.
CancelledIsGone == cancelled \cap m_timers = {}

\* Nobody oversleeps: if all threads of the pool are in epoll_wait, one of them
\* will return for the first timer, or the tickle that wakes one is under way.
SleepersCover ==
  \/ m_timers = {} \/ edge \/ owed > 0
  \/ \E t \in Idlers : pc[t] # "sleep" \/ deadline[t] <= NextAt

\* A timer that is due leaves the set or is moved to a later time.
DueTimersFire ==
  \A tm \in Timers :
    LET due == tm \in m_timers /\ m_next[tm].at <= now IN due ~> ~due

\* listExpireCb comes to an end, and with it the exclusive lock that all other
\* operations on timers wait for.
ExpireEnds == \A t \in Idlers : (pc[t] = "expire") ~> (pc[t] # "expire")
=============================================================================

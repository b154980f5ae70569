---------------------------- MODULE TimerProofs ----------------------------
(***************************************************************************)
(* Theorems about TimerManager as Timer models it, for any number of       *)
(* timers, of threads in reset and of threads of the pool.                 *)
(*                                                                         *)
(* The invariant TimerInv says who computed each m_next, which is all that *)
(* makes one timer different from another inside the set, and what cancel  *)
(* and listExpireCb leave of a timer.  It needs nothing of the program.    *)
(* What a theorem further asks of it is in its hypotheses: that no two     *)
(* timers recur, that nobody calls reset, or that the clock is not set     *)
(* back.  The runs Timer_lost, Timer_reset and Timer_live show why.        *)
(***************************************************************************)
EXTENDS Timer, WellFoundedInduction, TLAPS

\* m_next was computed for the timer itself, or for a recurring one in a run of
\* listExpireCb, and lies a period after a time of the clock.
ReadingsOwned ==
  \A tm \in Timers :
    /\ m_next[tm].by = tm \/ (m_next[tm].by = Batch /\ tm \in Recurring)
    /\ m_next[tm].at >= m_ms[tm]

MovingAdded == \A u \in Resetters : moving[u] # NoTimer => moving[u] \in added

\* A one-shot timer that was handed out has lost its callback for good.
FiredIsDead ==
  \A tm \in Timers \ Recurring :
    fires[tm] <= 1 /\ (tm \in live \/ tm \notin added => fires[tm] = 0)

CancelledIsDead == cancelled \cap live = {}

TimerInv ==
  TypeOK /\ backs \in Nat /\ ReadingsOwned /\ MovingAdded /\ FiredIsDead /\ CancelledIsDead

-----------------------------------------------------------------------------
(* The order of the set. *)

\* begin() of a set that is not empty: times of the clock have a least one.
LEMMA FirstExists ==
  ASSUME NEW S \in SUBSET Timers, S # {},
         NEW next \in [Timers -> [at : Int, by : Timers \cup {Batch}]],
         \A tm \in Timers : next[tm].at \in Nat
  PROVE  Firsts(S, next) # {}
<1> DEFINE T == {next[tm].at : tm \in S}
           R == OpToRel(<, Nat)
<1>1. T \subseteq Nat /\ T # {}
  OBVIOUS
<1> HIDE DEF R
<1>2. IsWellFoundedOn(R, Nat)
  BY NatLessThanWellFounded, Zenon DEF R
<1>3. R = {p \in Nat \X Nat : p[1] < p[2]}
  BY Zenon DEF R, OpToRel
<1>4. PICK n \in T : \A k \in T : <<k, n>> \notin R
  BY <1>1, <1>2, WFMin
<1>5. \A k \in T : n <= k
  <2> HIDE DEF T
  <2> SUFFICES ASSUME NEW k \in T, k < n PROVE FALSE
    BY <1>1
  <2>1. <<k, n>> \in Nat \X Nat /\ <<k, n>>[1] < <<k, n>>[2]
    BY <1>1
  <2>2. <<k, n>> \in {p \in Nat \X Nat : p[1] < p[2]}
    BY <2>1, Zenon
  <2> QED BY <1>4, <1>3, <2>2, Zenon
<1> QED BY <1>5 DEF Firsts

\* A set of timers that is not empty has a first one.
LEMMA FirstOfAll ==
  ASSUME TimerInv, m_timers # {}
  PROVE  Firsts(m_timers, m_next) # {}
<1>1. m_timers \in SUBSET Timers /\ m_next \in [Timers -> [at : Int, by : Timers \cup {Batch}]]
  BY DEF TimerInv, TypeOK
<1>2. \A tm \in Timers : m_next[tm].at \in Nat
  BY <1>1 DEF TimerInv, TypeOK, ReadingsOwned
<1> QED BY <1>1, <1>2, FirstExists

\* getNextTimer returns the time of the timers that come first.
LEMMA NextAtIsLeast ==
  ASSUME TimerInv
  PROVE  /\ NextAt \in Int
         /\ \A tm \in m_timers : NextAt <= m_next[tm].at
         /\ \A tm \in Firsts(m_timers, m_next) : NextAt = m_next[tm].at
<1> USE TimerAssumption
<1>1. m_timers \in SUBSET Timers /\ m_next \in [Timers -> [at : Int, by : Timers \cup {Batch}]]
  BY DEF TimerInv, TypeOK
<1>2. CASE m_timers = {}
  BY <1>2 DEF NextAt, Firsts
<1>3. CASE m_timers # {}
  <2>1. PICK x \in Firsts(m_timers, m_next) : NextAt = m_next[x].at
    BY <1>3, FirstOfAll DEF NextAt
  <2> QED BY <1>1, <2>1 DEF Firsts
<1> QED BY <1>2, <1>3

\* insert adds its timer or nothing, and nothing only if an equal one is there.
LEMMA InsertAdds ==
  ASSUME NEW S, NEW tm, NEW next
  PROVE  /\ Insert(S, tm, next) \in {S, S \cup {tm}}
         /\ (\A x \in S : next[x] = next[tm] => x = tm) => Insert(S, tm, next) = S \cup {tm}
BY DEF Insert

\* An expiry time and who computed it.
LEMMA ReadingTyped ==
  ASSUME NEW at \in Int, NEW by \in Timers \cup {Batch}
  PROVE  /\ Reading(at, by) \in [at : Int, by : Timers \cup {Batch}]
         /\ Reading(at, by).at = at /\ Reading(at, by).by = by
BY DEF Reading

\* What addTimer(shared_ptr) does to the tickles.
LEMMA AddToSetWakes ==
  ASSUME TimerInv, NEW tm, AddToSet(m_timers, tm)
  PROVE  /\ m_tickled' \in BOOLEAN /\ owed' \in Nat /\ edge' = edge
         /\ \/ m_tickled' = TRUE /\ owed' = owed + 1
            \/ m_tickled' = m_tickled /\ owed' = owed
<1>1. m_tickled \in BOOLEAN /\ owed \in Nat
  BY DEF TimerInv, TypeOK
<1>2. /\ edge' = edge
      /\ \/ m_tickled' = TRUE /\ owed' = owed + 1
         \/ m_tickled' = m_tickled /\ owed' = owed
  BY Zenon DEF AddToSet
<1>3. m_tickled' \in BOOLEAN
  BY <1>1, <1>2, Zenon
<1>4. owed' \in Nat
  BY <1>1, <1>2
<1> QED BY <1>2, <1>3, <1>4, Zenon

-----------------------------------------------------------------------------
(* TimerInv is inductive. *)

\* TimerInv holds of a TimerManager without timers.
LEMMA InitTimer == Init => TimerInv
<1> SUFFICES ASSUME Init PROVE TimerInv
  OBVIOUS
<1> USE TimerAssumption DEF Init
<1>1. \A tm \in Timers : /\ Reading(0, tm) \in [at : Int, by : Timers \cup {Batch}]
                         /\ Reading(0, tm).at = 0 /\ Reading(0, tm).by = tm
  BY ReadingTyped
<1>2. TypeOK
  <2>1. m_next \in [Timers -> [at : Int, by : Timers \cup {Batch}]]
    BY <1>1
  <2>2. target \in [Resetters -> [ms : Nat, fromNow : BOOLEAN]]
    OBVIOUS
  <2>3. /\ \A t \in Idlers : pc[t] = "expire" <=> lock = t
        /\ pc \in [Idlers -> {"out", "sleep", "woken", "expire"}]
        /\ deadline \in [Idlers -> Int] /\ seen \in [Idlers -> Nat]
        /\ rollover \in [Idlers -> BOOLEAN]
    OBVIOUS
  <2>4. /\ now \in 0..MaxTime /\ m_preTime \in 0..MaxTime /\ owed \in Nat
        /\ lock \in Idlers \cup {Nobody}
    OBVIOUS
  <2>5. /\ m_timers \in SUBSET added /\ live \in SUBSET added
        /\ cancelled \in SUBSET added /\ added \in SUBSET Timers
        /\ m_ms \in [Timers -> Nat] /\ fires \in [Timers -> Nat]
        /\ moving \in [Resetters -> Timers \cup {NoTimer}]
    OBVIOUS
  <2>6. m_tickled \in BOOLEAN /\ edge \in BOOLEAN
    BY Zenon
  <2> QED BY <2>1, <2>2, <2>3, <2>4, <2>5, <2>6, Zenon DEF TypeOK
<1>3. ReadingsOwned /\ MovingAdded /\ FiredIsDead /\ CancelledIsDead
  BY <1>1 DEF ReadingsOwned, MovingAdded, FiredIsDead, CancelledIsDead
<1> QED BY <1>2, <1>3 DEF TimerInv

\* A timer is given the m_next that its caller computed for it: m_next of the
\* others is as it was.
LEMMA MovesReading ==
  ASSUME TimerInv, NEW tm \in Timers, NEW r,
         r \in [at : Int, by : Timers \cup {Batch}],
         r.by = tm \/ (r.by = Batch /\ tm \in Recurring),
         m_next' = [m_next EXCEPT ![tm] = r],
         NEW d \in Nat, r.at >= d, m_ms' = [m_ms EXCEPT ![tm] = d]
  PROVE  /\ m_next' \in [Timers -> [at : Int, by : Timers \cup {Batch}]]
         /\ m_ms' \in [Timers -> Nat]
         /\ ReadingsOwned'
BY DEF TimerInv, TypeOK, ReadingsOwned

\* addTimer
LEMMA AddTimerKeeps ==
  ASSUME TimerInv, NEW tm \in Timers, NEW d \in Periods, AddTimer(tm, d)
  PROVE  TimerInv'
<1> USE TimerAssumption DEF clockVars, idleVars, resetVars, history
<1>1. /\ tm \notin added /\ added' = added \cup {tm} /\ live' = live \cup {tm}
      /\ m_ms' = [m_ms EXCEPT ![tm] = d]
      /\ m_next' = [m_next EXCEPT ![tm] = Reading(now + d, tm)]
      /\ UNCHANGED <<now, m_preTime, backs, lock, pc, deadline, seen, rollover, moving,
                     target, moves, cancelled, fires>>
  BY DEF AddTimer
<1>2. m_timers' \in {m_timers, m_timers \cup {tm}} /\ AddToSet(m_timers, tm)
  BY InsertAdds DEF AddTimer, AddToSet
<1>3. now \in Nat /\ d \in Nat
  BY DEF TimerInv, TypeOK
<1>4. /\ m_next' \in [Timers -> [at : Int, by : Timers \cup {Batch}]]
      /\ m_ms' \in [Timers -> Nat] /\ ReadingsOwned'
  <2> DEFINE r == Reading(now + d, tm)
  <2>1. r \in [at : Int, by : Timers \cup {Batch}] /\ r.at >= d /\ r.by = tm
    BY <1>3, ReadingTyped
  <2>2. m_next' = [m_next EXCEPT ![tm] = r]
    BY <1>1
  <2> HIDE DEF r
  <2> QED BY <1>1, <1>3, <2>1, <2>2, MovesReading
<1>5. TypeOK'
  BY <1>1, <1>2, <1>4, AddToSetWakes DEF TimerInv, TypeOK
<1>6. MovingAdded' /\ FiredIsDead' /\ CancelledIsDead'
  BY <1>1 DEF TimerInv, TypeOK, MovingAdded, FiredIsDead, CancelledIsDead
<1> QED BY <1>1, <1>4, <1>5, <1>6 DEF TimerInv

\* cancel()
LEMMA CancelKeeps ==
  ASSUME TimerInv, NEW tm \in Timers, Cancel(tm)
  PROVE  TimerInv'
<1> USE TimerAssumption DEF clockVars, wakeVars, idleVars, resetVars
<1>1. TypeOK'
  BY DEF TimerInv, TypeOK, Cancel
<1>2. ReadingsOwned' /\ MovingAdded' /\ FiredIsDead' /\ CancelledIsDead'
  BY DEF TimerInv, Cancel, ReadingsOwned, MovingAdded, FiredIsDead, CancelledIsDead
<1> QED BY <1>1, <1>2 DEF TimerInv, Cancel

\* refresh()
LEMMA RefreshKeeps ==
  ASSUME TimerInv, NEW tm \in Timers, Refresh(tm)
  PROVE  TimerInv'
<1> USE TimerAssumption DEF clockVars, wakeVars, idleVars, history
<1>1. /\ tm \in live
      /\ m_next' = [m_next EXCEPT ![tm] = Reading(now + m_ms[tm], tm)]
      /\ UNCHANGED <<now, m_preTime, backs, m_ms, live, added, m_tickled, owed, edge,
                     lock, pc, deadline, seen, rollover, moving, target, cancelled, fires>>
  BY DEF Refresh
<1>2. m_timers' \subseteq m_timers \cup {tm}
  BY InsertAdds DEF Refresh
<1>3. now \in Nat /\ m_ms[tm] \in Nat /\ m_ms' = [m_ms EXCEPT ![tm] = m_ms[tm]]
  BY <1>1 DEF TimerInv, TypeOK
<1>4. /\ m_next' \in [Timers -> [at : Int, by : Timers \cup {Batch}]]
      /\ ReadingsOwned'
  <2> DEFINE r == Reading(now + m_ms[tm], tm)
  <2>1. r \in [at : Int, by : Timers \cup {Batch}] /\ r.at >= m_ms[tm] /\ r.by = tm
    BY <1>3, ReadingTyped
  <2>2. m_next' = [m_next EXCEPT ![tm] = r]
    BY <1>1
  <2> HIDE DEF r
  <2> QED BY <1>3, <2>1, <2>2, MovesReading
<1>5. TypeOK'
  BY <1>1, <1>2, <1>4 DEF TimerInv, TypeOK
<1> QED BY <1>1, <1>4, <1>5 DEF TimerInv, MovingAdded, FiredIsDead, CancelledIsDead

\* reset(), the first critical section
LEMMA ResetTakeKeeps ==
  ASSUME TimerInv, NEW u \in Resetters, NEW tm \in Timers, NEW d \in Periods,
         NEW fromNow \in BOOLEAN, ResetTake(u, tm, d, fromNow)
  PROVE  TimerInv'
<1> USE TimerAssumption DEF clockVars, wakeVars, idleVars, history
<1>1. /\ tm \in live /\ m_timers' \subseteq m_timers
      /\ moving' = [moving EXCEPT ![u] = tm]
      /\ target' = [target EXCEPT ![u] = [ms |-> d, fromNow |-> fromNow]]
      /\ UNCHANGED <<now, m_preTime, backs, m_next, m_ms, live, added, m_tickled, owed,
                     edge, lock, pc, deadline, seen, rollover, cancelled, fires>>
  BY DEF ResetTake
<1>2. target' \in [Resetters -> [ms : Nat, fromNow : BOOLEAN]]
  BY <1>1 DEF TimerInv, TypeOK
<1>3. TypeOK'
  BY <1>1, <1>2 DEF TimerInv, TypeOK
<1>4. MovingAdded'
  BY <1>1 DEF TimerInv, TypeOK, MovingAdded
<1> QED BY <1>1, <1>3, <1>4 DEF TimerInv, ReadingsOwned, FiredIsDead, CancelledIsDead

\* reset(), the second
LEMMA ResetPutKeeps ==
  ASSUME TimerInv, NEW u \in Resetters, ResetPut(u)
  PROVE  TimerInv'
<1> USE TimerAssumption DEF clockVars, idleVars, history
<1> DEFINE tm == moving[u]
           d  == target[u].ms
           r  == IF target[u].fromNow THEN Reading(now + d, tm)
                   ELSE Reading(m_next[tm].at - m_ms[tm] + d, m_next[tm].by)
<1>1. /\ tm # NoTimer
      /\ m_ms' = [m_ms EXCEPT ![tm] = d]
      /\ m_next' = [m_next EXCEPT ![tm] = r]
      /\ moving' = [moving EXCEPT ![u] = NoTimer]
      /\ target' = [target EXCEPT ![u] = [ms |-> 0, fromNow |-> FALSE]]
      /\ UNCHANGED <<now, m_preTime, backs, live, added, lock, pc, deadline, seen,
                     rollover, cancelled, fires>>
  BY DEF ResetPut
<1>2. m_timers' \in {m_timers, m_timers \cup {tm}} /\ AddToSet(m_timers, tm)
  BY InsertAdds DEF ResetPut, AddToSet
<1>3. tm \in Timers /\ tm \in added /\ d \in Nat /\ now \in Nat /\ m_ms[tm] \in Nat
  BY <1>1 DEF TimerInv, TypeOK, MovingAdded
<1>4. /\ m_next[tm].at \in Int /\ m_next[tm].by \in Timers \cup {Batch}
      /\ m_next[tm].at >= m_ms[tm]
      /\ m_next[tm].by = tm \/ (m_next[tm].by = Batch /\ tm \in Recurring)
  BY <1>3 DEF TimerInv, TypeOK, ReadingsOwned
<1>5. /\ r \in [at : Int, by : Timers \cup {Batch}] /\ r.at >= d
      /\ r.by = tm \/ (r.by = Batch /\ tm \in Recurring)
  <2> HIDE DEF tm, d
  <2>1. CASE target[u].fromNow
    BY <2>1, <1>3, ReadingTyped
  <2>2. CASE ~target[u].fromNow
    BY <2>2, <1>3, <1>4, ReadingTyped
  <2> QED BY <2>1, <2>2
<1> HIDE DEF r
<1>6. /\ m_next' \in [Timers -> [at : Int, by : Timers \cup {Batch}]]
      /\ m_ms' \in [Timers -> Nat] /\ ReadingsOwned'
  BY <1>1, <1>3, <1>5, MovesReading
<1>7. target' \in [Resetters -> [ms : Nat, fromNow : BOOLEAN]]
  BY <1>1 DEF TimerInv, TypeOK
<1>8. TypeOK'
  BY <1>1, <1>2, <1>3, <1>6, <1>7, AddToSetWakes DEF TimerInv, TypeOK
<1>9. MovingAdded'
  BY <1>1 DEF TimerInv, TypeOK, MovingAdded
<1> QED BY <1>1, <1>6, <1>8, <1>9 DEF TimerInv, FiredIsDead, CancelledIsDead

\* One turn of the loop in listExpireCb.
LEMMA ExpireOneKeeps ==
  ASSUME TimerInv, NEW t \in Idlers, ExpireOne(t)
  PROVE  TimerInv'
<1> USE TimerAssumption DEF clockVars, wakeVars, idleVars, resetVars
<1>1. PICK tm \in Firsts(m_timers, m_next) :
         /\ fires' = [fires EXCEPT ![tm] =
              IF tm \in live /\ tm \notin Recurring THEN @ + 1 ELSE @]
         /\ \/ /\ tm \in Recurring
               /\ m_next' = [m_next EXCEPT ![tm] = Reading(seen[t] + m_ms[tm], Batch)]
               /\ m_timers' \subseteq m_timers \cup {tm}
               /\ UNCHANGED live
            \/ /\ tm \notin Recurring
               /\ m_timers' = m_timers \ {tm} /\ live' = live \ {tm}
               /\ UNCHANGED m_next
  <2>1. PICK tm \in Firsts(m_timers, m_next) :
          /\ fires' = [fires EXCEPT ![tm] =
               IF tm \in live /\ tm \notin Recurring THEN @ + 1 ELSE @]
          /\ IF Rearmed(tm)
               THEN /\ m_next' = [m_next EXCEPT ![tm] = RearmAt(t, tm)]
                    /\ m_timers' = Insert(m_timers \ {tm}, tm, m_next')
                    /\ UNCHANGED live
               ELSE /\ m_timers' = m_timers \ {tm}
                    /\ live' = live \ {tm}
                    /\ UNCHANGED m_next
    BY DEF ExpireOne
  <2>2. Insert(m_timers \ {tm}, tm, m_next') \subseteq m_timers \cup {tm}
    BY InsertAdds
  <2> QED BY <2>1, <2>2 DEF Rearmed, RearmAt
<1>2. UNCHANGED <<now, m_preTime, backs, m_ms, added, m_tickled, owed, edge, lock, pc,
                  deadline, seen, rollover, moving, target, moves, cancelled>>
  BY DEF ExpireOne
<1>3. tm \in m_timers /\ tm \in Timers /\ tm \in added /\ seen[t] \in Nat /\ m_ms[tm] \in Nat
  BY DEF Firsts, TimerInv, TypeOK
<1>4. fires' \in [Timers -> Nat]
  BY <1>1, <1>3 DEF TimerInv, TypeOK
<1>5. FiredIsDead'
  BY <1>1, <1>2, <1>3 DEF TimerInv, TypeOK, FiredIsDead
<1>6. m_next' \in [Timers -> [at : Int, by : Timers \cup {Batch}]] /\ ReadingsOwned'
  <2>1. CASE tm \in Recurring
    <3> DEFINE r == Reading(seen[t] + m_ms[tm], Batch)
    <3>1. r \in [at : Int, by : Timers \cup {Batch}] /\ r.at >= m_ms[tm] /\ r.by = Batch
      BY <1>3, ReadingTyped
    <3>2. m_next' = [m_next EXCEPT ![tm] = r] /\ m_ms' = [m_ms EXCEPT ![tm] = m_ms[tm]]
      BY <1>1, <1>2, <2>1 DEF TimerInv, TypeOK
    <3> HIDE DEF r
    <3> QED BY <1>3, <2>1, <3>1, <3>2, MovesReading
  <2>2. CASE tm \notin Recurring
    BY <1>1, <1>2, <2>2 DEF TimerInv, TypeOK, ReadingsOwned
  <2> QED BY <2>1, <2>2
<1>7. /\ m_timers' \subseteq m_timers /\ live' \subseteq live
  BY <1>1, <1>3
<1>8. TypeOK'
  BY <1>2, <1>4, <1>6, <1>7 DEF TimerInv, TypeOK
<1> QED BY <1>2, <1>5, <1>6, <1>7, <1>8 DEF TimerInv, MovingAdded, CancelledIsDead

\* The steps that only pass a thread of the pool, a tickle or the clock on.
LEMMA QuietKeeps ==
  ASSUME TimerInv, TypeOK', backs' \in Nat,
         UNCHANGED <<m_next, m_ms, moving, added, fires, live, cancelled>>
  PROVE  TimerInv'
BY DEF TimerInv, ReadingsOwned, MovingAdded, FiredIsDead, CancelledIsDead

\* Time passes, the clock is set back, and a tickle arrives.
LEMMA ClockKeeps ==
  ASSUME TimerInv, Tick \/ SetBack \/ Tickle
  PROVE  TimerInv'
<1> USE TimerAssumption DEF timerVars, wakeVars, idleVars, resetVars, history, clockVars
<1>1. CASE Tick
  <2>1. TypeOK' /\ backs' \in Nat
    BY <1>1 DEF Tick, TimerInv, TypeOK
  <2> QED BY <1>1, <2>1, QuietKeeps DEF Tick
<1>2. CASE SetBack
  <2>1. TypeOK' /\ backs' \in Nat
    BY <1>2 DEF SetBack, TimerInv, TypeOK
  <2> QED BY <1>2, <2>1, QuietKeeps DEF SetBack
<1>3. CASE Tickle
  <2>1. edge' \in BOOLEAN
    BY <1>3, Zenon DEF Tickle
  <2>2. TypeOK' /\ backs' \in Nat
    BY <1>3, <2>1 DEF Tickle, TimerInv, TypeOK
  <2> QED BY <1>3, <2>2, QuietKeeps DEF Tickle
<1> QED BY <1>1, <1>2, <1>3

\* The threads of the pool.
LEMMA PoolKeeps ==
  ASSUME TimerInv, NEW t \in Idlers, PoolStep(t)
  PROVE  TimerInv'
<1> USE TimerAssumption DEF timerVars, wakeVars, idleVars, resetVars, history, clockVars
<1>1. CASE GetNextTimer(t)
  <2>1. NextAt \in Int
    BY NextAtIsLeast
  <2>2. TypeOK' /\ backs' \in Nat
    BY <1>1, <2>1 DEF GetNextTimer, Free, TimerInv, TypeOK
  <2> QED BY <1>1, <2>2, QuietKeeps DEF GetNextTimer
<1>2. CASE Wake(t)
  <2>1. edge' \in BOOLEAN /\ UNCHANGED m_tickled
    BY <1>2, Zenon DEF Wake
  <2>2. seen' \in [Idlers -> Nat] /\ deadline' \in [Idlers -> Int]
    BY <1>2 DEF Wake, TimerInv, TypeOK
  <2>3. \A i \in Idlers : pc'[i] = "expire" <=> lock' = i
    BY <1>2 DEF Wake, TimerInv, TypeOK
  <2>4. TypeOK' /\ backs' \in Nat
    BY <1>2, <2>1, <2>2, <2>3 DEF Wake, TimerInv, TypeOK
  <2> QED BY <1>2, <2>4, QuietKeeps DEF Wake
<1>3. CASE ListExpire(t)
  <2>1. rollover' \in [Idlers -> BOOLEAN]
    BY <1>3 DEF ListExpire, TimerInv, TypeOK
  <2>2. \A i \in Idlers : pc'[i] = "expire" <=> lock' = i
    BY <1>3 DEF ListExpire, Free, TimerInv, TypeOK
  <2>3. TypeOK' /\ backs' \in Nat
    BY <1>3, <2>1, <2>2 DEF ListExpire, TimerInv, TypeOK
  <2> QED BY <1>3, <2>3, QuietKeeps DEF ListExpire
<1>4. CASE ExpireOne(t)
  BY <1>4, ExpireOneKeeps
<1>5. CASE ExpireEnd(t)
  <2>1. \A i \in Idlers : pc'[i] = "expire" <=> lock' = i
    BY <1>5 DEF ExpireEnd, TimerInv, TypeOK
  <2>2. TypeOK' /\ backs' \in Nat
    BY <1>5, <2>1 DEF ExpireEnd, TimerInv, TypeOK
  <2> QED BY <1>5, <2>2, QuietKeeps DEF ExpireEnd
<1> QED BY <1>1, <1>2, <1>3, <1>4, <1>5 DEF PoolStep

\* All of them together.
LEMMA TimerStep == TimerInv /\ [Next]_vars => TimerInv'
<1> SUFFICES ASSUME TimerInv, [Next]_vars PROVE TimerInv'
  OBVIOUS
<1>1. CASE UserStep
  BY <1>1, AddTimerKeeps, CancelKeeps, RefreshKeeps, ResetTakeKeeps DEF UserStep
<1>2. CASE Tickle \/ Tick \/ SetBack
  BY <1>2, ClockKeeps
<1>3. CASE \E u \in Resetters : ResetPut(u)
  BY <1>3, ResetPutKeeps
<1>4. CASE \E t \in Idlers : PoolStep(t)
  BY <1>4, PoolKeeps
<1>5. CASE UNCHANGED vars
  <2>1. TypeOK' /\ backs' \in Nat
    BY <1>5 DEF vars, timerVars, wakeVars, idleVars, resetVars, history, clockVars,
                TimerInv, TypeOK
  <2> QED BY <1>5, <2>1, QuietKeeps DEF vars, timerVars, resetVars, history
<1> QED BY <1>1, <1>2, <1>3, <1>4, <1>5 DEF Next

\* TimerInv always holds: the strengthening the theorems below rest on.
THEOREM TimersInductive == Spec => []TimerInv
BY InitTimer, TimerStep, PTL DEF Spec

\* Every variable of the timer manager keeps its type; in particular
\* m_preTime never leaves the range of the clock, and a thread that holds m_mtx
\* is one inside listExpireCb.
THEOREM TimersTyped == Spec => []TypeOK
<1>1. TimerInv => TypeOK
  BY DEF TimerInv
<1> QED BY <1>1, TimersInductive, PTL

\* The callback of a one-shot timer is handed out at most once, whatever
\* cancel, refresh, reset, the clock and several threads in listExpireCb do.
THEOREM FiresOnce == Spec => []OneShotOnce
<1>1. TimerInv => OneShotOnce
  BY DEF TimerInv, FiredIsDead, OneShotOnce
<1> QED BY <1>1, TimersInductive, PTL

-----------------------------------------------------------------------------
(* Nothing is lost: with at most one recurring timer, no two timers are    *)
(* equal to the set.                                                       *)

OneRecurring == \A x, y \in Recurring : x = y

\* Equal expiry times are of one timer: its own, or the recurring one's.
LEMMA ReadingsDiffer ==
  ASSUME OneRecurring, TimerInv, NEW x \in Timers, NEW y \in Timers, m_next[x] = m_next[y]
  PROVE  x = y
BY TimerAssumption DEF OneRecurring, TimerInv, ReadingsOwned

\* The same of the next state.
LEMMA ReadingsDifferNext ==
  ASSUME OneRecurring, TimerInv', NEW x \in Timers, NEW y \in Timers, m_next'[x] = m_next'[y]
  PROVE  x = y
BY TimerAssumption DEF OneRecurring, TimerInv, ReadingsOwned

\* find answers with the timer it was asked for.
LEMMA EqualIsSelf ==
  ASSUME OneRecurring, TimerInv, NEW tm \in Timers
  PROVE  Equal(tm, m_next) = {tm} \cap m_timers
<1>1. m_timers \subseteq Timers
  BY DEF TimerInv, TypeOK
<1>2. \A x \in Timers : m_next[x] = m_next[tm] => x = tm
  BY ReadingsDiffer
<1> QED BY <1>1, <1>2 DEF Equal

\* insert always adds.
LEMMA InsertsNext ==
  ASSUME OneRecurring, TimerInv', NEW tm \in Timers, NEW S \in SUBSET Timers
  PROVE  Insert(S, tm, m_next') = S \cup {tm}
<1>1. \A x \in Timers : m_next'[x] = m_next'[tm] => x = tm
  BY ReadingsDifferNext
<1> QED BY <1>1, InsertAdds

Managed(tm) == tm \in m_timers \/ \E u \in Resetters : moving[u] = tm

\* What each step does to the set, once timers cannot be taken for each other.
LEMMA ManagedStep ==
  ASSUME OneRecurring, TimerInv, TimerInv', LiveIsManaged, [Next]_vars
  PROVE  LiveIsManaged'
<1> USE DEF timerVars, resetVars
<1>1. m_timers \in SUBSET Timers /\ live \in SUBSET Timers
  BY DEF TimerInv, TypeOK
<1>2. SUFFICES ASSUME NEW x \in live', x \in live => Managed(x)
               PROVE  Managed(x)'
  BY DEF LiveIsManaged, Managed
<1>3. ASSUME NEW tm \in Timers, NEW d \in Periods, AddTimer(tm, d)
      PROVE  Managed(x)'
  <2>1. m_timers' = m_timers \cup {tm}
    BY <1>1, <1>3, InsertsNext DEF AddTimer, AddToSet
  <2> QED BY <1>2, <1>3, <2>1 DEF AddTimer, Managed
<1>4. ASSUME NEW tm \in Timers, Cancel(tm)
      PROVE  Managed(x)'
  <2>1. m_timers' = m_timers \ ({tm} \cap m_timers)
    BY <1>4, EqualIsSelf DEF Cancel
  <2> QED BY <1>2, <1>4, <2>1 DEF Cancel, Managed
<1>5. ASSUME NEW tm \in Timers, Refresh(tm)
      PROVE  Managed(x)'
  <2> DEFINE S == m_timers \ Equal(tm, m_next)
  <2>1. S = m_timers \ {tm} /\ S \in SUBSET Timers
    BY <1>1, EqualIsSelf
  <2>2. m_timers' = Insert(S, tm, m_next') /\ UNCHANGED <<moving, live>>
    BY <1>5 DEF Refresh
  <2> HIDE DEF S
  <2>3. m_timers' = S \cup {tm}
    BY <2>1, <2>2, InsertsNext
  <2> QED BY <1>2, <2>1, <2>2, <2>3 DEF Managed
<1>6. ASSUME NEW u \in Resetters, NEW tm \in Timers, NEW d \in Periods,
             NEW fromNow \in BOOLEAN, ResetTake(u, tm, d, fromNow)
      PROVE  Managed(x)'
  <2>1. m_timers' = m_timers \ ({tm} \cap m_timers)
    BY <1>6, EqualIsSelf DEF ResetTake
  <2>2. /\ moving' = [moving EXCEPT ![u] = tm] /\ moving[u] = NoTimer /\ UNCHANGED live
        /\ moving \in [Resetters -> Timers \cup {NoTimer}] /\ NoTimer \notin Timers
    BY <1>6, TimerAssumption DEF ResetTake, TimerInv, TypeOK
  <2> QED BY <1>1, <1>2, <2>1, <2>2 DEF Managed
<1>7. ASSUME NEW u \in Resetters, ResetPut(u)
      PROVE  Managed(x)'
  <2> DEFINE tm == moving[u]
  <2>1. /\ tm \in Timers /\ m_timers' = Insert(m_timers, tm, m_next')
        /\ moving' = [moving EXCEPT ![u] = NoTimer] /\ UNCHANGED live
    BY <1>7 DEF ResetPut, AddToSet, TimerInv, TypeOK
  <2> HIDE DEF tm
  <2>2. m_timers' = m_timers \cup {tm}
    BY <1>1, <2>1, InsertsNext
  <2>3. moving \in [Resetters -> Timers \cup {NoTimer}]
    BY DEF TimerInv, TypeOK
  <2> QED BY <1>2, <2>1, <2>2, <2>3 DEF Managed, tm
<1>8. ASSUME NEW t \in Idlers, ExpireOne(t)
      PROVE  Managed(x)'
  <2>1. PICK tm \in Firsts(m_timers, m_next) :
          IF Rearmed(tm)
            THEN m_timers' = Insert(m_timers \ {tm}, tm, m_next') /\ UNCHANGED live
            ELSE m_timers' = m_timers \ {tm} /\ live' = live \ {tm}
    BY <1>8 DEF ExpireOne
  <2>2. tm \in Timers /\ m_timers \ {tm} \in SUBSET Timers
    BY <1>1 DEF Firsts
  <2>3. Insert(m_timers \ {tm}, tm, m_next') = (m_timers \ {tm}) \cup {tm}
    BY <2>2, InsertsNext
  <2>4. UNCHANGED moving
    BY <1>8 DEF ExpireOne
  <2> QED BY <1>2, <2>1, <2>3, <2>4 DEF Managed
<1>9. ASSUME UNCHANGED <<m_timers, live, moving>>
      PROVE  Managed(x)'
  BY <1>2, <1>9 DEF Managed
<1> QED
  <2>1. CASE UserStep
    BY <2>1, <1>3, <1>4, <1>5, <1>6 DEF UserStep
  <2>2. CASE Tickle \/ Tick \/ SetBack \/ UNCHANGED vars
    BY <2>2, <1>9 DEF Tickle, Tick, SetBack, vars
  <2>3. CASE \E u \in Resetters : ResetPut(u)
    BY <2>3, <1>7
  <2>4. CASE \E t \in Idlers : PoolStep(t)
    BY <2>4, <1>8, <1>9 DEF PoolStep, GetNextTimer, Wake, ListExpire, ExpireEnd
  <2> QED BY <2>1, <2>2, <2>3, <2>4 DEF Next

\* A timer that can still fire is in the set or in the hands of a reset that
\* will put it back: addTimer, refresh and reset lose no timer of a program in
\* which at most one recurs.
THEOREM NoTimerLost ==
  ASSUME OneRecurring
  PROVE  Spec => []LiveIsManaged
<1>1. Init => LiveIsManaged
  BY DEF Init, LiveIsManaged
<1>2. TimerInv /\ TimerInv' /\ LiveIsManaged /\ [Next]_vars => LiveIsManaged'
  BY ManagedStep
<1> QED BY <1>1, <1>2, TimersInductive, PTL DEF Spec

\* No step puts a timer that a reset() holds into the set, or gives it to another
\* reset(): refresh() and reset() only take a timer that they find.
LEMMA HoldStep ==
  ASSUME OneRecurring, TimerInv, ResetHoldsTimer, [Next]_vars
  PROVE  ResetHoldsTimer'
<1> USE TimerAssumption DEF timerVars, resetVars
<1>1. /\ m_timers \in SUBSET Timers /\ moving \in [Resetters -> Timers \cup {NoTimer}]
      /\ \A u \in Resetters : moving[u] # NoTimer => moving[u] \in added
  BY DEF TimerInv, TypeOK, MovingAdded
<1>2. ASSUME UNCHANGED moving,
             \A u \in Resetters : moving[u] \in m_timers' => moving[u] \in m_timers
      PROVE  ResetHoldsTimer'
  BY <1>1, <1>2 DEF ResetHoldsTimer
<1>3. ASSUME NEW tm \in Timers, NEW d \in Periods, AddTimer(tm, d)
      PROVE  ResetHoldsTimer'
  <2>1. m_timers' \subseteq m_timers \cup {tm} /\ tm \notin added /\ UNCHANGED moving
    BY <1>3, InsertAdds DEF AddTimer, AddToSet
  <2> QED BY <1>1, <1>2, <2>1
<1>4. ASSUME NEW tm \in Timers, Cancel(tm)
      PROVE  ResetHoldsTimer'
  BY <1>2, <1>4 DEF Cancel
<1>5. ASSUME NEW tm \in Timers, Refresh(tm)
      PROVE  ResetHoldsTimer'
  <2>1. tm \in m_timers
    BY <1>5, EqualIsSelf DEF Refresh
  <2>2. m_timers' \subseteq m_timers \cup {tm} /\ UNCHANGED moving
    BY <1>5, InsertAdds DEF Refresh
  <2> QED BY <1>2, <2>1, <2>2
<1>6. ASSUME NEW u \in Resetters, NEW tm \in Timers, NEW d \in Periods,
             NEW fromNow \in BOOLEAN, ResetTake(u, tm, d, fromNow)
      PROVE  ResetHoldsTimer'
  <2>1. tm \in m_timers /\ m_timers' = m_timers \ {tm}
    BY <1>6, EqualIsSelf DEF ResetTake
  <2>2. moving' = [moving EXCEPT ![u] = tm]
    BY <1>6 DEF ResetTake
  <2> QED BY <1>1, <2>1, <2>2 DEF ResetHoldsTimer
<1>7. ASSUME NEW u \in Resetters, ResetPut(u)
      PROVE  ResetHoldsTimer'
  <2>1. m_timers' \subseteq m_timers \cup {moving[u]} /\ moving[u] # NoTimer
    BY <1>7, InsertAdds DEF ResetPut, AddToSet
  <2>2. moving' = [moving EXCEPT ![u] = NoTimer]
    BY <1>7 DEF ResetPut
  <2> QED BY <1>1, <2>1, <2>2 DEF ResetHoldsTimer
<1>8. ASSUME NEW t \in Idlers, ExpireOne(t)
      PROVE  ResetHoldsTimer'
  <2>1. m_timers' \subseteq m_timers /\ UNCHANGED moving
    <3>1. PICK tm \in m_timers :
            m_timers' \in {Insert(m_timers \ {tm}, tm, m_next'), m_timers \ {tm}}
      BY <1>8 DEF ExpireOne, Firsts
    <3> QED BY <1>8, <3>1, InsertAdds DEF ExpireOne
  <2> QED BY <1>2, <2>1
<1>9. ASSUME UNCHANGED <<m_timers, moving>>
      PROVE  ResetHoldsTimer'
  BY <1>2, <1>9
<1> QED
  <2>1. CASE UserStep
    BY <2>1, <1>3, <1>4, <1>5, <1>6 DEF UserStep
  <2>2. CASE Tickle \/ Tick \/ SetBack \/ UNCHANGED vars
    BY <2>2, <1>9 DEF Tickle, Tick, SetBack, vars
  <2>3. CASE \E u \in Resetters : ResetPut(u)
    BY <2>3, <1>7
  <2>4. CASE \E t \in Idlers : PoolStep(t)
    BY <2>4, <1>8, <1>9 DEF PoolStep, GetNextTimer, Wake, ListExpire, ExpireEnd
  <2> QED BY <2>1, <2>2, <2>3, <2>4 DEF Next

\* The timer that reset() rewrites without the lock is in nobody else's hands,
\* neither in the set nor with another reset(), for any number of threads.  With
\* two recurring timers one may be found in place of the other.
THEOREM ResetExclusive ==
  ASSUME OneRecurring
  PROVE  Spec => []ResetHoldsTimer
<1>1. Init => ResetHoldsTimer
  BY DEF Init, ResetHoldsTimer
<1>2. TimerInv /\ ResetHoldsTimer /\ [Next]_vars => ResetHoldsTimer'
  BY HoldStep
<1> QED BY <1>1, <1>2, TimersInductive, PTL DEF Spec

-----------------------------------------------------------------------------
(* Cancelled timers stay out of the set, if no reset() puts them back. *)

\* No step but reset() puts a cancelled timer into the set.
LEMMA GoneStep ==
  ASSUME Resetters = {}, TimerInv, CancelledIsGone, [Next]_vars
  PROVE  CancelledIsGone'
<1> USE DEF timerVars, history
<1>1. ASSUME NEW tm \in Timers, NEW d \in Periods, AddTimer(tm, d)
      PROVE  CancelledIsGone'
  <2>1. m_timers' \subseteq m_timers \cup {tm} /\ tm \notin cancelled /\ UNCHANGED cancelled
    <3>1. m_timers' = Insert(m_timers, tm, m_next') /\ tm \notin added /\ UNCHANGED cancelled
      BY <1>1 DEF AddTimer, AddToSet
    <3>2. Insert(m_timers, tm, m_next') \subseteq m_timers \cup {tm}
      BY InsertAdds
    <3> QED BY <3>1, <3>2 DEF TimerInv, TypeOK
  <2> QED BY <2>1 DEF CancelledIsGone
<1>2. ASSUME NEW tm \in Timers, Cancel(tm)
      PROVE  CancelledIsGone'
  <2>1. tm \in m_timers => tm \in Equal(tm, m_next)
    BY DEF Equal
  <2> QED BY <1>2, <2>1 DEF Cancel, CancelledIsGone
<1>3. ASSUME NEW tm \in Timers, Refresh(tm)
      PROVE  CancelledIsGone'
  <2>1. m_timers' \subseteq m_timers \cup {tm} /\ tm \notin cancelled /\ UNCHANGED cancelled
    BY <1>3, InsertAdds DEF Refresh, TimerInv, CancelledIsDead
  <2> QED BY <2>1 DEF CancelledIsGone
<1>4. ASSUME NEW t \in Idlers, ExpireOne(t)
      PROVE  CancelledIsGone'
  <2>1. PICK tm \in m_timers : m_timers' \in {Insert(m_timers \ {tm}, tm, m_next'), m_timers \ {tm}}
    BY <1>4 DEF ExpireOne, Firsts
  <2>2. m_timers' \subseteq m_timers /\ UNCHANGED cancelled
    BY <1>4, <2>1, InsertAdds DEF ExpireOne
  <2> QED BY <2>2 DEF CancelledIsGone
<1>5. ASSUME UNCHANGED <<m_timers, cancelled>>
      PROVE  CancelledIsGone'
  BY <1>5 DEF CancelledIsGone
<1> QED
  <2>1. CASE UserStep
    BY <2>1, <1>1, <1>2, <1>3 DEF UserStep
  <2>2. CASE Tickle \/ Tick \/ SetBack \/ UNCHANGED vars
    BY <2>2, <1>5 DEF Tickle, Tick, SetBack, vars
  <2>3. CASE \E t \in Idlers : PoolStep(t)
    BY <2>3, <1>4, <1>5 DEF PoolStep, GetNextTimer, Wake, ListExpire, ExpireEnd
  <2> QED BY <2>1, <2>2, <2>3 DEF Next

\* After cancel() a timer is not in the set, in a program that calls no reset():
\* the second half of reset() puts back a timer cancelled after the first.
THEOREM CancelledGone ==
  ASSUME Resetters = {}
  PROVE  Spec => []CancelledIsGone
<1>1. Init => CancelledIsGone
  BY DEF Init, CancelledIsGone
<1>2. TimerInv /\ CancelledIsGone /\ [Next]_vars => CancelledIsGone'
  BY GoneStep
<1> QED BY <1>1, <1>2, TimersInductive, PTL DEF Spec

-----------------------------------------------------------------------------
(* Nobody oversleeps.  A tickle is missed only if m_tickled is set, and it *)
(* is set only while a thread is awake or a tickle is on its way; refresh, *)
(* which never tickles, only moves a timer to a later time.                *)

\* Without a clock that is set back, every timer expires at most its period
\* from now.
Recent ==
  /\ backs = 0
  /\ \A tm \in Timers : m_next[tm].at <= now + m_ms[tm]
  /\ \A t \in Idlers : seen[t] <= now

TickledIsSeen == m_tickled => edge \/ owed > 0 \/ \E t \in Idlers : pc[t] # "sleep"

CoverInv == TimerInv /\ Recent /\ TickledIsSeen /\ SleepersCover

\* One timer's m_next changes, and by no more than its period from now.
LEMMA RecentMoves ==
  ASSUME TimerInv, Recent, NEW tm \in Timers, NEW r, NEW d \in Nat,
         r \in [at : Int, by : Timers \cup {Batch}], r.at <= now + d,
         m_next' = [m_next EXCEPT ![tm] = r], m_ms' = [m_ms EXCEPT ![tm] = d],
         UNCHANGED <<backs, now, seen>>
  PROVE  Recent'
BY DEF TimerInv, TypeOK, Recent

\* No step computes an expiry time further off than its period.
LEMMA RecentStep ==
  ASSUME MaxBack = 0, TimerInv, Recent, [Next]_vars
  PROVE  Recent'
<1> USE TimerAssumption DEF clockVars, timerVars, idleVars
<1>1. now \in Nat /\ m_ms \in [Timers -> Nat] /\ m_next \in [Timers -> [at : Int, by : Timers \cup {Batch}]]
  BY DEF TimerInv, TypeOK
<1>2. ASSUME NEW tm \in Timers, NEW d \in Periods, AddTimer(tm, d)
      PROVE  Recent'
  <2> DEFINE r == Reading(now + d, tm)
  <2>1. d \in Nat /\ r \in [at : Int, by : Timers \cup {Batch}] /\ r.at <= now + d
    BY <1>1, ReadingTyped
  <2>2. /\ m_next' = [m_next EXCEPT ![tm] = r] /\ m_ms' = [m_ms EXCEPT ![tm] = d]
        /\ UNCHANGED <<backs, now, seen>>
    BY <1>2 DEF AddTimer
  <2> HIDE DEF r
  <2> QED BY <2>1, <2>2, RecentMoves
<1>3. ASSUME NEW tm \in Timers, Refresh(tm)
      PROVE  Recent'
  <2> DEFINE r == Reading(now + m_ms[tm], tm)
  <2>1. /\ m_ms[tm] \in Nat /\ r \in [at : Int, by : Timers \cup {Batch}]
        /\ r.at <= now + m_ms[tm]
    BY <1>1, ReadingTyped
  <2>2. /\ m_next' = [m_next EXCEPT ![tm] = r] /\ m_ms' = [m_ms EXCEPT ![tm] = m_ms[tm]]
        /\ UNCHANGED <<backs, now, seen>>
    BY <1>1, <1>3 DEF Refresh
  <2> HIDE DEF r
  <2> QED BY <2>1, <2>2, RecentMoves
<1>4. ASSUME NEW u \in Resetters, ResetPut(u)
      PROVE  Recent'
  <2> DEFINE tm == moving[u]
             d  == target[u].ms
             r  == IF target[u].fromNow THEN Reading(now + d, tm)
                     ELSE Reading(m_next[tm].at - m_ms[tm] + d, m_next[tm].by)
  <2>1. tm \in Timers /\ d \in Nat
    BY <1>4 DEF ResetPut, TimerInv, TypeOK
  <2>2. /\ m_next[tm].at \in Int /\ m_next[tm].by \in Timers \cup {Batch}
        /\ m_ms[tm] \in Nat /\ m_next[tm].at <= now + m_ms[tm]
    BY <1>1, <2>1 DEF Recent
  <2>3. /\ m_next' = [m_next EXCEPT ![tm] = r] /\ m_ms' = [m_ms EXCEPT ![tm] = d]
        /\ UNCHANGED <<backs, now, seen>>
    BY <1>4 DEF ResetPut
  <2>4. r \in [at : Int, by : Timers \cup {Batch}] /\ r.at <= now + d
    <3> HIDE DEF tm, d
    <3>1. CASE target[u].fromNow
      BY <3>1, <1>1, <2>1, ReadingTyped
    <3>2. CASE ~target[u].fromNow
      BY <3>2, <1>1, <2>1, <2>2, ReadingTyped
    <3> QED BY <3>1, <3>2
  <2> HIDE DEF tm, d, r
  <2> QED BY <2>1, <2>3, <2>4, RecentMoves
<1>5. ASSUME NEW t \in Idlers, ExpireOne(t)
      PROVE  Recent'
  <2>1. PICK tm \in Firsts(m_timers, m_next) :
          m_next' \in {m_next, [m_next EXCEPT ![tm] = Reading(seen[t] + m_ms[tm], Batch)]}
    BY <1>5 DEF ExpireOne, RearmAt
  <2>2. tm \in Timers /\ m_ms[tm] \in Nat /\ seen[t] \in Nat /\ seen[t] <= now
    BY DEF Firsts, TimerInv, TypeOK, Recent
  <2>3. UNCHANGED <<backs, now, seen, m_ms>> /\ m_ms' = [m_ms EXCEPT ![tm] = m_ms[tm]]
    BY <1>1, <1>5 DEF ExpireOne
  <2>4. CASE m_next' = m_next
    BY <2>3, <2>4 DEF Recent
  <2>5. CASE m_next' = [m_next EXCEPT ![tm] = Reading(seen[t] + m_ms[tm], Batch)]
    <3> DEFINE r == Reading(seen[t] + m_ms[tm], Batch)
    <3>1. r \in [at : Int, by : Timers \cup {Batch}] /\ r.at <= now + m_ms[tm]
      BY <1>1, <2>2, ReadingTyped
    <3>2. m_next' = [m_next EXCEPT ![tm] = r]
      BY <2>5
    <3> HIDE DEF r
    <3> QED BY <2>2, <2>3, <3>1, <3>2, RecentMoves
  <2> QED BY <2>1, <2>4, <2>5
<1>6. ASSUME UNCHANGED <<backs, m_next, m_ms>>, now' \in {now, now + 1},
             \A t \in Idlers : seen'[t] \in {seen[t], now, 0}
      PROVE  Recent'
  BY <1>1, <1>6 DEF Recent, TimerInv, TypeOK
<1> QED
  <2>1. CASE UserStep
    BY <2>1, <1>2, <1>3, <1>6 DEF UserStep, Cancel, ResetTake
  <2>2. CASE Tickle \/ Tick \/ UNCHANGED vars
    BY <2>2, <1>6 DEF Tickle, Tick, vars
  <2>3. CASE SetBack
    BY <2>3 DEF SetBack, Recent
  <2>4. CASE \E u \in Resetters : ResetPut(u)
    BY <2>4, <1>4
  <2>5. CASE \E t \in Idlers : PoolStep(t)
    <3> SUFFICES ASSUME NEW t \in Idlers, PoolStep(t) PROVE Recent'
      BY <2>5
    <3>1. CASE ExpireOne(t)
      BY <3>1, <1>5
    <3>2. CASE GetNextTimer(t) \/ ListExpire(t)
      BY <3>2, <1>6 DEF GetNextTimer, ListExpire
    <3>3. CASE Wake(t) \/ ExpireEnd(t)
      <4>1. \A i \in Idlers : seen'[i] \in {seen[i], now, 0}
        BY <3>3 DEF Wake, ExpireEnd, TimerInv, TypeOK
      <4> QED BY <3>3, <4>1, <1>6 DEF Wake, ExpireEnd
    <3> QED BY <3>1, <3>2, <3>3 DEF PoolStep
  <2> QED BY <2>1, <2>2, <2>3, <2>4, <2>5 DEF Next

\* m_tickled is set together with a tickle and cleared by the only step that
\* puts a thread to sleep.
LEMMA TickledStep ==
  ASSUME Idlers # {}, TimerInv, TickledIsSeen, [Next]_vars
  PROVE  TickledIsSeen'
<1> USE DEF wakeVars, idleVars
<1>1. owed \in Nat /\ pc \in [Idlers -> {"out", "sleep", "woken", "expire"}]
  BY DEF TimerInv, TypeOK
<1>2. ASSUME NEW tm, AddToSet(m_timers, tm), UNCHANGED pc
      PROVE  TickledIsSeen'
  <2>1. CASE owed' = owed + 1
    BY <1>1, <2>1 DEF TickledIsSeen
  <2>2. CASE m_tickled' = m_tickled /\ owed' = owed
    BY <1>2, <2>2, AddToSetWakes DEF TickledIsSeen
  <2> QED BY <1>2, <2>1, <2>2, AddToSetWakes
<1>3. CASE Tickle
  BY <1>1, <1>3 DEF Tickle, TickledIsSeen
<1>4. ASSUME NEW t \in Idlers, PoolStep(t)
      PROVE  TickledIsSeen'
  <2>1. CASE GetNextTimer(t)
    BY <2>1 DEF GetNextTimer, TickledIsSeen
  <2>2. CASE ~GetNextTimer(t)
    <3>1. pc'[t] # "sleep"
      BY <1>1, <1>4, <2>2 DEF PoolStep, Wake, ListExpire, ExpireOne, ExpireEnd
    <3> QED BY <3>1 DEF TickledIsSeen
  <2> QED BY <2>1, <2>2
<1>5. ASSUME UNCHANGED <<m_tickled, edge, owed, pc>>
      PROVE  TickledIsSeen'
  BY <1>5 DEF TickledIsSeen
<1> QED
  <2>1. CASE UserStep
    BY <2>1, <1>2, <1>5 DEF UserStep, AddTimer, Cancel, Refresh, ResetTake
  <2>2. CASE Tick \/ SetBack \/ UNCHANGED vars
    BY <2>2, <1>5 DEF Tick, SetBack, vars
  <2>3. CASE \E u \in Resetters : ResetPut(u)
    BY <2>3, <1>2 DEF ResetPut
  <2> QED BY <2>1, <2>2, <2>3, <1>3, <1>4 DEF Next

NextKnown ==
  /\ NextAt \in Int
  /\ \A x \in m_timers : NextAt <= m_next[x].at
  /\ m_timers # {} => \E x \in m_timers : NextAt = m_next[x].at

\* What getNextTimer returns is the time of a timer in the set.
LEMMA NextIsOfATimer == TimerInv => NextKnown
<1> SUFFICES ASSUME TimerInv PROVE NextKnown
  OBVIOUS
<1>1. Firsts(m_timers, m_next) \subseteq m_timers
  BY DEF Firsts
<1> QED BY <1>1, NextAtIsLeast, FirstOfAll DEF NextKnown

\* The same of the next state.
LEMMA NextIsOfATimerNext == TimerInv' => NextKnown'
BY NextIsOfATimer, PTL

\* A step that brings no timer before the first leaves the cover in place.
LEMMA CoverFrame ==
  ASSUME TimerInv, TimerInv', SleepersCover, UNCHANGED <<edge, owed, pc, deadline>>,
         \A x \in m_timers' : \E y \in m_timers : m_next[y].at <= m_next'[x].at
  PROVE  SleepersCover'
<1>1. CASE m_timers' = {}
  BY <1>1 DEF SleepersCover
<1>2. CASE m_timers' # {}
  <2>1. PICK x \in m_timers' : NextAt' = m_next'[x].at
    BY <1>2, NextIsOfATimerNext DEF NextKnown
  <2>2. PICK y \in m_timers : m_next[y].at <= m_next'[x].at
    OBVIOUS
  <2>3. NextAt <= m_next[y].at /\ NextAt \in Int /\ NextAt' \in Int
    BY NextIsOfATimer, NextIsOfATimerNext DEF NextKnown
  <2>4. m_next[y].at \in Int /\ deadline \in [Idlers -> Int]
    BY DEF TimerInv, TypeOK
  <2>5. NextAt <= NextAt'
    BY <2>1, <2>2, <2>3, <2>4
  <2> HIDE DEF NextAt
  <2> QED BY <2>2, <2>3, <2>4, <2>5 DEF SleepersCover
<1> QED BY <1>1, <1>2

\* So does one after which a thread of the pool is awake or a tickle is due.
LEMMA AwakeCovers ==
  ASSUME edge' \/ owed' > 0 \/ \E t \in Idlers : pc'[t] # "sleep"
  PROVE  SleepersCover'
BY DEF SleepersCover

\* addTimer(shared_ptr) tickles for a new first timer unless m_tickled says
\* that someone is awake, or about to be.
LEMMA AddCovers ==
  ASSUME TimerInv, TimerInv', TickledIsSeen, SleepersCover, NEW tm \in Timers,
         AddToSet(m_timers, tm), UNCHANGED <<pc, deadline>>,
         \A x \in Timers : x # tm => m_next'[x] = m_next[x]
  PROVE  SleepersCover'
<1>1. owed \in Nat /\ edge' = edge /\ owed' \in {owed, owed + 1}
  BY AddToSetWakes DEF TimerInv, TypeOK
<1>2. PICK first \in Firsts(m_timers', m_next') :
        IF m_next'[first] = m_next'[tm] /\ ~m_tickled THEN owed' = owed + 1
                                                      ELSE owed' = owed
  BY DEF AddToSet
<1>3. CASE owed' = owed + 1
  BY <1>1, <1>3, AwakeCovers
<1>4. CASE m_tickled /\ owed' = owed
  BY <1>1, <1>4, AwakeCovers DEF TickledIsSeen
<1>5. CASE m_next'[first] # m_next'[tm] /\ owed' = owed
  <2>1. m_timers' \in {m_timers, m_timers \cup {tm}} /\ m_timers \in SUBSET Timers
    BY InsertAdds DEF AddToSet, TimerInv, TypeOK
  <2>2. first \in m_timers /\ m_next'[first] = m_next[first]
    BY <1>5, <2>1 DEF Firsts
  <2>3. \A x \in m_timers' : m_next[first].at <= m_next'[x].at
    BY <2>2 DEF Firsts
  <2> QED BY <1>1, <1>5, <2>2, <2>3, CoverFrame
<1> QED BY <1>2, <1>3, <1>4, <1>5

\* refresh() moves a timer to a later time, for which nobody need wake.
LEMMA RefreshCovers ==
  ASSUME TimerInv, TimerInv', Recent, SleepersCover, NEW tm \in Timers, Refresh(tm)
  PROVE  SleepersCover'
<1> USE DEF wakeVars, idleVars
<1>1. /\ now \in Nat /\ m_ms[tm] \in Nat /\ m_timers \in SUBSET Timers
      /\ m_next \in [Timers -> [at : Int, by : Timers \cup {Batch}]]
  BY DEF TimerInv, TypeOK
<1>2. PICK e \in m_timers : m_next[e] = m_next[tm]
  BY DEF Refresh, Equal
<1>3. /\ m_next' = [m_next EXCEPT ![tm] = Reading(now + m_ms[tm], tm)]
      /\ Reading(now + m_ms[tm], tm).at = now + m_ms[tm]
  BY <1>1, ReadingTyped DEF Refresh
<1>4. m_timers' \subseteq m_timers \cup {tm}
  BY InsertAdds DEF Refresh
<1>5. m_next[e].at <= m_next'[tm].at
  BY <1>1, <1>2, <1>3 DEF Recent
<1>6. \A x \in m_timers' : \E y \in m_timers : m_next[y].at <= m_next'[x].at
  <2> SUFFICES ASSUME NEW x \in m_timers', x # tm PROVE x \in m_timers /\ m_next[x].at <= m_next'[x].at
    BY <1>5
  <2>1. x \in m_timers /\ m_next'[x] = m_next[x] /\ m_next[x].at \in Int
    BY <1>1, <1>3, <1>4
  <2> QED BY <2>1
<1> QED BY <1>6, CoverFrame DEF Refresh

\* All of them together.
LEMMA CoverStep ==
  ASSUME Idlers # {}, CoverInv, TimerInv', [Next]_vars
  PROVE  SleepersCover'
<1> USE DEF CoverInv, timerVars, wakeVars, idleVars
<1>1. /\ m_timers \in SUBSET Timers /\ owed \in Nat
      /\ m_next \in [Timers -> [at : Int, by : Timers \cup {Batch}]]
      /\ pc \in [Idlers -> {"out", "sleep", "woken", "expire"}]
      /\ deadline \in [Idlers -> Int]
  BY DEF TimerInv, TypeOK
<1>2. ASSUME NEW tm \in Timers, NEW d \in Periods, AddTimer(tm, d)
      PROVE  SleepersCover'
  <2>1. \A x \in Timers : x # tm => m_next'[x] = m_next[x]
    BY <1>1, <1>2 DEF AddTimer
  <2> QED BY <1>2, <2>1, AddCovers DEF AddTimer
<1>3. ASSUME NEW u \in Resetters, ResetPut(u)
      PROVE  SleepersCover'
  <2> DEFINE tm == moving[u]
  <2>1. tm \in Timers
    BY <1>3 DEF ResetPut, TimerInv, TypeOK
  <2>2. \A x \in Timers : x # tm => m_next'[x] = m_next[x]
    BY <1>1, <1>3 DEF ResetPut
  <2>3. AddToSet(m_timers, tm) /\ UNCHANGED <<pc, deadline>>
    BY <1>3 DEF ResetPut
  <2> HIDE DEF tm
  <2> QED BY <2>1, <2>2, <2>3, AddCovers
<1>4. ASSUME m_timers' \subseteq m_timers, UNCHANGED <<m_next, edge, owed, pc, deadline>>
      PROVE  SleepersCover'
  <2>1. \A x \in m_timers' : m_next[x].at <= m_next'[x].at /\ x \in m_timers
    BY <1>1, <1>4
  <2> QED BY <1>4, <2>1, CoverFrame
<1>5. CASE Tickle
  <2>1. CASE \E t \in Idlers : pc[t] # "out"
    BY <1>5, <2>1, AwakeCovers DEF Tickle
  <2>2. CASE \A t \in Idlers : pc[t] = "out"
    BY <1>5, <2>2, AwakeCovers DEF Tickle
  <2> QED BY <2>1, <2>2
<1>6. ASSUME NEW t \in Idlers, PoolStep(t)
      PROVE  SleepersCover'
  <2>1. CASE GetNextTimer(t)
    <3>1. deadline'[t] = NextAt /\ NextAt' = NextAt /\ NextAt \in Int
      BY <1>1, <2>1, NextAtIsLeast DEF GetNextTimer, NextAt
    <3> HIDE DEF NextAt
    <3> QED BY <3>1 DEF SleepersCover
  <2>2. CASE ~GetNextTimer(t)
    <3>1. pc'[t] # "sleep"
      BY <1>1, <1>6, <2>2 DEF PoolStep, Wake, ListExpire, ExpireOne, ExpireEnd
    <3> QED BY <3>1, AwakeCovers
  <2> QED BY <2>1, <2>2
<1> QED
  <2>1. CASE UserStep
    BY <2>1, <1>2, <1>4, RefreshCovers DEF UserStep, Cancel, ResetTake
  <2>2. CASE Tick \/ SetBack \/ UNCHANGED vars
    BY <2>2, <1>4 DEF Tick, SetBack, vars
  <2>3. CASE \E u \in Resetters : ResetPut(u)
    BY <2>3, <1>3
  <2> QED BY <2>1, <2>2, <2>3, <1>5, <1>6 DEF Next

\* If all threads of the pool are in epoll_wait and a timer is set, one of them
\* returns for the first timer or the tickle that wakes one is under way, with
\* any number of threads in addTimer, cancel, refresh and reset, as long as
\* nobody sets the clock back.
THEOREM NobodyOversleeps ==
  ASSUME Idlers # {}, MaxBack = 0
  PROVE  Spec => []SleepersCover
<1>1. Init => CoverInv
  <2> SUFFICES ASSUME Init PROVE Recent /\ TickledIsSeen /\ SleepersCover
    BY InitTimer DEF CoverInv
  <2>1. \A tm \in Timers : m_next[tm].at = 0 /\ m_ms[tm] = 0
    BY DEF Init, Reading
  <2>2. Recent
    BY <2>1 DEF Init, Recent
  <2> QED BY <2>2 DEF Init, TickledIsSeen, SleepersCover
<1>2. CoverInv /\ [Next]_vars => CoverInv'
  <2> SUFFICES ASSUME CoverInv, [Next]_vars PROVE CoverInv'
    OBVIOUS
  <2>1. TimerInv'
    BY TimerStep DEF CoverInv
  <2> QED BY <2>1, RecentStep, TickledStep, CoverStep DEF CoverInv
<1>3. CoverInv => SleepersCover
  BY DEF CoverInv
<1> QED BY <1>1, <1>2, <1>3, PTL DEF Spec

=============================================================================

----------------------------- MODULE HookProofs -----------------------------
(***************************************************************************)
(* Theorems about the hooked calls of Hook, for any number of fibers,      *)
(* channels and timers.  The invariant HInv follows the two objects a call *)
(* shares with its timer's callback: the timer_info, which is alive while  *)
(* a call or a callback at work owns it, and the registration.             *)
(***************************************************************************)
EXTENDS Hook, FunctionTheorems, FiniteSetTheorems, TLAPS

\* A call has a channel and a timer_info of its own from its start to its end,
\* and starts a timer only if it has a timeout.
InCall ==
  \A f \in Fibers :
    /\ pc[f] = "out" <=> tinfo[f] = NoTinfo
    /\ pc[f] # "out" => fd[f] \in Channels
    /\ pc[f] = "arm" => timed[f]

OwnTinfo ==
  \A f, g \in Fibers : tinfo[f] \in Tinfos /\ tinfo[f] = tinfo[g] => f = g

\* A weak pointer leads to an object that somebody owns, or nowhere.
WeakIsOwned == \A m \in Timers : winfo[m] \in Tinfos => Owned(winfo[m], Fibers, Timers)

InsideHasTinfo == \A m \in Timers : Inside(m) => winfo[m] \in Tinfos

\* Only a call with a timeout has let a callback know its timer_info.
WeakIsTimed ==
  \A f \in Fibers, m \in Timers : tinfo[f] \in Tinfos /\ winfo[m] = tinfo[f] => timed[f]

\* A timer that may still run its callback knows the channel to cancel.
Aimed == \A m \in Timers : tstate[m] # "free" => target[m] \in Channels

Pointers == InCall /\ OwnTinfo /\ WeakIsOwned /\ InsideHasTinfo /\ WeakIsTimed

HInv ==
  TypeOK /\ Pointers /\ Aimed /\ WaitIsClaimed /\ TimerIsHeld /\ UntimedNotCancelled

-----------------------------------------------------------------------------
(* There is a timer_info for every call: more exist than can be owned. *)

\* A function on a finite set has no more values than arguments.
LEMMA ValuesCount ==
  ASSUME NEW S, IsFiniteSet(S), NEW g, g \in [S -> {g[x] : x \in S}]
  PROVE  /\ IsFiniteSet({g[x] : x \in S})
         /\ Cardinality({g[x] : x \in S}) \in Nat /\ Cardinality(S) \in Nat
         /\ Cardinality({g[x] : x \in S}) <= Cardinality(S)
<1> DEFINE V == {g[x] : x \in S}
<1>1. g \in Surjection(S, V)
  BY Fun_IsSurj
<1>2. IsFiniteSet(V) /\ Cardinality(V) <= Cardinality(S)
  BY <1>1, FS_Surjection
<1> QED BY <1>2, FS_CardinalityType

\* make_shared gives a call an object that nobody owns yet.
LEMMA NewTinfoIsNew ==
  ASSUME TypeOK, InCall, NEW f \in Fibers, pc[f] = "out"
  PROVE  NewTinfo \in Tinfos /\ ~Owned(NewTinfo, Fibers, Timers)
<1> USE HookAssumption
<1> DEFINE others == Fibers \ {f}
           ofCalls == [g \in others |-> tinfo[g]]
           A == {ofCalls[g] : g \in others}
           B == {winfo[m] : m \in Timers}
<1>1. /\ IsFiniteSet(others) /\ Cardinality(others) = Cardinality(Fibers) - 1
      /\ Cardinality(Fibers) \in Nat /\ Cardinality(Tinfos) \in Nat
  BY FS_RemoveElement, FS_CardinalityType
<1>2. /\ IsFiniteSet(A) /\ Cardinality(A) \in Nat
      /\ Cardinality(A) <= Cardinality(others)
  <2>1. ofCalls \in [others -> A]
    OBVIOUS
  <2> HIDE DEF ofCalls
  <2> QED BY <1>1, <2>1, ValuesCount
<1>3. /\ IsFiniteSet(B) /\ Cardinality(B) \in Nat
      /\ Cardinality(B) <= Cardinality(Timers) /\ Cardinality(Timers) \in Nat
  <2>1. winfo \in [Timers -> B]
    BY DEF TypeOK
  <2> QED BY <2>1, ValuesCount
<1>4. /\ IsFiniteSet(A \cup B)
      /\ Cardinality(A \cup B) <= Cardinality(A) + Cardinality(B)
  <2>1. IsFiniteSet(A \cap B) /\ Cardinality(A \cap B) \in Nat
    BY <1>2, FS_Intersection, FS_CardinalityType
  <2> HIDE DEF A, B
  <2>2. /\ IsFiniteSet(A \cup B)
        /\ Cardinality(A \cup B) = Cardinality(A) + Cardinality(B) - Cardinality(A \cap B)
    BY <1>2, <1>3, FS_Union
  <2> QED BY <1>2, <1>3, <2>1, <2>2
<1>5. ~(Tinfos \subseteq A \cup B)
  <2> SUFFICES ASSUME Tinfos \subseteq A \cup B PROVE FALSE
    OBVIOUS
  <2>1. Cardinality(Tinfos) <= Cardinality(A \cup B)
    BY <1>4, FS_Subset
  <2>2. Cardinality(A \cup B) \in Nat
    BY <1>4, FS_CardinalityType
  <2> HIDE DEF A, B, others
  <2> QED BY <1>1, <1>2, <1>3, <1>4, <2>1, <2>2
<1>6. PICK i \in Tinfos : i \notin A /\ i \notin B
  BY <1>5
<1>7. tinfo[f] = NoTinfo
  BY DEF InCall
<1>8. ~Owned(i, Fibers, Timers)
  BY <1>6, <1>7 DEF Owned
<1> QED BY <1>8 DEF NewTinfo

-----------------------------------------------------------------------------
(* What a step must leave alone to keep each part of the invariant. *)

\* The pointers: no call begins or ends, weak pointers are only let go, and a
\* callback starts work only on an object it has found alive.
LEMMA PointersFrame ==
  ASSUME TypeOK, Pointers, UNCHANGED <<fd, timed, tinfo>>,
         \A f \in Fibers : /\ pc'[f] = "out" <=> pc[f] = "out"
                           /\ pc'[f] = "arm" => timed[f],
         \A m \in Timers :
           /\ winfo'[m] = winfo[m] \/ (winfo'[m] = NoTinfo /\ ~Inside(m) /\ ~Inside(m)')
           /\ Inside(m) => Inside(m)'
           /\ Inside(m)' => Inside(m) \/ winfo[m] \in Tinfos
  PROVE  Pointers'
<1> USE HookAssumption
<1>1. InCall' /\ OwnTinfo' /\ WeakIsTimed'
  BY DEF Pointers, InCall, OwnTinfo, WeakIsTimed
<1>2. InsideHasTinfo'
  BY DEF Pointers, InsideHasTinfo
<1>3. WeakIsOwned'
  <2> SUFFICES ASSUME NEW m \in Timers, winfo'[m] \in Tinfos
               PROVE  Owned(winfo[m], Fibers, Timers)'
    BY DEF WeakIsOwned, Owned
  <2>1. winfo'[m] = winfo[m] /\ Owned(winfo[m], Fibers, Timers)
    BY DEF Pointers, WeakIsOwned
  <2> QED BY <2>1 DEF Owned
<1> QED BY <1>1, <1>2, <1>3 DEF Pointers

\* Steps that neither register, wake nor let a call go on.
LEMMA ClaimFrame ==
  ASSUME WaitIsClaimed, UNCHANGED <<registered, woken>>,
         \A f \in Fibers : /\ pc'[f] = "wait" <=> pc[f] = "wait"
                           /\ pc[f] = "wait" => fd'[f] = fd[f]
  PROVE  WaitIsClaimed'
BY DEF WaitIsClaimed

\* A timer that is still set belongs to the call that set it, or the call cleared it.
LEMMA HeldFrame ==
  ASSUME TimerIsHeld,
         \A m \in Timers : tstate'[m] = "set" => tstate[m] = "set",
         \A f \in Fibers : pc[f] \in {"add", "wait"} =>
           \/ pc'[f] \in {"add", "wait"} /\ timer'[f] = timer[f]
           \/ \A m \in Timers : timer[f] = m => tstate'[m] # "set"
  PROVE  TimerIsHeld'
<1> SUFFICES ASSUME NEW m \in Timers, tstate'[m] = "set"
             PROVE  \E f \in Fibers : timer'[f] = m /\ pc'[f] \in {"add", "wait"}
  BY DEF TimerIsHeld
<1>1. PICK f \in Fibers : timer[f] = m /\ pc[f] \in {"add", "wait"}
  BY DEF TimerIsHeld
<1> QED BY <1>1

\* Steps that start no timer.
LEMMA AimedFrame ==
  ASSUME Aimed,
         \A m \in Timers : tstate'[m] # "free" => tstate[m] # "free" /\ target'[m] = target[m]
  PROVE  Aimed'
BY DEF Aimed

\* Steps that mark no timer_info.
LEMMA UntimedFrame ==
  ASSUME UntimedNotCancelled, UNCHANGED <<timed, tinfo>>,
         \A f \in Fibers : pc'[f] # "out" => pc[f] # "out",
         \A i : cancelled'[i] => cancelled[i]
  PROVE  UntimedNotCancelled'
BY DEF UntimedNotCancelled

-----------------------------------------------------------------------------
(* The invariant is inductive: one step per action. *)

\* HInv holds while no call has been made.
LEMMA InitHInv == Init => HInv
<1> SUFFICES ASSUME Init PROVE HInv
  OBVIOUS
<1> USE HookAssumption DEF Init
<1>1. TypeOK
  BY DEF TypeOK
<1>2. Pointers
  BY DEF Pointers, InCall, OwnTinfo, WeakIsOwned, InsideHasTinfo, Inside, WeakIsTimed
<1>3. Aimed /\ WaitIsClaimed /\ TimerIsHeld /\ UntimedNotCancelled
  BY DEF Aimed, WaitIsClaimed, TimerIsHeld, UntimedNotCancelled
<1> QED BY <1>1, <1>2, <1>3 DEF HInv

\* The points of a call at which it only goes on to another point.
LEMMA TryingKeeps ==
  ASSUME HInv, NEW f \in Fibers,
         TrySucceeds(f) \/ TryFails(f) \/ TryWouldBlock(f)
           \/ CheckEnds(f) \/ CheckRetries(f)
  PROVE  HInv'
<1> USE DEF callVars, timerVars, eventVars, kernelVars
<1>1. /\ pc[f] \in {"try", "check"}
      /\ \E l \in {"try", "arm", "add", "return"} :
           pc' = [pc EXCEPT ![f] = l] /\ (l = "arm" => timed[f])
      /\ UNCHANGED <<timer, fd, timed, tinfo, cancelled, tstate, winfo, target,
                     registered, woken, reported, sockets, timeouts>>
      /\ ready' \subseteq ready
  BY DEF TrySucceeds, TryFails, TryWouldBlock, CheckEnds, CheckRetries, Goto
<1>2. TypeOK'
  BY <1>1 DEF HInv, TypeOK
<1>3. \A g \in Fibers : /\ pc'[g] = "out" <=> pc[g] = "out"
                        /\ pc'[g] = "wait" <=> pc[g] = "wait"
                        /\ pc[g] \in {"add", "wait"} => pc'[g] = pc[g]
                        /\ pc'[g] = "arm" => timed[g]
  BY <1>1 DEF HInv, TypeOK, Pointers, InCall
<1>4. Pointers'
  BY <1>1, <1>3, PointersFrame DEF HInv, Inside
<1>5. Aimed' /\ WaitIsClaimed' /\ TimerIsHeld' /\ UntimedNotCancelled'
  BY <1>1, <1>3, AimedFrame, ClaimFrame, HeldFrame, UntimedFrame DEF HInv
<1> QED BY <1>2, <1>4, <1>5 DEF HInv

\* The start of a call: its timer_info is one that no callback can reach.
LEMMA CallKeeps ==
  ASSUME HInv, NEW f \in Fibers, NEW c \in Channels, NEW tm \in BOOLEAN, Call(f, c, tm)
  PROVE  HInv'
<1> USE HookAssumption DEF timerVars, eventVars, kernelVars
<1> DEFINE new == NewTinfo
<1>1. new \in Tinfos /\ ~Owned(new, Fibers, Timers)
  BY NewTinfoIsNew DEF HInv, Pointers, Call
<1>2. /\ pc[f] = "out" /\ pc' = [pc EXCEPT ![f] = "try"]
      /\ fd' = [fd EXCEPT ![f] = c] /\ timed' = [timed EXCEPT ![f] = tm]
      /\ tinfo' = [tinfo EXCEPT ![f] = new]
      /\ cancelled' = [cancelled EXCEPT ![new] = FALSE]
      /\ UNCHANGED <<timer, tstate, winfo, target, registered, woken, ready, reported,
                     sockets, timeouts>>
  BY DEF Call, Goto
<1> HIDE DEF new
<1>3. TypeOK'
  BY <1>1, <1>2 DEF HInv, TypeOK
<1>4. /\ \A g \in Fibers : tinfo[g] # new
      /\ \A m \in Timers : winfo[m] # new
  BY <1>1 DEF Owned, HInv, Pointers, WeakIsOwned
<1>5. Pointers'
  <2>1. InCall' /\ OwnTinfo'
    BY <1>1, <1>2, <1>4 DEF HInv, TypeOK, Pointers, InCall, OwnTinfo
  <2>2. InsideHasTinfo'
    BY <1>2 DEF HInv, Pointers, InsideHasTinfo, Inside
  <2>3. WeakIsTimed'
    BY <1>2, <1>4 DEF HInv, TypeOK, Pointers, WeakIsTimed
  <2>4. WeakIsOwned'
    <3> SUFFICES ASSUME NEW m \in Timers, winfo[m] \in Tinfos
                 PROVE  Owned(winfo[m], Fibers, Timers)'
      BY <1>2 DEF WeakIsOwned, Owned
    <3>1. tinfo[f] = NoTinfo /\ Owned(winfo[m], Fibers, Timers)
      BY <1>2 DEF HInv, Pointers, InCall, WeakIsOwned
    <3> QED BY <1>2, <3>1 DEF Owned, Inside, HInv, TypeOK
  <2> QED BY <2>1, <2>2, <2>3, <2>4 DEF Pointers
<1>6. Aimed' /\ WaitIsClaimed' /\ TimerIsHeld'
  BY <1>2, AimedFrame, ClaimFrame, HeldFrame DEF HInv, TypeOK
<1>7. UntimedNotCancelled'
  <2> SUFFICES ASSUME NEW g \in Fibers, pc'[g] # "out", ~timed'[g]
               PROVE  ~cancelled'[tinfo'[g]]
    BY DEF UntimedNotCancelled
  <2>1. CASE g = f
    BY <2>1, <1>1, <1>2 DEF HInv, TypeOK
  <2>2. CASE g # f
    BY <2>2, <1>1, <1>2, <1>4 DEF HInv, TypeOK, UntimedNotCancelled
  <2> QED BY <2>1, <2>2
<1> QED BY <1>3, <1>5, <1>6, <1>7 DEF HInv

\* Its end: the object dies unless a callback at work still owns it, and no weak
\* pointer leads to a dead one.
LEMMA ReturnKeeps ==
  ASSUME HInv, NEW f \in Fibers, Return(f)
  PROVE  HInv'
<1> USE HookAssumption DEF eventVars, kernelVars
<1> DEFINE i == tinfo[f]
<1>1. i \in Tinfos
  BY DEF Return, HInv, TypeOK, Pointers, InCall
<1>2. /\ pc[f] = "return" /\ pc' = [pc EXCEPT ![f] = "out"]
      /\ fd' = [fd EXCEPT ![f] = NoChannel] /\ timed' = [timed EXCEPT ![f] = FALSE]
      /\ timer' = [timer EXCEPT ![f] = NoTimer] /\ tinfo' = [tinfo EXCEPT ![f] = NoTinfo]
      /\ UNCHANGED <<tstate, target, registered, woken, ready, reported, sockets, timeouts>>
  BY DEF Return, Goto
<1>3. /\ cancelled' = [cancelled EXCEPT ![i] = @ /\ Owned(i, Fibers \ {f}, Timers)]
      /\ winfo' = [m \in Timers |->
           IF winfo[m] = i /\ ~Owned(i, Fibers \ {f}, Timers) THEN NoTinfo ELSE winfo[m]]
  BY DEF Return, Release
<1> HIDE DEF i
<1>4. TypeOK'
  <2>1. cancelled' \in [Tinfos -> BOOLEAN]
    BY <1>1, <1>3 DEF HInv, TypeOK
  <2> QED BY <1>1, <1>2, <1>3, <2>1 DEF HInv, TypeOK
<1>5. Pointers'
  <2>1. InCall' /\ OwnTinfo'
    BY <1>2 DEF HInv, TypeOK, Pointers, InCall, OwnTinfo
  <2>2. \A m \in Timers : Inside(m) => Owned(winfo[m], Fibers \ {f}, Timers)
    BY DEF Owned
  <2>3. \A m \in Timers : Inside(m) => winfo'[m] = winfo[m]
    BY <1>3, <2>2
  <2>4. InsideHasTinfo'
    BY <1>2, <2>3 DEF HInv, Pointers, InsideHasTinfo, Inside
  <2>5. WeakIsTimed'
    BY <1>2, <1>3 DEF HInv, TypeOK, Pointers, WeakIsTimed
  <2>6. WeakIsOwned'
    <3> SUFFICES ASSUME NEW m \in Timers, winfo'[m] \in Tinfos
                 PROVE  Owned(winfo[m], Fibers, Timers)'
      BY DEF WeakIsOwned, Owned
    <3>1. /\ winfo'[m] = winfo[m] /\ Owned(winfo[m], Fibers, Timers)
          /\ winfo[m] = i => Owned(i, Fibers \ {f}, Timers)
      BY <1>3 DEF HInv, Pointers, WeakIsOwned
    <3>2. Owned(winfo[m], Fibers \ {f}, Timers)
      BY <3>1 DEF Owned, i
    <3>3. CASE \E g \in Fibers \ {f} : tinfo[g] = winfo[m]
      BY <1>2, <3>1, <3>3 DEF Owned, HInv, TypeOK
    <3>4. CASE \E n \in Timers : Inside(n) /\ winfo[n] = winfo[m]
      BY <1>2, <2>3, <3>1, <3>4 DEF Owned, Inside
    <3> QED BY <3>2, <3>3, <3>4 DEF Owned
  <2> QED BY <2>1, <2>4, <2>5, <2>6 DEF Pointers
<1>6. Aimed' /\ WaitIsClaimed' /\ TimerIsHeld'
  BY <1>2, AimedFrame, ClaimFrame, HeldFrame DEF HInv, TypeOK
<1>7. UntimedNotCancelled'
  <2>1. \A g \in Fibers \ {f} : pc[g] # "out" /\ cancelled'[tinfo[g]] => cancelled[tinfo[g]]
    BY <1>3 DEF HInv, TypeOK
  <2> QED BY <1>2, <2>1 DEF HInv, TypeOK, UntimedNotCancelled
<1> QED BY <1>4, <1>5, <1>6, <1>7 DEF HInv

\* addConditionTimer: the callback's weak pointer is to the call's own object.
LEMMA ArmKeeps ==
  ASSUME HInv, NEW f \in Fibers, Arm(f)
  PROVE  HInv'
<1> USE HookAssumption DEF callVars, eventVars, kernelVars
<1> DEFINE tm == CHOOSE n \in Timers : Unused(n)
<1>1. tm \in Timers /\ tstate[tm] = "free"
  BY DEF Arm, Unused
<1>2. /\ pc[f] = "arm" /\ pc' = [pc EXCEPT ![f] = "add"]
      /\ tstate' = [tstate EXCEPT ![tm] = "set"] /\ winfo' = [winfo EXCEPT ![tm] = tinfo[f]]
      /\ target' = [target EXCEPT ![tm] = fd[f]] /\ timer' = [timer EXCEPT ![f] = tm]
      /\ UNCHANGED <<fd, timed, tinfo, cancelled, registered, woken, ready, reported,
                     sockets, timeouts>>
  BY DEF Arm, Goto
<1> HIDE DEF tm
<1>3. TypeOK'
  BY <1>1, <1>2 DEF HInv, TypeOK
<1>4. timed[f] /\ tinfo[f] \in Tinfos
  BY <1>2 DEF HInv, TypeOK, Pointers, InCall
<1>5. Pointers'
  <2>1. InCall' /\ OwnTinfo'
    BY <1>2 DEF HInv, TypeOK, Pointers, InCall, OwnTinfo
  <2>2. \A n \in Timers : n # tm => tstate'[n] = tstate[n] /\ winfo'[n] = winfo[n]
    BY <1>1, <1>2 DEF HInv, TypeOK
  <2>3. InsideHasTinfo'
    BY <1>1, <1>2, <2>2 DEF HInv, TypeOK, Pointers, InsideHasTinfo, Inside
  <2>4. WeakIsTimed'
    BY <1>1, <1>2, <1>4 DEF HInv, TypeOK, Pointers, WeakIsTimed, OwnTinfo
  <2>5. WeakIsOwned'
    <3> SUFFICES ASSUME NEW n \in Timers, winfo'[n] \in Tinfos
                 PROVE  Owned(winfo[n], Fibers, Timers)'
      BY DEF WeakIsOwned, Owned
    <3>1. CASE n = tm
      BY <3>1, <1>1, <1>2 DEF Owned, HInv, TypeOK
    <3>2. CASE n # tm
      <4>1. winfo'[n] = winfo[n] /\ Owned(winfo[n], Fibers, Timers)
        BY <3>2, <1>2 DEF HInv, TypeOK, Pointers, WeakIsOwned
      <4>2. ASSUME NEW k \in Timers, Inside(k)
            PROVE  k # tm
        BY <1>1, <4>2 DEF Inside
      <4> QED BY <4>1, <4>2, <2>2, <1>2 DEF Owned, Inside
    <3> QED BY <3>1, <3>2
  <2> QED BY <2>1, <2>3, <2>4, <2>5 DEF Pointers
<1>6. \A g \in Fibers : /\ pc'[g] = "wait" <=> pc[g] = "wait"
                        /\ pc'[g] = "out" <=> pc[g] = "out"
  BY <1>2 DEF HInv, TypeOK
<1>7. WaitIsClaimed' /\ UntimedNotCancelled'
  BY <1>2, <1>6, ClaimFrame, UntimedFrame DEF HInv
<1>8. Aimed'
  BY <1>1, <1>2 DEF HInv, TypeOK, Pointers, InCall, Aimed
<1>9. TimerIsHeld'
  <2> SUFFICES ASSUME NEW n \in Timers, tstate'[n] = "set"
               PROVE  \E g \in Fibers : timer'[g] = n /\ pc'[g] \in {"add", "wait"}
    BY DEF TimerIsHeld
  <2>1. CASE n = tm
    BY <2>1, <1>2 DEF HInv, TypeOK
  <2>2. CASE n # tm
    BY <2>2, <1>2 DEF HInv, TypeOK, TimerIsHeld
  <2> QED BY <2>1, <2>2
<1> QED BY <1>3, <1>5, <1>7, <1>8, <1>9 DEF HInv

\* timer->cancel(): only a timer in the set goes.
LEMMA CancelTimerFacts ==
  ASSUME TypeOK, NEW f \in Fibers, CancelTimer(f)
  PROVE  /\ tstate' \in [Timers -> {"free", "set", "due", "checked", "marked"}]
         /\ winfo' \in [Timers -> Tinfos \cup {NoTinfo}]
         /\ target' \in [Timers -> Channels \cup {NoChannel}]
         /\ \A m \in Timers :
              /\ timer[f] = m => tstate'[m] # "set"
              /\ tstate'[m] = tstate[m]
                   \/ (tstate[m] = "set" /\ tstate'[m] = "free")
              /\ winfo'[m] = winfo[m] \/ (winfo'[m] = NoTinfo /\ tstate[m] = "set"
                                                             /\ tstate'[m] = "free")
              /\ target'[m] = target[m] \/ tstate'[m] = "free"
BY HookAssumption DEF TypeOK, CancelTimer, Forget, timerVars

\* addEvent: the registration, or the refusal.
LEMMA AddKeeps ==
  ASSUME HInv, NEW f \in Fibers, AddEvent(f) \/ AddRefused(f)
  PROVE  HInv'
<1> USE HookAssumption DEF callVars, timerVars, kernelVars, eventVars
<1>1. CASE AddEvent(f)
  <2>1. /\ pc[f] = "add" /\ pc' = [pc EXCEPT ![f] = "wait"]
        /\ registered[fd[f]] = NoFiber
        /\ registered' = [registered EXCEPT ![fd[f]] = f]
        /\ UNCHANGED <<fd, timed, timer, tinfo, cancelled, tstate, winfo, target, woken,
                       ready, reported, sockets, timeouts>>
    BY <1>1 DEF AddEvent, Goto
  <2>2. TypeOK'
    BY <2>1 DEF HInv, TypeOK
  <2>3. Pointers'
    BY <2>1, PointersFrame DEF HInv, TypeOK, Pointers, InCall, Inside
  <2>4. Aimed' /\ TimerIsHeld' /\ UntimedNotCancelled'
    BY <2>1, AimedFrame, HeldFrame, UntimedFrame DEF HInv, TypeOK
  <2>5. WaitIsClaimed'
    <3>1. fd[f] \in Channels /\ f \notin woken
      BY <2>1 DEF HInv, Pointers, InCall, WaitIsClaimed
    <3> QED BY <2>1, <3>1 DEF HInv, TypeOK, WaitIsClaimed
  <2> QED BY <2>2, <2>3, <2>4, <2>5 DEF HInv
<1>2. CASE AddRefused(f)
  <2>1. /\ pc[f] = "add" /\ pc' = [pc EXCEPT ![f] = "return"] /\ CancelTimer(f)
        /\ UNCHANGED <<fd, timed, timer, tinfo, cancelled, registered, woken, ready,
                       reported, sockets, timeouts>>
    BY <1>2 DEF AddRefused, Goto
  <2>2. TypeOK'
    BY <2>1, CancelTimerFacts DEF HInv, TypeOK
  <2>3. Pointers'
    BY <2>1, CancelTimerFacts, PointersFrame DEF HInv, TypeOK, Pointers, InCall, Inside
  <2>4. WaitIsClaimed' /\ UntimedNotCancelled'
    BY <2>1, ClaimFrame, UntimedFrame DEF HInv, TypeOK
  <2>5. Aimed' /\ TimerIsHeld'
    BY <2>1, CancelTimerFacts, AimedFrame, HeldFrame DEF HInv, TypeOK
  <2> QED BY <2>2, <2>3, <2>4, <2>5 DEF HInv
<1> QED BY <1>1, <1>2

\* Back from yield.
LEMMA ResumeKeeps ==
  ASSUME HInv, NEW f \in Fibers, Resume(f)
  PROVE  HInv'
<1> USE HookAssumption DEF callVars, kernelVars
<1>1. /\ pc[f] = "wait" /\ f \in woken /\ pc' = [pc EXCEPT ![f] = "check"]
      /\ woken' = woken \ {f} /\ timer' = [timer EXCEPT ![f] = NoTimer] /\ CancelTimer(f)
      /\ UNCHANGED <<fd, timed, tinfo, cancelled, registered, ready, reported, sockets,
                     timeouts>>
  BY DEF Resume, Goto
<1>2. TypeOK'
  BY <1>1, CancelTimerFacts DEF HInv, TypeOK
<1>3. Pointers'
  BY <1>1, CancelTimerFacts, PointersFrame DEF HInv, TypeOK, Pointers, InCall, Inside
<1>4. UntimedNotCancelled'
  BY <1>1, UntimedFrame DEF HInv, TypeOK
<1>5. Aimed' /\ TimerIsHeld'
  BY <1>1, CancelTimerFacts, AimedFrame, HeldFrame DEF HInv, TypeOK
<1>6. WaitIsClaimed'
  BY <1>1 DEF HInv, TypeOK, WaitIsClaimed
<1> QED BY <1>2, <1>3, <1>4, <1>5, <1>6 DEF HInv

\* The timer expires, and its callback looks for the call.
LEMMA ExpireKeeps ==
  ASSUME HInv, NEW m \in Timers, Expire(m) \/ CbCheck(m)
  PROVE  HInv'
<1> USE HookAssumption DEF fiberVars, callVars, eventVars, kernelVars
<1>1. /\ UNCHANGED <<pc, fd, timed, timer, tinfo, cancelled, registered, woken, ready,
                     reported, sockets, timeouts>>
      /\ tstate[m] \in {"set", "due"}
      /\ \/ \E l \in {"due", "checked"} :
              /\ tstate' = [tstate EXCEPT ![m] = l] /\ UNCHANGED <<winfo, target>>
              /\ l = "checked" => winfo[m] # NoTinfo
         \/ Forget(m)
  BY DEF Expire, CbCheck
<1>2. TypeOK'
  BY <1>1 DEF HInv, TypeOK, Forget
<1>3. \A n \in Timers :
        /\ winfo'[n] = winfo[n] \/ (winfo'[n] = NoTinfo /\ ~Inside(n) /\ ~Inside(n)')
        /\ Inside(n) => Inside(n)'
        /\ Inside(n)' => Inside(n) \/ winfo[n] \in Tinfos
  BY <1>1 DEF HInv, TypeOK, Forget, Inside
<1>4. Pointers'
  BY <1>1, <1>3, PointersFrame DEF HInv, Pointers, InCall
<1>5. WaitIsClaimed' /\ UntimedNotCancelled'
  BY <1>1, ClaimFrame, UntimedFrame DEF HInv
<1>6. Aimed' /\ TimerIsHeld'
  BY <1>1, AimedFrame, HeldFrame DEF HInv, TypeOK, Forget
<1> QED BY <1>2, <1>4, <1>5, <1>6 DEF HInv

\* ETIMEDOUT: whoever has this timer_info is a call with a timeout.
LEMMA MarkKeeps ==
  ASSUME HInv, NEW m \in Timers, CbMark(m)
  PROVE  HInv'
<1> USE HookAssumption DEF fiberVars, callVars, eventVars, kernelVars
<1>1. /\ tstate[m] = "checked" /\ tstate' = [tstate EXCEPT ![m] = "marked"]
      /\ cancelled' = [cancelled EXCEPT ![winfo[m]] = TRUE]
      /\ UNCHANGED <<pc, fd, timed, timer, tinfo, winfo, target, registered, woken, ready,
                     reported, sockets, timeouts>>
  BY DEF CbMark
<1>2. TypeOK'
  BY <1>1 DEF HInv, TypeOK
<1>3. \A n \in Timers : Inside(n)' <=> Inside(n)
  BY <1>1 DEF HInv, TypeOK, Inside
<1>4. Pointers'
  BY <1>1, <1>3, PointersFrame DEF HInv, Pointers, InCall
<1>5. Aimed' /\ WaitIsClaimed' /\ TimerIsHeld'
  BY <1>1, AimedFrame, ClaimFrame, HeldFrame DEF HInv, TypeOK
<1>6. UntimedNotCancelled'
  <2> SUFFICES ASSUME NEW f \in Fibers, pc[f] # "out", ~timed[f]
               PROVE  ~cancelled'[tinfo[f]]
    BY <1>1 DEF UntimedNotCancelled
  <2>1. tinfo[f] \in Tinfos /\ ~cancelled[tinfo[f]]
    BY DEF HInv, TypeOK, Pointers, InCall, UntimedNotCancelled
  <2>2. winfo[m] # tinfo[f]
    BY <2>1 DEF HInv, Pointers, WeakIsTimed
  <2> QED BY <1>1, <2>1, <2>2 DEF HInv, TypeOK
<1> QED BY <1>2, <1>4, <1>5, <1>6 DEF HInv

\* triggerEvent wakes whoever is registered, and nobody twice.
LEMMA WakeFacts ==
  ASSUME HInv, NEW c \in Channels, Wake(c), UNCHANGED <<pc, fd>>
  PROVE  /\ registered' \in [Channels -> Fibers \cup {NoFiber}]
         /\ woken' \in SUBSET Fibers
         /\ WaitIsClaimed'
<1> USE HookAssumption
<1>1. /\ registered' = [registered EXCEPT ![c] = NoFiber]
      /\ woken' = woken \cup ({registered[c]} \ {NoFiber})
  BY DEF Wake
<1>2. registered' \in [Channels -> Fibers \cup {NoFiber}] /\ woken' \in SUBSET Fibers
  BY <1>1 DEF HInv, TypeOK
<1>3. WaitIsClaimed'
  BY <1>1 DEF HInv, TypeOK, WaitIsClaimed
<1> QED BY <1>2, <1>3

\* The callback's end: it wakes the call and lets go of the timer_info.
LEMMA CbCancelKeeps ==
  ASSUME HInv, NEW m \in Timers, CbCancel(m)
  PROVE  HInv'
<1> USE HookAssumption DEF fiberVars, callVars, kernelVars
<1> DEFINE i == winfo[m]
           rest == Timers \ {m}
<1>1. tstate[m] = "marked" /\ i \in Tinfos
  BY DEF CbCancel, HInv, Pointers, InsideHasTinfo, Inside
<1>2. /\ tstate' = [tstate EXCEPT ![m] = "free"] /\ target' = [target EXCEPT ![m] = NoChannel]
      /\ UNCHANGED <<pc, fd, timed, timer, tinfo, ready, reported, sockets, timeouts>>
  BY DEF CbCancel
<1>3. /\ cancelled' = [cancelled EXCEPT ![i] = @ /\ Owned(i, Fibers, rest)]
      /\ winfo' = [n \in Timers |->
           IF n \notin rest \/ (winfo[n] = i /\ ~Owned(i, Fibers, rest))
             THEN NoTinfo ELSE winfo[n]]
  BY DEF CbCancel, Release
<1>4. /\ registered' \in [Channels -> Fibers \cup {NoFiber}] /\ woken' \in SUBSET Fibers
      /\ WaitIsClaimed'
  <2>1. Wake(target[m]) /\ target[m] \in Channels
    BY <1>1 DEF CbCancel, HInv, Aimed
  <2> QED BY <1>2, <2>1, WakeFacts
<1> HIDE DEF i, rest
<1>5. TypeOK'
  <2>1. cancelled' \in [Tinfos -> BOOLEAN]
    BY <1>1, <1>3 DEF HInv, TypeOK
  <2> QED BY <1>1, <1>2, <1>3, <1>4, <2>1 DEF HInv, TypeOK
<1>6. \A n \in Timers : n # m => tstate'[n] = tstate[n]
  BY <1>2 DEF HInv, TypeOK
<1>7. Pointers'
  <2>1. InCall' /\ OwnTinfo' /\ WeakIsTimed'
    BY <1>2, <1>3, HookAssumption DEF HInv, TypeOK, Pointers, InCall, OwnTinfo, WeakIsTimed
  <2>2. ASSUME NEW n \in Timers, n # m, Inside(n)
        PROVE  winfo'[n] = winfo[n]
    BY <1>3, <2>2 DEF Owned, rest
  <2>3. InsideHasTinfo'
    BY <1>2, <1>6, <2>2 DEF HInv, TypeOK, Pointers, InsideHasTinfo, Inside
  <2>4. WeakIsOwned'
    <3> SUFFICES ASSUME NEW n \in Timers, winfo'[n] \in Tinfos
                 PROVE  Owned(winfo[n], Fibers, Timers)'
      BY DEF WeakIsOwned, Owned
    <3>1. /\ n # m /\ winfo'[n] = winfo[n] /\ Owned(winfo[n], Fibers, Timers)
          /\ winfo[n] = i => Owned(i, Fibers, rest)
      BY <1>3 DEF HInv, Pointers, WeakIsOwned, rest
    <3>2. Owned(winfo[n], Fibers, rest)
      BY <3>1 DEF Owned, i, rest
    <3>3. CASE \E f \in Fibers : tinfo[f] = winfo[n]
      BY <1>2, <3>1, <3>3 DEF Owned
    <3>4. CASE \E k \in rest : Inside(k) /\ winfo[k] = winfo[n]
      BY <1>6, <2>2, <3>1, <3>4 DEF Owned, Inside, rest
    <3> QED BY <3>2, <3>3, <3>4 DEF Owned
  <2> QED BY <2>1, <2>3, <2>4 DEF Pointers
<1>8. Aimed' /\ TimerIsHeld'
  BY <1>1, <1>2, AimedFrame, HeldFrame DEF HInv, TypeOK
<1>9. UntimedNotCancelled'
  <2>1. \A k \in Tinfos : cancelled'[k] => cancelled[k]
    BY <1>1, <1>3 DEF HInv, TypeOK
  <2> QED BY <1>2, <2>1 DEF HInv, TypeOK, Pointers, InCall, UntimedNotCancelled
<1> QED BY <1>4, <1>5, <1>7, <1>8, <1>9 DEF HInv

\* The kernel, the event loop and setsockopt.
LEMMA LoopKeeps ==
  ASSUME HInv, NEW c \in Channels,
         SetTimeout(c) \/ BecomeReady(c) \/ PlainCall(c) \/ LoopStep(c)
  PROVE  HInv'
<1> USE DEF fiberVars, callVars, timerVars, eventVars, kernelVars
<1>1. /\ UNCHANGED <<pc, fd, timed, timer, tinfo, cancelled, tstate, winfo, target, sockets>>
      /\ ready' \in SUBSET Channels /\ reported' \in SUBSET Channels
      /\ timeouts' \in SUBSET Channels
      /\ Wake(c) \/ UNCHANGED <<registered, woken>>
  BY DEF SetTimeout, BecomeReady, PlainCall, LoopStep, EpollWait, HandleEvent, HInv, TypeOK
<1>2. /\ registered' \in [Channels -> Fibers \cup {NoFiber}] /\ woken' \in SUBSET Fibers
      /\ WaitIsClaimed'
  BY <1>1, WakeFacts, ClaimFrame DEF HInv, TypeOK
<1>3. TypeOK'
  BY <1>1, <1>2 DEF HInv, TypeOK
<1>4. Pointers'
  BY <1>1, PointersFrame DEF HInv, Pointers, InCall, Inside
<1>5. Aimed' /\ TimerIsHeld' /\ UntimedNotCancelled'
  BY <1>1, AimedFrame, HeldFrame, UntimedFrame DEF HInv
<1> QED BY <1>2, <1>3, <1>4, <1>5 DEF HInv

\* Steps that change nothing.
LEMMA StutterKeeps == HInv /\ UNCHANGED vars => HInv'
<1> SUFFICES ASSUME HInv, UNCHANGED vars PROVE HInv'
  OBVIOUS
<1> USE DEF vars, fiberVars, callVars, timerVars, eventVars, kernelVars
<1>1. TypeOK'
  BY DEF HInv, TypeOK
<1>2. Pointers'
  BY PointersFrame DEF HInv, Pointers, InCall, Inside
<1>3. Aimed' /\ WaitIsClaimed' /\ TimerIsHeld' /\ UntimedNotCancelled'
  BY AimedFrame, ClaimFrame, HeldFrame, UntimedFrame DEF HInv
<1> QED BY <1>1, <1>2, <1>3 DEF HInv

\* All of them together.
LEMMA StepHInv == HInv /\ [Next]_vars => HInv'
<1> SUFFICES ASSUME HInv, [Next]_vars PROVE HInv'
  OBVIOUS
<1>1. ASSUME NEW f \in Fibers,
             CallStep(f) \/ \E c \in Channels, tm \in BOOLEAN : Call(f, c, tm)
      PROVE  HInv'
  BY <1>1, TryingKeeps, CallKeeps, ArmKeeps, AddKeeps, ResumeKeeps, ReturnKeeps DEF CallStep
<1>2. ASSUME NEW m \in Timers, Expire(m) \/ CallbackStep(m)
      PROVE  HInv'
  BY <1>2, ExpireKeeps, MarkKeeps, CbCancelKeeps DEF CallbackStep
<1>3. ASSUME NEW c \in Channels,
             SetTimeout(c) \/ BecomeReady(c) \/ PlainCall(c) \/ LoopStep(c)
      PROVE  HInv'
  BY <1>3, LoopKeeps
<1> QED BY <1>1, <1>2, <1>3, StutterKeeps DEF Next

\* The strengthened invariant: who owns each timer_info, where each weak pointer
\* leads, which call each timer was started for.
THEOREM CallsInductive == Spec => []HInv
BY InitHInv, StepHInv, PTL DEF Spec

\* Type correctness; in particular there always is a timer_info for a new call,
\* and the callback marks one that exists.
THEOREM CallsTyped == Spec => []TypeOK
<1>1. HInv => TypeOK
  BY DEF HInv
<1> QED BY <1>1, CallsInductive, PTL

\* A fiber that waits inside a call is resumed once for each yield: by the event
\* loop or by its timeout, never by both (cancelEvent and triggerEvent).
THEOREM ResumedOnce == Spec => []WaitIsClaimed
<1>1. HInv => WaitIsClaimed
  BY DEF HInv
<1> QED BY <1>1, CallsInductive, PTL

\* No call leaves its timer in the TimerManager (timer->cancel() on each way out).
THEOREM TimersReturned == Spec => []TimerIsHeld
<1>1. HInv => TimerIsHeld
  BY DEF HInv
<1> QED BY <1>1, CallsInductive, PTL

\* A callback that runs late never tells a later call that it timed out (the weak
\* pointer of the condition timer).
THEOREM NoStrayTimeout == Spec => []UntimedNotCancelled
<1>1. HInv => UntimedNotCancelled
  BY DEF HInv
<1> QED BY <1>1, CallsInductive, PTL
=============================================================================

-------------------------------- MODULE Hook --------------------------------
(***************************************************************************)
(* do_io, behind read, write, accept and the like, and                     *)
(* connect_with_timeout, in concurrent fibers: try the system call, and    *)
(* while it would block start a condition timer, register with the event,  *)
(* yield, and look whether the timer ended the wait.  A channel is a       *)
(* descriptor with one event.                                              *)
(*                                                                         *)
(* The timer's callback runs in a fiber of its own, some time after the    *)
(* timer expired, and reaches the call through a weak pointer to the       *)
(* call's timer_info.                                                      *)
(*                                                                         *)
(* The calls modelled are those that can wait: do_io on descriptors that   *)
(* are managed, not closed, blocking to the user and, as the code has it,  *)
(* not sockets; connect_with_timeout on sockets.  All others are plain     *)
(* system calls, one step of which is PlainCall.                           *)
(***************************************************************************)
EXTENDS Integers, FiniteSets

CONSTANTS
  Fibers,
  Channels,
  Timers,      \* bound: condition timers and callbacks that exist at once
  Tinfos,      \* objects of type timer_info
  NoFiber, NoChannel, NoTimer, NoTinfo

ASSUME HookAssumption ==
  /\ NoFiber \notin Fibers /\ NoChannel \notin Channels
  /\ NoTimer \notin Timers /\ NoTinfo \notin Tinfos
  /\ IsFiniteSet(Fibers) /\ IsFiniteSet(Timers) /\ IsFiniteSet(Tinfos)
  /\ Cardinality(Fibers) + Cardinality(Timers) <= Cardinality(Tinfos)

VARIABLES
  pc, fd,         \* of each fiber: control point, channel of its call
  timed,          \* its call has a timeout
  timer, tinfo,   \* locals of its call
  cancelled,      \* of each timer_info: it is ETIMEDOUT
  tstate,         \* of each timer: free, set (in the TimerManager), due
                  \* (callback queued), checked and marked (inside the callback)
  winfo, target,  \* what its callback captured: the timer_info, the channel
  registered,     \* IOManager: the fiber waiting on each channel
  woken,          \* fibers scheduled to resume
  ready,          \* kernel: channels whose call would not block
  reported,       \* idle(): channels in a report not yet handled
  sockets,        \* FdCtx::m_isSocket, fixed when the descriptor is managed
  timeouts        \* channels whose m_recvTimeout or m_sendTimeout has been set

callVars == <<fd, timed, tinfo>>
fiberVars == <<pc, timer, callVars>>
timerVars == <<tstate, winfo, target>>
eventVars == <<registered, woken>>
kernelVars == <<ready, reported, sockets, timeouts>>
vars == <<fiberVars, cancelled, timerVars, eventVars, kernelVars>>

Goto(f, l) == pc' = [pc EXCEPT ![f] = l]

-----------------------------------------------------------------------------
(* The timer_info objects, owned by the call and by each callback that is at *)
(* work.  A weak pointer to an object nobody owns any more is NoTinfo.       *)

Inside(m) == tstate[m] \in {"checked", "marked"}

Owned(i, fs, ms) ==
  \/ \E f \in fs : tinfo[f] = i
  \/ \E m \in ms : Inside(m) /\ winfo[m] = i

NewTinfo == CHOOSE i \in Tinfos : ~Owned(i, Fibers, Timers)

\* Mutant: the callbacks hold plain pointers.
ReleaseUnnoticed(i, fs, ms) ==
  /\ cancelled' = [cancelled EXCEPT ![i] = @ /\ Owned(i, fs, ms)]
  /\ winfo' = [m \in Timers |-> IF m \in ms THEN winfo[m] ELSE NoTinfo]

\* All but the fibers fs and the timers ms let go of i.
Release(i, fs, ms) ==
  /\ cancelled' = [cancelled EXCEPT ![i] = @ /\ Owned(i, fs, ms)]
  /\ winfo' = [m \in Timers |->
       IF m \notin ms \/ (winfo[m] = i /\ ~Owned(i, fs, ms)) THEN NoTinfo ELSE winfo[m]]

\* A timer that goes without its callback having run.
Forget(m) ==
  /\ tstate' = [tstate EXCEPT ![m] = "free"]
  /\ winfo' = [winfo EXCEPT ![m] = NoTinfo]
  /\ target' = [target EXCEPT ![m] = NoChannel]

\* Timer::cancel: takes the timer out of the set unless it has expired.
CancelTimer(f) ==
  IF timer[f] # NoTimer /\ tstate[timer[f]] = "set"
    THEN Forget(timer[f])
    ELSE UNCHANGED timerVars

-----------------------------------------------------------------------------
(* The calls *)

\* FdCtx::getTimeout is not -1.
TimeoutSet(c) == c \in timeouts

\* do_io takes its timeout from the FdCtx, connect_with_timeout from its caller.
Call(f, c, tm) ==
  /\ pc[f] = "out"
  /\ c \in sockets \/ tm = TimeoutSet(c)
  /\ Goto(f, "try")
  /\ fd' = [fd EXCEPT ![f] = c]
  /\ timed' = [timed EXCEPT ![f] = tm]
  /\ tinfo' = [tinfo EXCEPT ![f] = NewTinfo]
  /\ cancelled' = [cancelled EXCEPT ![NewTinfo] = FALSE]
  /\ UNCHANGED <<timer, timerVars, eventVars, kernelVars>>

\* setsockopt(SO_RCVTIMEO or SO_SNDTIMEO).  No value it stores means that there
\* is no timeout.
SetTimeout(c) ==
  /\ timeouts' = timeouts \cup {c}
  /\ UNCHANGED <<fiberVars, cancelled, timerVars, eventVars, ready, reported, sockets>>

\* The call returns: its locals are destroyed.
Return(f) ==
  /\ pc[f] = "return"
  /\ Goto(f, "out")
  /\ fd' = [fd EXCEPT ![f] = NoChannel]
  /\ timed' = [timed EXCEPT ![f] = FALSE]
  /\ timer' = [timer EXCEPT ![f] = NoTimer]
  /\ tinfo' = [tinfo EXCEPT ![f] = NoTinfo]
  /\ Release(tinfo[f], Fibers \ {f}, Timers)
  /\ UNCHANGED <<tstate, target, eventVars, kernelVars>>

Connects(f) == fd[f] \in sockets

\* The system call.  A read or write may use up what made it succeed.
TrySucceeds(f) ==
  /\ pc[f] = "try" /\ fd[f] \in ready
  /\ Goto(f, "return")
  /\ ready' \in {ready} \cup (IF Connects(f) THEN {} ELSE {ready \ {fd[f]}})
  /\ UNCHANGED <<timer, callVars, cancelled, timerVars, eventVars, reported, sockets, timeouts>>

\* An error of connect other than EINPROGRESS: a connection is under way already.
TryFails(f) ==
  /\ pc[f] = "try" /\ fd[f] \notin ready /\ Connects(f)
  /\ Goto(f, "return")
  /\ UNCHANGED <<timer, callVars, cancelled, timerVars, eventVars, kernelVars>>

\* EAGAIN or EINPROGRESS.
TryWouldBlock(f) ==
  /\ pc[f] = "try" /\ fd[f] \notin ready
  /\ Goto(f, IF timed[f] THEN "arm" ELSE "add")
  /\ UNCHANGED <<timer, callVars, cancelled, timerVars, eventVars, kernelVars>>

\* A timer whose callback is over exists on while a call holds it.
Unused(m) == tstate[m] = "free" /\ \A f \in Fibers : timer[f] # m

\* addConditionTimer.
Arm(f) ==
  /\ pc[f] = "arm"
  /\ \E m \in Timers : Unused(m)
  /\ LET m == CHOOSE n \in Timers : Unused(n) IN
       /\ tstate' = [tstate EXCEPT ![m] = "set"]
       /\ winfo' = [winfo EXCEPT ![m] = tinfo[f]]
       /\ target' = [target EXCEPT ![m] = fd[f]]
       /\ timer' = [timer EXCEPT ![f] = m]
  /\ Goto(f, "add")
  /\ UNCHANGED <<callVars, cancelled, eventVars, kernelVars>>

\* addEvent, and the yield.
AddEvent(f) ==
  /\ pc[f] = "add" /\ registered[fd[f]] = NoFiber
  /\ registered' = [registered EXCEPT ![fd[f]] = f]
  /\ Goto(f, "wait")
  /\ UNCHANGED <<timer, callVars, cancelled, timerVars, woken, kernelVars>>

\* Mutant: the call goes on to yield.
AddRefusedIgnored(f) ==
  /\ pc[f] = "add" /\ registered[fd[f]] # NoFiber
  /\ Goto(f, "wait")
  /\ UNCHANGED <<timer, callVars, cancelled, timerVars, eventVars, kernelVars>>

\* Mutant: the timer is left in the set.
AddRefusedTimerLeft(f) ==
  /\ pc[f] = "add" /\ registered[fd[f]] # NoFiber
  /\ Goto(f, "return")
  /\ UNCHANGED <<timer, callVars, cancelled, timerVars, eventVars, kernelVars>>

\* addEvent refuses a second registration.  do_io fails; connect asks for the
\* socket's error and ends.
AddRefused(f) ==
  /\ pc[f] = "add" /\ registered[fd[f]] # NoFiber
  /\ CancelTimer(f)
  /\ Goto(f, "return")
  /\ UNCHANGED <<timer, callVars, cancelled, eventVars, kernelVars>>

\* Back from yield: timer->cancel().
Resume(f) ==
  /\ pc[f] = "wait" /\ f \in woken
  /\ woken' = woken \ {f}
  /\ CancelTimer(f)
  /\ timer' = [timer EXCEPT ![f] = NoTimer]
  /\ Goto(f, "check")
  /\ UNCHANGED <<callVars, cancelled, registered, kernelVars>>

\* ETIMEDOUT, or getsockopt in a connect, ends the call.
CheckEnds(f) ==
  /\ pc[f] = "check" /\ (cancelled[tinfo[f]] \/ Connects(f))
  /\ Goto(f, "return")
  /\ UNCHANGED <<timer, callVars, cancelled, timerVars, eventVars, kernelVars>>

\* goto retry, with the same timer_info.
CheckRetries(f) ==
  /\ pc[f] = "check" /\ ~cancelled[tinfo[f]] /\ ~Connects(f)
  /\ Goto(f, "try")
  /\ UNCHANGED <<timer, callVars, cancelled, timerVars, eventVars, kernelVars>>

-----------------------------------------------------------------------------
(* The timer and its callback *)

Expire(m) ==
  /\ tstate[m] = "set"
  /\ tstate' = [tstate EXCEPT ![m] = "due"]
  /\ UNCHANGED <<fiberVars, cancelled, winfo, target, eventVars, kernelVars>>

\* OnTimer, and the callback's first lines: the call is over or cancelled, or
\* the callback goes on, and with its shared pointer keeps the object.
CbCheck(m) ==
  /\ tstate[m] = "due"
  /\ IF winfo[m] # NoTinfo /\ ~cancelled[winfo[m]]
       THEN tstate' = [tstate EXCEPT ![m] = "checked"] /\ UNCHANGED <<winfo, target>>
       ELSE Forget(m)
  /\ UNCHANGED <<fiberVars, cancelled, eventVars, kernelVars>>

\* t->cancelled = ETIMEDOUT.
CbMark(m) ==
  /\ tstate[m] = "checked"
  /\ tstate' = [tstate EXCEPT ![m] = "marked"]
  /\ cancelled' = [cancelled EXCEPT ![winfo[m]] = TRUE]
  /\ UNCHANGED <<fiberVars, winfo, target, eventVars, kernelVars>>

\* Mutant: no test whether anybody is registered.
WakeUnchecked(c) ==
  /\ woken' = woken \cup {registered[c]}
  /\ registered' = [registered EXCEPT ![c] = NoFiber]

\* triggerEvent, for whoever is registered by now.
Wake(c) ==
  /\ woken' = woken \cup ({registered[c]} \ {NoFiber})
  /\ registered' = [registered EXCEPT ![c] = NoFiber]

\* cancelEvent.
CbCancel(m) ==
  /\ tstate[m] = "marked"
  /\ Wake(target[m])
  /\ tstate' = [tstate EXCEPT ![m] = "free"]
  /\ target' = [target EXCEPT ![m] = NoChannel]
  /\ Release(winfo[m], Fibers, Timers \ {m})
  /\ UNCHANGED <<fiberVars, kernelVars>>

-----------------------------------------------------------------------------
(* The kernel and the event loop *)

BecomeReady(c) ==
  /\ c \notin ready
  /\ ready' = ready \cup {c}
  /\ UNCHANGED <<fiberVars, cancelled, timerVars, eventVars, reported, sockets, timeouts>>

\* Another call reads or writes without waiting, as do_io does on a socket.
PlainCall(c) ==
  /\ c \in ready
  /\ ready' = ready \ {c}
  /\ UNCHANGED <<fiberVars, cancelled, timerVars, eventVars, reported, sockets, timeouts>>

EpollWait(c) ==
  /\ c \in ready \ reported /\ registered[c] # NoFiber
  /\ reported' = reported \cup {c}
  /\ UNCHANGED <<fiberVars, cancelled, timerVars, eventVars, ready, sockets, timeouts>>

\* The registration may have gone, or another one come, since the report.
HandleEvent(c) ==
  /\ c \in reported
  /\ reported' = reported \ {c}
  /\ Wake(c)
  /\ UNCHANGED <<fiberVars, cancelled, timerVars, ready, sockets, timeouts>>

-----------------------------------------------------------------------------
Init ==
  /\ pc = [f \in Fibers |-> "out"]
  /\ fd = [f \in Fibers |-> NoChannel] /\ timed = [f \in Fibers |-> FALSE]
  /\ timer = [f \in Fibers |-> NoTimer] /\ tinfo = [f \in Fibers |-> NoTinfo]
  /\ cancelled = [i \in Tinfos |-> FALSE]
  /\ tstate = [m \in Timers |-> "free"]
  /\ winfo = [m \in Timers |-> NoTinfo] /\ target = [m \in Timers |-> NoChannel]
  /\ registered = [c \in Channels |-> NoFiber] /\ woken = {}
  /\ ready = {} /\ reported = {} /\ sockets \in SUBSET Channels /\ timeouts = {}

CallStep(f) ==
  \/ TrySucceeds(f) \/ TryFails(f) \/ TryWouldBlock(f)
  \/ Arm(f) \/ AddEvent(f) \/ AddRefused(f)
  \/ Resume(f) \/ CheckEnds(f) \/ CheckRetries(f) \/ Return(f)

CallbackStep(m) == CbCheck(m) \/ CbMark(m) \/ CbCancel(m)

LoopStep(c) == EpollWait(c) \/ HandleEvent(c)

Next ==
  \/ \E f \in Fibers :
       \/ \E c \in Channels, tm \in BOOLEAN : Call(f, c, tm)
       \/ CallStep(f)
  \/ \E m \in Timers : Expire(m) \/ CallbackStep(m)
  \/ \E c \in Channels : SetTimeout(c) \/ BecomeReady(c) \/ PlainCall(c) \/ LoopStep(c)

Spec == Init /\ [][Next]_vars

(***************************************************************************)
(* Fairness: threads run the fibers and callbacks that are queued, time    *)
(* passes, and the event loop delivers what is reported (events_live).     *)
(* Arm waits for a free timer only because Timers is a bound: strong.      *)
(***************************************************************************)
Fairness ==
  /\ \A f \in Fibers : WF_vars(CallStep(f)) /\ SF_vars(Arm(f))
  /\ \A m \in Timers : WF_vars(Expire(m)) /\ WF_vars(CallbackStep(m))
  /\ \A c \in Channels : SF_vars(EpollWait(c)) /\ WF_vars(HandleEvent(c))
FairSpec == Spec /\ Fairness

-----------------------------------------------------------------------------
(* Properties *)

TypeOK ==
  /\ pc \in [Fibers -> {"out", "try", "arm", "add", "wait", "check", "return"}]
  /\ fd \in [Fibers -> Channels \cup {NoChannel}]
  /\ timed \in [Fibers -> BOOLEAN]
  /\ timer \in [Fibers -> Timers \cup {NoTimer}]
  /\ tinfo \in [Fibers -> Tinfos \cup {NoTinfo}]
  /\ cancelled \in [Tinfos -> BOOLEAN]
  /\ tstate \in [Timers -> {"free", "set", "due", "checked", "marked"}]
  /\ winfo \in [Timers -> Tinfos \cup {NoTinfo}]
  /\ target \in [Timers -> Channels \cup {NoChannel}]
  /\ registered \in [Channels -> Fibers \cup {NoFiber}]
  /\ woken \in SUBSET Fibers
  /\ ready \in SUBSET Channels /\ reported \in SUBSET Channels
  /\ sockets \in SUBSET Channels /\ timeouts \in SUBSET Channels

\* A fiber that has yielded inside a call is either registered on its channel or
\* scheduled, never both, and no other fiber is either: whatever the event loop,
\* a timeout and a late callback do, it is resumed once for each yield.
WaitIsClaimed ==
  \A f \in Fibers :
    /\ \A c \in Channels :
         registered[c] = f => pc[f] = "wait" /\ c = fd[f] /\ f \notin woken
    /\ f \in woken => pc[f] = "wait"
    /\ pc[f] = "wait" => f \in woken \/ registered[fd[f]] = f

\* A timer still in the set belongs to a wait that has not ended: each way out
\* of do_io and connect_with_timeout cancels it.
TimerIsHeld ==
  \A m \in Timers :
    tstate[m] = "set" => \E f \in Fibers : timer[f] = m /\ pc[f] \in {"add", "wait"}

\* ETIMEDOUT only for calls with a timeout, although callbacks of earlier calls
\* may still be running.
UntimedNotCancelled ==
  \A f \in Fibers : pc[f] # "out" /\ ~timed[f] => ~cancelled[tinfo[f]]

\* "If a timeout has been set, add a condition timer to cancel" (hook.cpp:109):
\* a wait with a timeout comes to an end.
TimedWaitEnds ==
  \A f \in Fibers : (pc[f] = "wait" /\ timed[f]) ~> (pc[f] # "wait")
=============================================================================

----------------------------- MODULE Coroutines -----------------------------
(***************************************************************************)
(* What the scheduler promises to a program of coroutines, without queue,  *)
(* locks, counters, tickles or epoll.  A coroutine runs on one thread at a *)
(* time, suspends by its own decision only, continues once for each time   *)
(* it was woken, and ends once.  A callback that was accepted is started   *)
(* in a coroutine of its own.  The pool closes with nothing left to run.   *)
(*                                                                         *)
(* The pool may close while coroutines wait: that nobody waits any more is *)
(* not promised (see StopAgainIsSafe in Lifecycle).                             *)
(***************************************************************************)
EXTENDS Naturals

CONSTANTS Coros, Threads, Nobody

VARIABLES
  state,      \* of each coroutine
  on,         \* the coroutine each thread runs, or Nobody
  callbacks,  \* callbacks accepted and not yet started
  closed

vars == <<state, on, callbacks, closed>>

Init ==
  /\ state = [c \in Coros |-> "absent"]
  /\ on = [t \in Threads |-> Nobody]
  /\ callbacks = 0
  /\ closed = FALSE

Become(c, s) == state' = [state EXCEPT ![c] = s]

Accept ==
  /\ callbacks' = callbacks + 1
  /\ UNCHANGED <<state, on>>

\* A coroutine comes into being, on its own or for a callback.
Create(c) ==
  /\ state[c] = "absent" /\ Become(c, "ready")
  /\ callbacks' \in {callbacks, callbacks - 1} \cap Nat
  /\ UNCHANGED on

Run(t, c) ==
  /\ on[t] = Nobody /\ state[c] = "ready"
  /\ Become(c, "running")
  /\ on' = [on EXCEPT ![t] = c]
  /\ UNCHANGED callbacks

\* It arranges to be woken, or leaves itself ready, or ends.
Leave(t) ==
  /\ on[t] # Nobody
  /\ \E s \in {"waiting", "ready", "ended"} : Become(on[t], s)
  /\ on' = [on EXCEPT ![t] = Nobody]
  /\ UNCHANGED callbacks

\* One event, or all the timers one thread finds expired.
Wake(S) ==
  /\ S # {} /\ \A c \in S : state[c] = "waiting"
  /\ state' = [c \in Coros |-> IF c \in S THEN "ready" ELSE state[c]]
  /\ UNCHANGED <<on, callbacks>>

Work ==
  \/ Accept
  \/ \E c \in Coros : Create(c) \/ \E t \in Threads : Run(t, c)
  \/ \E t \in Threads : Leave(t)
  \/ \E S \in SUBSET Coros : Wake(S)

Close ==
  /\ callbacks = 0
  /\ \A c \in Coros : state[c] \notin {"ready", "running"}
  /\ closed' = TRUE
  /\ UNCHANGED <<state, on, callbacks>>

Next == ~closed /\ ((Work /\ UNCHANGED closed) \/ Close)

Spec == Init /\ [][Next]_vars
=============================================================================

---------------------------- MODULE ContextTable ----------------------------
(***************************************************************************)
(* m_fdContexts, the table from descriptors to their FdContext, as         *)
(* addEvent, delEvent, cancelEvent and cancelAll look descriptors up. Only *)
(* addEvent grows the table; it finds out that it must under the reader's  *)
(* lock and does so under the writer's, without looking again.             *)
(*                                                                         *)
(* What happens to a context once it is found is EventContexts' matter.    *)
(***************************************************************************)
EXTENDS Integers, Sequences, SequencesExt

CONSTANTS
  Threads,    \* threads that call the operations
  Fds,        \* descriptors they call them on
  InitSize,   \* contextResize(32) in the constructor
  NoFd,
  NoContext,
  MaxCalls    \* bound: calls of the operations

VARIABLES
  m_fdContexts,   \* element fd + 1 is the FdContext of fd
  made,           \* number of contexts constructed; contexts are numbered
  pc, fd,         \* control point and argument of each thread's call
  fd_ctx,         \* the context its call works on
  calls           \* use of the bound

vars == <<m_fdContexts, made, pc, fd, fd_ctx, calls>>

Size == Len(m_fdContexts)

\* contextResize: std::vector::resize, then a new context for each empty entry.
ContextResize(size) ==
  /\ m_fdContexts' = IF size <= Size
       THEN SubSeq(m_fdContexts, 1, size)
       ELSE m_fdContexts \o [i \in 1..(size - Size) |-> made + i]
  /\ made' = IF size <= Size THEN made ELSE made + (size - Size)

Grown(f) == (f * 3) \div 2                        \* (size_t)(fd * 1.5)

Goto(t, l) == pc' = [pc EXCEPT ![t] = l]

Call(t, f, op) ==
  /\ pc[t] = "out" /\ calls < MaxCalls
  /\ calls' = calls + 1
  /\ fd' = [fd EXCEPT ![t] = f]
  /\ Goto(t, op)
  /\ UNCHANGED <<m_fdContexts, made, fd_ctx>>

Find(t) == fd_ctx' = [fd_ctx EXCEPT ![t] = m_fdContexts'[fd[t] + 1]]

\* Under the reader's lock.  A descriptor beyond the table has no event that
\* could be removed, and needs a larger table to register one.
Look(t) ==
  /\ pc[t] \in {"add", "remove"}
  /\ IF Size > fd[t]
       THEN UNCHANGED m_fdContexts /\ Find(t) /\ Goto(t, "found")
       ELSE UNCHANGED fd_ctx /\ Goto(t, IF pc[t] = "add" THEN "grow" ELSE "done")
  /\ UNCHANGED <<m_fdContexts, made, fd, calls>>

\* Under the writer's lock.
Grow(t) ==
  /\ pc[t] = "grow"
  /\ ContextResize(Grown(fd[t]))
  /\ Find(t)
  /\ Goto(t, "found")
  /\ UNCHANGED <<fd, calls>>

Return(t) ==
  /\ pc[t] \in {"found", "done"}
  /\ fd' = [fd EXCEPT ![t] = NoFd]
  /\ fd_ctx' = [fd_ctx EXCEPT ![t] = NoContext]
  /\ Goto(t, "out")
  /\ UNCHANGED <<m_fdContexts, made, calls>>

Init ==
  /\ m_fdContexts = [i \in 1..InitSize |-> i]
  /\ made = InitSize
  /\ pc = [t \in Threads |-> "out"]
  /\ fd = [t \in Threads |-> NoFd]
  /\ fd_ctx = [t \in Threads |-> NoContext]
  /\ calls = 0

Step(t) ==
  \/ \E f \in Fds, op \in {"add", "remove"} : Call(t, f, op)
  \/ Look(t) \/ Grow(t) \/ Return(t)

Next == \E t \in Threads : Step(t)
Spec == Init /\ [][Next]_vars

-----------------------------------------------------------------------------
(* Properties *)

\* "resize does not change the values already there" (ioscheduler.cpp:157): a
\* descriptor keeps its context, and with it what is registered on it.
ValuesKept == [][IsPrefix(m_fdContexts, m_fdContexts')]_vars
=============================================================================

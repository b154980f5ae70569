--------------------------- MODULE EventContexts ---------------------------
(***************************************************************************)
(* IOManager's event registrations: addEvent, delEvent, cancelEvent,       *)
(* cancelAll and the event loop of IOManager::idle over one FdContext per  *)
(* descriptor, with the epoll instance they share and the hooked close().  *)
(*                                                                         *)
(* Every operation holds FdContext::mtx from its first look at m_event to  *)
(* its end and is one step here.  What is not atomic is the idle loop: it  *)
(* takes a list of reports from epoll_wait and locks each context later.   *)
(* Any thread may call the operations, so the caller has no identity.      *)
(***************************************************************************)
EXTENDS Integers, FiniteSets

CONSTANTS
  Fds,           \* descriptor numbers
  Events,        \* READ and WRITE, or only one of them
  Hup,           \* EPOLLERR or EPOLLHUP in a report
  Idlers,        \* threads inside IOManager::idle
  Regs,          \* identities of registrations; each is used once
  NoReg,         \* an empty EventContext
  Closable       \* descriptors that are closed and opened again

ASSUME EventContextsAssumption ==
  /\ Hup \notin Events /\ NoReg \notin Regs
  /\ IsFiniteSet(Regs)
  /\ Closable \subseteq Fds

VARIABLES
  m_event,    \* FdContext::m_event
  ctx,        \* FdContext::read and ::write
  pending,    \* m_pendingEventCnt
  status,     \* what became of each registration
  file,       \* life of the descriptor: open, closing (in close()), closed
  interest,   \* epoll: the events asked for, {} if the descriptor is not watched
  level,      \* kernel: conditions that hold on the descriptor
  queued,     \* epoll: descriptors with an edge to report
  report,     \* idle(): `events`, what each thread still has to handle
  aborted     \* an assertion failed

kernel == <<file, interest, level, queued>>
vars == <<m_event, ctx, pending, status, kernel, report, aborted>>

-----------------------------------------------------------------------------
(* epoll, edge-triggered.  A successful ADD or MOD queues a descriptor whose *)
(* condition already holds; ADD fails if it is watched, MOD and DEL if not.  *)

Wanted(fd, evs) == level[fd] \cap (evs \cup {Hup})

CtlOK(fd) == file[fd] # "closed" /\ interest[fd] # {}

Ctl(fd, evs) ==
  /\ interest' = [interest EXCEPT ![fd] = evs]
  /\ queued' = IF evs = {} THEN queued \ {fd}
               ELSE IF Wanted(fd, evs) # {} THEN queued \cup {fd} ELSE queued
  /\ UNCHANGED <<file, level>>

\* A condition arises, or arises anew, on an open descriptor.
Arrive(fd, e) ==
  /\ ~aborted /\ file[fd] # "closed"
  /\ level' = [level EXCEPT ![fd] = @ \cup {e}]
  /\ queued' = IF interest[fd] # {} /\ e \in interest[fd] \cup {Hup}
                 THEN queued \cup {fd} ELSE queued
  /\ UNCHANGED <<m_event, ctx, pending, status, file, interest, report, aborted>>

\* The program reads the data, or fills the send buffer.
Consume(fd, e) ==
  /\ ~aborted /\ e \in level[fd] /\ e # Hup
  /\ level' = [level EXCEPT ![fd] = @ \ {e}]
  /\ UNCHANGED <<m_event, ctx, pending, status, file, interest, queued, report, aborted>>

-----------------------------------------------------------------------------
(* The operations on a registration. *)

ResetContextKept(c, evs) == c                     \* Mutant: not reset
ResetContext(c, evs) == [e \in Events |-> IF e \in evs THEN NoReg ELSE c[e]]

ReleasedOne(evs) == 1                             \* Mutant: one, whatever resolved
Released(evs) == Cardinality(evs)

\* FdContext::triggerEvent and resetEventContext for each event of evs: the
\* fiber or callback goes to the scheduler's queue, the context becomes empty.
Resolve(fd, evs, how) ==
  /\ m_event' = [m_event EXCEPT ![fd] = @ \ evs]
  /\ ctx' = [ctx EXCEPT ![fd] = ResetContext(@, evs)]
  /\ status' = [r \in Regs |-> IF \E e \in evs : ctx[fd][e] = r THEN how ELSE status[r]]
  /\ pending' = pending - Released(evs)

Register(fd, e, r) ==
  /\ m_event' = [m_event EXCEPT ![fd] = @ \cup {e}]
  /\ ctx' = [ctx EXCEPT ![fd][e] = r]
  /\ status' = [status EXCEPT ![r] = "waiting"]
  /\ pending' = pending + 1

\* Refused if the event is registered, and if epoll_ctl refuses: ADD a watched
\* descriptor, MOD one that is not.  Assumed of the callers: nobody registers on
\* a descriptor that another thread is closing.
AddEvent(fd, e, r) ==
  /\ ~aborted /\ status[r] = "new" /\ e \notin m_event[fd]
  /\ file[fd] = "open"
  /\ (m_event[fd] = {}) <=> (interest[fd] = {})
  /\ Ctl(fd, m_event[fd] \cup {e})
  /\ Register(fd, e, r)
  /\ UNCHANGED <<report, aborted>>

\* Mutant: an event that is not registered is not refused.
DelEventUnchecked(fd, e) ==
  /\ ~aborted /\ CtlOK(fd)
  /\ Ctl(fd, m_event[fd] \ {e})
  /\ Resolve(fd, {e}, "deleted")
  /\ UNCHANGED <<report, aborted>>

\* delEvent forgets the registration without scheduling it.
DelEvent(fd, e) ==
  /\ ~aborted /\ e \in m_event[fd] /\ CtlOK(fd)
  /\ Ctl(fd, m_event[fd] \ {e})
  /\ Resolve(fd, {e}, "deleted")
  /\ UNCHANGED <<report, aborted>>

CancelEvent(fd, e) ==
  /\ ~aborted /\ e \in m_event[fd] /\ CtlOK(fd)
  /\ Ctl(fd, m_event[fd] \ {e})
  /\ Resolve(fd, {e}, "cancelled")
  /\ UNCHANGED <<report, aborted>>

CancelAll(fd) ==
  /\ ~aborted /\ m_event[fd] # {} /\ CtlOK(fd)
  /\ Ctl(fd, {})
  /\ Resolve(fd, m_event[fd], "cancelled")
  /\ UNCHANGED <<report, aborted>>

-----------------------------------------------------------------------------
(* close(): cancelAll, then the system call, which ends the watch. *)

BeginClose(fd) ==
  /\ ~aborted /\ fd \in Closable /\ file[fd] = "open"
  /\ file' = [file EXCEPT ![fd] = "closing"]
  /\ IF m_event[fd] # {} /\ CtlOK(fd)
       THEN /\ interest' = [interest EXCEPT ![fd] = {}]
            /\ queued' = queued \ {fd}
            /\ Resolve(fd, m_event[fd], "cancelled")
       ELSE UNCHANGED <<queued, interest, m_event, ctx, status, pending>>
  /\ UNCHANGED <<level, report, aborted>>

EndClose(fd) ==
  /\ ~aborted /\ file[fd] = "closing"
  /\ file' = [file EXCEPT ![fd] = "closed"]
  /\ interest' = [interest EXCEPT ![fd] = {}]
  /\ queued' = queued \ {fd}
  /\ level' = [level EXCEPT ![fd] = {}]
  /\ UNCHANGED <<m_event, ctx, pending, status, report, aborted>>

\* The number is given out again, for another file.
Reopen(fd) ==
  /\ ~aborted /\ file[fd] = "closed"
  /\ file' = [file EXCEPT ![fd] = "open"]
  /\ UNCHANGED <<m_event, ctx, pending, status, interest, level, queued, report, aborted>>

-----------------------------------------------------------------------------
(* IOManager::idle *)

Busy(t) == \E fd \in Fds : report[t][fd] # {}

\* epoll_wait returns some of the queued descriptors whose condition still
\* holds; reporting takes them, and those whose condition is gone, off the queue.
EpollWait(t) ==
  /\ ~aborted /\ ~Busy(t)
  /\ \E Q \in SUBSET queued :
       /\ Q # {}
       /\ queued' = queued \ Q
       /\ report' = [report EXCEPT ![t] =
            [fd \in Fds |-> IF fd \in Q THEN Wanted(fd, interest[fd]) ELSE {}]]
  /\ UNCHANGED <<m_event, ctx, pending, status, file, interest, level, aborted>>

\* The events a report stands for: an error or hang-up means all that are
\* registered by now.
RealEventsNoHup(fd, rev) == rev \cap Events        \* Mutant
RealEvents(fd, rev) == (rev \cap Events) \cup (IF Hup \in rev THEN m_event[fd] ELSE {})

LeftEventsNone(fd, real) == {}                    \* Mutant
LeftEvents(fd, real) == m_event[fd] \ real

Skip(fd) == UNCHANGED <<m_event, ctx, pending, status, kernel, aborted>>

\* One entry of `events`, with the context locked.  triggerEvent asserts that
\* the event is registered, for every event the report names.
HandleEvent(t, fd) ==
  LET real == RealEvents(fd, report[t][fd]) IN
  /\ ~aborted /\ report[t][fd] # {}
  /\ report' = [report EXCEPT ![t][fd] = {}]
  /\ IF m_event[fd] \cap real = {} \/ ~CtlOK(fd)
       THEN Skip(fd)
       ELSE /\ Ctl(fd, LeftEvents(fd, real))
            /\ aborted' = ~(real \subseteq m_event[fd])
            /\ IF aborted' THEN UNCHANGED <<m_event, ctx, pending, status>>
                           ELSE Resolve(fd, real, "fired")

-----------------------------------------------------------------------------
Init ==
  /\ m_event = [fd \in Fds |-> {}]
  /\ ctx = [fd \in Fds |-> [e \in Events |-> NoReg]]
  /\ pending = 0
  /\ status = [r \in Regs |-> "new"]
  /\ file = [fd \in Fds |-> "open"]
  /\ interest = [fd \in Fds |-> {}]
  /\ level = [fd \in Fds |-> {}] /\ queued = {}
  /\ report = [t \in Idlers |-> [fd \in Fds |-> {}]]
  /\ aborted = FALSE

UserStep ==
  \E fd \in Fds :
    \/ \E e \in Events : \/ \E r \in Regs : AddEvent(fd, e, r)
                         \/ DelEvent(fd, e) \/ CancelEvent(fd, e)
    \/ CancelAll(fd) \/ BeginClose(fd) \/ EndClose(fd) \/ Reopen(fd)

KernelStep ==
  \E fd \in Fds : \/ \E e \in Events \cup {Hup} : Arrive(fd, e)
                  \/ \E e \in Events : Consume(fd, e)

IdleStep(t) == EpollWait(t) \/ \E fd \in Fds : HandleEvent(t, fd)

\* An aborted process does nothing more.
Aborted == aborted /\ UNCHANGED vars

Next == UserStep \/ KernelStep \/ (\E t \in Idlers : IdleStep(t)) \/ Aborted

Spec == Init /\ [][Next]_vars

(***************************************************************************)
(* Fairness: threads keep coming back to the idle loop, epoll_wait reports *)
(* a queued descriptor to one of them sooner or later (it serves its list  *)
(* in order), and a thread works off what it was given.                    *)
(***************************************************************************)
Reports(fd) == \E t \in Idlers : EpollWait(t) /\ fd \notin queued'

Fairness ==
  /\ \A fd \in Fds : SF_vars(Reports(fd))
  /\ \A t \in Idlers, fd \in Fds : WF_vars(HandleEvent(t, fd))
FairSpec == Spec /\ Fairness

-----------------------------------------------------------------------------
(* Properties *)

TypeOK ==
  /\ m_event \in [Fds -> SUBSET Events]
  /\ ctx \in [Fds -> [Events -> Regs \cup {NoReg}]]
  /\ pending \in Nat
  /\ status \in [Regs -> {"new", "waiting", "fired", "cancelled", "deleted"}]
  /\ file \in [Fds -> {"open", "closing", "closed"}]
  /\ interest \in [Fds -> SUBSET Events]
  /\ level \in [Fds -> SUBSET (Events \cup {Hup})]
  /\ queued \in SUBSET Fds
  /\ report \in [Idlers -> [Fds -> SUBSET (Events \cup {Hup})]]
  /\ aborted \in BOOLEAN

\* An EventContext is in use exactly while its bit of m_event is set (addEvent
\* asserts one half), and a registration that nobody has resolved is in exactly
\* one of them: none is lost, none can be resolved twice.
WaitingIsRegistered ==
  /\ \A fd \in Fds, e \in Events : e \in m_event[fd] <=> ctx[fd][e] # NoReg
  /\ \A r \in Regs :
       Cardinality({p \in Fds \X Events : ctx[p[1]][p[2]] = r})
         = IF status[r] = "waiting" THEN 1 ELSE 0

\* m_pendingEventCnt, which stopping() reads, counts the unresolved registrations.
PendingExact == pending = Cardinality({r \in Regs : status[r] = "waiting"})

\* What epoll watches for is what is registered: no edge is taken by an event
\* nobody waits for, and nobody waits for an edge that cannot come.  Holds while
\* nobody registers on a descriptor that another thread is closing.
WatchedIsRegistered == ~aborted => interest = m_event

\* An event whose condition, or a hang-up, holds and keeps holding is delivered
\* or withdrawn, although epoll reports an edge once and to one thread only.
Delivered ==
  \A fd \in Fds, e \in Events :
    (e \in m_event[fd] /\ level[fd] \cap {e, Hup} # {})
      ~> (e \notin m_event[fd] \/ level[fd] \cap {e, Hup} = {} \/ aborted)

\* assert(m_event & event) in triggerEvent (ioscheduler.cpp:35).
TriggerAssertion == ~aborted
=============================================================================

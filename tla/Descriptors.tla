----------------------------- MODULE Descriptors -----------------------------
(***************************************************************************)
(* Sockets as the hooked calls create, configure and close them: the table *)
(* of FdManager and its FdCtx entries, composed with the registrations of  *)
(* EventContexts for the same descriptor numbers.                          *)
(*                                                                         *)
(* The two meet in the life of a number: socket() and accept() take it     *)
(* from the kernel and then look it up in the table; close() cancels the   *)
(* registrations, deletes the entry and gives the number back, in that     *)
(* order.  As soon as it is back another thread may get it.                *)
(*                                                                         *)
(* Assumed of the program: it uses a number from the return of the call    *)
(* that made it until it calls close(), and all threads that close have    *)
(* the hook enabled.  The table is large enough (64 entries initially).    *)
(***************************************************************************)
EXTENDS EventContexts

CONSTANT NoCtx      \* an empty entry of FdManager::m_datas

VARIABLES
  life,       \* of each number: free, fresh (the kernel has given it out),
              \* absent (the table had no entry), used, cancelled and deleted
              \* (inside close)
  m_datas,    \* FdCtx: m_userNonblock, and whether it was made for this file
  nonblock,   \* kernel: O_NONBLOCK of the file
  asked,      \* what the program last asked for, with fcntl or ioctl
  unblocked   \* the last of them was ioctl(FIONBIO) with 0

flagVars == <<nonblock, asked, unblocked>>
fdVars == <<life, m_datas, flagVars>>
dvars == <<vars, fdVars>>

FdCtx == [m_userNonblock : BOOLEAN, own : BOOLEAN]

ASSUME DescriptorsAssumption == Closable = Fds /\ NoCtx \notin FdCtx

Become(fd, l) == life' = [life EXCEPT ![fd] = l]
Managed(fd) == m_datas[fd] # NoCtx

-----------------------------------------------------------------------------
(* socket() and accept(): the system call, then FdManager::get(fd, 1). *)

SystemCall(fd) ==
  /\ life[fd] = "free" /\ Reopen(fd)
  /\ Become(fd, "fresh")
  /\ nonblock' = [nonblock EXCEPT ![fd] = FALSE]
  /\ asked' = [asked EXCEPT ![fd] = FALSE]
  /\ unblocked' = [unblocked EXCEPT ![fd] = FALSE]
  /\ UNCHANGED m_datas

\* Under the reader's lock: an entry that is there is taken as it is.
Look(fd) ==
  /\ life[fd] = "fresh"
  /\ Become(fd, IF Managed(fd) THEN "used" ELSE "absent")
  /\ UNCHANGED <<vars, m_datas, flagVars>>

\* FdCtx::init makes a socket non-blocking.
InitNonblock(fd) == nonblock' = [nonblock EXCEPT ![fd] = TRUE]

\* Under the writer's lock.
Manage(fd) ==
  /\ life[fd] = "absent"
  /\ Become(fd, "used")
  /\ m_datas' = [m_datas EXCEPT ![fd] = [m_userNonblock |-> FALSE, own |-> TRUE]]
  /\ InitNonblock(fd)
  /\ UNCHANGED <<vars, asked, unblocked>>

-----------------------------------------------------------------------------
(* The flags.  A number without an entry goes straight to the system call. *)

SetUserNonblockKept(fd, nb) == UNCHANGED m_datas           \* Mutant
SetUserNonblock(fd, nb) ==
  m_datas' = IF Managed(fd) THEN [m_datas EXCEPT ![fd].m_userNonblock = nb] ELSE m_datas

AsUserWants(fd, nb) == nb                                  \* Mutant
\* fcntl(F_SETFL): the kernel's flag follows m_sysNonblock, which every socket has.
AsSystemWants(fd, nb) == nb \/ Managed(fd)

SetFl(fd, nb) ==
  /\ life[fd] = "used"
  /\ SetUserNonblock(fd, nb)
  /\ nonblock' = [nonblock EXCEPT ![fd] = AsSystemWants(fd, nb)]
  /\ asked' = [asked EXCEPT ![fd] = nb]
  /\ unblocked' = [unblocked EXCEPT ![fd] = FALSE]
  /\ UNCHANGED <<vars, life>>

\* ioctl(FIONBIO): the kernel gets the user's value.
SetFionbio(fd, nb) ==
  /\ life[fd] = "used"
  /\ SetUserNonblock(fd, nb)
  /\ nonblock' = [nonblock EXCEPT ![fd] = nb]
  /\ asked' = [asked EXCEPT ![fd] = nb]
  /\ unblocked' = [unblocked EXCEPT ![fd] = ~nb]
  /\ UNCHANGED <<vars, life>>

\* What fcntl(F_GETFL) says.
GetFl(fd) == IF Managed(fd) THEN m_datas[fd].m_userNonblock ELSE nonblock[fd]

-----------------------------------------------------------------------------
(* close() *)

\* Without an entry, the registrations stay.
CloseBegins(fd) ==
  /\ life[fd] = "used"
  /\ IF Managed(fd)
       THEN BeginClose(fd) /\ Become(fd, "cancelled")
       ELSE /\ file' = [file EXCEPT ![fd] = "closing"]
            /\ Become(fd, "deleted")
            /\ UNCHANGED <<m_event, ctx, pending, status, interest, level, queued,
                           report, aborted>>
  /\ UNCHANGED <<m_datas, flagVars>>

DelForgotten(fd) ==                                        \* Mutant
  /\ life[fd] = "cancelled" /\ Become(fd, "deleted")
  /\ UNCHANGED <<vars, m_datas, flagVars>>
Del(fd) ==
  /\ life[fd] = "cancelled" /\ Become(fd, "deleted")
  /\ m_datas' = [m_datas EXCEPT ![fd] = NoCtx]
  /\ UNCHANGED <<vars, flagVars>>

\* The number is free; an entry still there was made for a file that is gone.
CloseEnds(fd) ==
  /\ life[fd] = "deleted" /\ EndClose(fd)
  /\ Become(fd, "free")
  /\ m_datas' = IF Managed(fd) THEN [m_datas EXCEPT ![fd].own = FALSE] ELSE m_datas
  /\ UNCHANGED flagVars

-----------------------------------------------------------------------------
\* Initially each number is a socket in use.
DescriptorsInit ==
  /\ Init
  /\ life = [fd \in Fds |-> "used"]
  /\ m_datas = [fd \in Fds |-> [m_userNonblock |-> FALSE, own |-> TRUE]]
  /\ nonblock = [fd \in Fds |-> TRUE]
  /\ asked = [fd \in Fds |-> FALSE]
  /\ unblocked = [fd \in Fds |-> FALSE]

Registering(fd) ==
  /\ life[fd] = "used"
  /\ \/ \E e \in Events : \/ \E r \in Regs : AddEvent(fd, e, r)
                          \/ DelEvent(fd, e) \/ CancelEvent(fd, e)
     \/ CancelAll(fd)
  /\ UNCHANGED fdVars

ManagerStep(fd) ==
  \/ SystemCall(fd) \/ Look(fd) \/ Manage(fd)
  \/ \E nb \in BOOLEAN : SetFl(fd, nb) \/ SetFionbio(fd, nb)
  \/ CloseBegins(fd) \/ Del(fd) \/ CloseEnds(fd)

Elsewhere ==
  /\ KernelStep \/ (\E t \in Idlers : IdleStep(t)) \/ Aborted
  /\ UNCHANGED fdVars

DescriptorsNext ==
  \/ \E fd \in Fds : Registering(fd) \/ (~aborted /\ ManagerStep(fd))
  \/ Elsewhere

\* EventContexts' fairness, for the same actions.
DescriptorsFairness ==
  /\ \A fd \in Fds : SF_dvars(Reports(fd) /\ UNCHANGED fdVars)
  /\ \A t \in Idlers, fd \in Fds : WF_dvars(HandleEvent(t, fd) /\ UNCHANGED fdVars)

DescriptorsSpec == DescriptorsInit /\ [][DescriptorsNext]_dvars
DescriptorsFairSpec == DescriptorsSpec /\ DescriptorsFairness

-----------------------------------------------------------------------------
(* Properties *)

\* Also: the file of a number is open from the system call to close().
DescriptorsTypeOK ==
  /\ TypeOK
  /\ life \in [Fds -> {"free", "fresh", "absent", "used", "cancelled", "deleted"}]
  /\ \A fd \in Fds : file[fd] = CASE life[fd] = "free" -> "closed"
                                 [] life[fd] \in {"cancelled", "deleted"} -> "closing"
                                 [] OTHER -> "open"
  /\ m_datas \in [Fds -> FdCtx \cup {NoCtx}]
  /\ nonblock \in [Fds -> BOOLEAN] /\ asked \in [Fds -> BOOLEAN]
  /\ unblocked \in [Fds -> BOOLEAN]

\* A socket in use has an FdCtx, and it is the one made for this socket, however
\* often its number was used before: hooked calls would else take it for an
\* ordinary file, or treat it as its predecessor wanted to be treated.
ManagedAsItself == \A fd \in Fds : life[fd] = "used" => Managed(fd) /\ m_datas[fd].own

\* The program is told the mode it asked for with fcntl or ioctl, although the
\* kernel's flag says something else (hook.cpp, F_GETFL).
GetFlTellsAsked == \A fd \in Fds : life[fd] = "used" => GetFl(fd) = asked[fd]

\* No call on a socket in use can block its thread, unless the program has
\* switched the socket to blocking with ioctl, which is not intercepted.
SocketsDoNotBlock ==
  \A fd \in Fds : life[fd] = "used" => nonblock[fd] \/ unblocked[fd]
=============================================================================

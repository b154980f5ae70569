------------------------- MODULE DescriptorsProofs -------------------------
(***************************************************************************)
(* The entries of FdManager, for any number of descriptors, idle threads   *)
(* and registrations.  A number is looked up in the table only while it    *)
(* has no entry, because close() deletes the entry before the kernel may   *)
(* give the number out again; so every socket in use has its own, and its  *)
(* close() cancels what is registered on it: the invariant of the          *)
(* registrations carries over to the composition.                          *)
(***************************************************************************)
EXTENDS Descriptors, EventContextsProofs

Lives == {"free", "fresh", "absent", "used", "cancelled", "deleted"}

FlagsOK ==
  /\ life \in [Fds -> Lives]
  /\ m_datas \in [Fds -> FdCtx \cup {NoCtx}]
  /\ nonblock \in [Fds -> BOOLEAN]
  /\ asked \in [Fds -> BOOLEAN]
  /\ unblocked \in [Fds -> BOOLEAN]

\* What is known of a number by the point of its life.
Entry(fd) ==
  /\ life[fd] \in {"used", "cancelled"} => m_datas[fd] \in FdCtx /\ m_datas[fd].own
  /\ life[fd] \notin {"used", "cancelled"} => m_datas[fd] = NoCtx
  /\ life[fd] \in {"fresh", "absent"} => ~asked[fd]
  /\ life[fd] = "used" => /\ m_datas[fd].m_userNonblock = asked[fd]
                          /\ nonblock[fd] \/ unblocked[fd]

DInv == FlagsOK /\ \A fd \in Fds : Entry(fd)

\* A step changes what is known of one number at most.
LEMMA OthersStay ==
  ASSUME DInv, FlagsOK', NEW fd \in Fds, Entry(fd)',
         \A g \in Fds \ {fd} : /\ life'[g] = life[g] /\ m_datas'[g] = m_datas[g]
                               /\ nonblock'[g] = nonblock[g] /\ asked'[g] = asked[g]
                               /\ unblocked'[g] = unblocked[g]
  PROVE  DInv'
<1> SUFFICES ASSUME NEW g \in Fds PROVE Entry(g)'
  BY DEF DInv
<1>1. CASE g = fd
  BY <1>1
<1>2. CASE g # fd
  BY <1>2 DEF DInv, Entry
<1> QED BY <1>1, <1>2

\* At first no number is in use and none has an entry.
LEMMA InitDInv == DescriptorsInit => DInv
<1> DEFINE made == [m_userNonblock |-> FALSE, own |-> TRUE]
<1>1. made \in FdCtx /\ made.own /\ made.m_userNonblock = FALSE
  BY DEF FdCtx
<1> HIDE DEF made
<1> SUFFICES ASSUME DescriptorsInit PROVE DInv
  OBVIOUS
<1>2. m_datas = [fd \in Fds |-> made]
  BY DEF DescriptorsInit, made
<1>3. FlagsOK
  BY <1>1, <1>2 DEF DescriptorsInit, FlagsOK, Lives
<1>4. ASSUME NEW fd \in Fds PROVE Entry(fd)
  BY <1>1, <1>2 DEF DescriptorsInit, Entry
<1> QED BY <1>3, <1>4 DEF DInv

\* socket(), accept()
LEMMA CreateStep ==
  ASSUME DInv, NEW fd \in Fds, SystemCall(fd) \/ Look(fd) \/ Manage(fd)
  PROVE  DInv'
<1> USE DescriptorsAssumption DEF Become, flagVars
<1>1. CASE SystemCall(fd)
  <2>1. FlagsOK' BY <1>1 DEF DInv, FlagsOK, SystemCall, Lives
  <2>2. Entry(fd)' BY <1>1 DEF DInv, FlagsOK, Entry, SystemCall
  <2> QED BY <1>1, <2>1, <2>2, OthersStay DEF DInv, FlagsOK, SystemCall
<1>2. CASE Look(fd)
  <2>0. life' = [life EXCEPT ![fd] = "absent"]
    BY <1>2 DEF DInv, Entry, Look, Managed
  <2>1. FlagsOK' BY <1>2, <2>0 DEF DInv, FlagsOK, Look, Lives
  <2>2. Entry(fd)' BY <1>2, <2>0 DEF DInv, FlagsOK, Entry, Look
  <2> QED BY <1>2, <2>0, <2>1, <2>2, OthersStay DEF DInv, FlagsOK, Look
<1>3. CASE Manage(fd)
  <2>0. [m_userNonblock |-> FALSE, own |-> TRUE] \in FdCtx
    BY DEF FdCtx
  <2>1. FlagsOK' BY <1>3, <2>0 DEF DInv, FlagsOK, Manage, InitNonblock, Lives
  <2>2. Entry(fd)' BY <1>3, <2>0 DEF DInv, FlagsOK, Entry, Manage, InitNonblock
  <2> QED BY <1>3, <2>1, <2>2, OthersStay DEF DInv, FlagsOK, Manage, InitNonblock
<1> QED BY <1>1, <1>2, <1>3

\* fcntl(F_SETFL), ioctl(FIONBIO)
LEMMA FlagStep ==
  ASSUME DInv, NEW fd \in Fds, NEW nb \in BOOLEAN, SetFl(fd, nb) \/ SetFionbio(fd, nb)
  PROVE  DInv'
<1> DEFINE new == [m_datas[fd] EXCEPT !.m_userNonblock = nb]
<1>1. life[fd] = "used" /\ m_datas[fd] \in FdCtx /\ m_datas[fd].own
  BY DEF SetFl, SetFionbio, DInv, Entry
<1>2. Managed(fd)
  BY <1>1, DescriptorsAssumption DEF Managed
<1>3. new \in FdCtx /\ new.own /\ new.m_userNonblock = nb
  BY <1>1 DEF FdCtx
<1>4. m_datas' = [m_datas EXCEPT ![fd] = new]
  BY <1>2 DEF SetFl, SetFionbio, SetUserNonblock
<1> HIDE DEF new
<1>5. /\ life' = life /\ asked' = [asked EXCEPT ![fd] = nb]
      /\ \/ nonblock' = [nonblock EXCEPT ![fd] = TRUE]
            /\ unblocked' = [unblocked EXCEPT ![fd] = FALSE]
         \/ nonblock' = [nonblock EXCEPT ![fd] = nb]
            /\ unblocked' = [unblocked EXCEPT ![fd] = ~nb]
  BY <1>2 DEF SetFl, SetFionbio, AsSystemWants
<1>6. FlagsOK' BY <1>3, <1>4, <1>5 DEF DInv, FlagsOK
<1>7. Entry(fd)' BY <1>1, <1>3, <1>4, <1>5 DEF DInv, FlagsOK, Entry
<1> QED BY <1>4, <1>5, <1>6, <1>7, OthersStay DEF DInv, FlagsOK

\* close()
LEMMA CloseStep ==
  ASSUME DInv, NEW fd \in Fds, CloseBegins(fd) \/ Del(fd) \/ CloseEnds(fd)
  PROVE  DInv'
<1> USE DescriptorsAssumption DEF Become, flagVars
<1>1. CASE CloseBegins(fd)
  <2>0. life' = [life EXCEPT ![fd] = "cancelled"]
    BY <1>1 DEF DInv, Entry, CloseBegins, Managed
  <2>1. FlagsOK' BY <1>1, <2>0 DEF DInv, FlagsOK, CloseBegins, Lives
  <2>2. Entry(fd)' BY <1>1, <2>0 DEF DInv, FlagsOK, Entry, CloseBegins
  <2> QED BY <1>1, <2>0, <2>1, <2>2, OthersStay DEF DInv, FlagsOK, CloseBegins
<1>2. CASE Del(fd)
  <2>1. FlagsOK' BY <1>2 DEF DInv, FlagsOK, Del, Lives
  <2>2. Entry(fd)' BY <1>2 DEF DInv, FlagsOK, Entry, Del
  <2> QED BY <1>2, <2>1, <2>2, OthersStay DEF DInv, FlagsOK, Del
<1>3. CASE CloseEnds(fd)
  <2>0. m_datas' = m_datas
    BY <1>3 DEF DInv, Entry, CloseEnds, Managed
  <2>1. FlagsOK' BY <1>3, <2>0 DEF DInv, FlagsOK, CloseEnds, Lives
  <2>2. Entry(fd)' BY <1>3, <2>0 DEF DInv, FlagsOK, Entry, CloseEnds
  <2> QED BY <1>3, <2>0, <2>1, <2>2, OthersStay DEF DInv, FlagsOK, CloseEnds
<1> QED BY <1>1, <1>2, <1>3

\* Each step takes a number to the next point of its life, entry and flags with it.
LEMMA StepDInv == DInv /\ [DescriptorsNext]_dvars => DInv'
<1> SUFFICES ASSUME DInv, [DescriptorsNext]_dvars PROVE DInv'
  OBVIOUS
<1>1. CASE UNCHANGED fdVars
  BY <1>1 DEF fdVars, flagVars, DInv, FlagsOK, Entry
<1>2. ASSUME NEW fd \in Fds, ManagerStep(fd) PROVE DInv'
  BY <1>2, CreateStep, FlagStep, CloseStep DEF ManagerStep
<1> QED BY <1>1, <1>2 DEF DescriptorsNext, Registering, Elsewhere, dvars

\* The strengthened invariant: what the table and the flags hold at each point
\* between socket() or accept() and the end of close().
THEOREM EntriesInductive == DescriptorsSpec => []DInv
BY InitDInv, StepDInv, PTL DEF DescriptorsSpec

\* A hooked call on a socket in use finds the entry that was made for it
\* (FdManager::get, del and the order of the steps of close()).
THEOREM EntriesOwned == DescriptorsSpec => []ManagedAsItself
<1>1. DInv => ManagedAsItself
  BY DescriptorsAssumption DEF DInv, Entry, ManagedAsItself, Managed
<1> QED BY <1>1, EntriesInductive, PTL

\* fcntl(F_GETFL) reports the blocking mode the program asked for.
THEOREM FlagsTold == DescriptorsSpec => []GetFlTellsAsked
<1>1. DInv => GetFlTellsAsked
  BY DescriptorsAssumption DEF DInv, Entry, GetFlTellsAsked, GetFl, Managed
<1> QED BY <1>1, EntriesInductive, PTL

\* No socket in use blocks its thread but one the program unblocked with ioctl.
THEOREM NoneBlocks == DescriptorsSpec => []SocketsDoNotBlock
<1>1. DInv => SocketsDoNotBlock
  BY DEF DInv, Entry, SocketsDoNotBlock
<1> QED BY <1>1, EntriesInductive, PTL

-----------------------------------------------------------------------------
(* The registrations under the life of the numbers. *)

\* The file of a number is open from the system call to close().
FileMatches ==
  \A fd \in Fds : file[fd] = CASE life[fd] = "free" -> "closed"
                               [] life[fd] \in {"cancelled", "deleted"} -> "closing"
                               [] OTHER -> "open"

DescriptorsInv == DInv /\ EInv /\ FileMatches

\* A socket in use has an entry, so that its close() does cancel.
LEMMA CloseCancels ==
  ASSUME DInv, NEW fd \in Fds, CloseBegins(fd)
  PROVE  BeginClose(fd) /\ Become(fd, "cancelled")
BY DescriptorsAssumption DEF DInv, Entry, CloseBegins, Managed

\* close() is the only step that touches both tables, and it cancels first.
LEMMA RegistrationsStep ==
  ASSUME DescriptorsInv, [DescriptorsNext]_dvars
  PROVE  EInv'
<1>0. EInv /\ DInv
  BY DEF DescriptorsInv
<1>1. ASSUME NEW fd \in Fds, Registering(fd)
      PROVE  EInv'
  BY <1>0, <1>1, AddEventKeeps, WithdrawKeeps DEF Registering
<1>2. ASSUME NEW fd \in Fds, ManagerStep(fd)
      PROVE  EInv'
  <2>1. CASE SystemCall(fd)
    BY <1>0, <2>1, ReopenKeeps DEF SystemCall
  <2>2. CASE CloseBegins(fd)
    BY <1>0, <2>2, CloseCancels, BeginCloseKeeps
  <2>3. CASE CloseEnds(fd)
    BY <1>0, <2>3, EndCloseKeeps DEF CloseEnds
  <2>4. CASE \/ Look(fd) \/ Manage(fd) \/ Del(fd)
             \/ \E nb \in BOOLEAN : SetFl(fd, nb) \/ SetFionbio(fd, nb)
    BY <1>0, <2>4, StutterKeeps DEF Look, Manage, Del, SetFl, SetFionbio
  <2> QED BY <1>2, <2>1, <2>2, <2>3, <2>4 DEF ManagerStep
<1>3. CASE Elsewhere
  BY <1>0, <1>3, ReportingKeeps, HandleEventKeeps, StutterKeeps
     DEF Elsewhere, IdleStep, Aborted
<1>4. CASE UNCHANGED dvars
  BY <1>0, <1>4, StutterKeeps DEF dvars
<1> QED BY <1>1, <1>2, <1>3, <1>4 DEF DescriptorsNext

\* Only the system call and close() open and close files.
LEMMA FileFrame ==
  ASSUME FileMatches, UNCHANGED <<life, file>>
  PROVE  FileMatches'
BY DEF FileMatches

\* The points of a number's life and the state of its file move together.
LEMMA FileStep ==
  ASSUME DescriptorsInv, [DescriptorsNext]_dvars
  PROVE  FileMatches'
<1>0. FileMatches /\ DInv /\ life \in [Fds -> Lives] /\ KernelTypes
  BY PartsOfType DEF DescriptorsInv, DInv, FlagsOK
<1>1. ASSUME NEW fd \in Fds, Registering(fd)
      PROVE  UNCHANGED <<life, file>>
  BY <1>1 DEF Registering, AddEvent, DelEvent, CancelEvent, CancelAll, Ctl, fdVars
<1>2. CASE Elsewhere
  <2>1. ASSUME NEW t \in Idlers, IdleStep(t)
        PROVE  file' = file
    BY <2>1 DEF IdleStep, EpollWait, HandleEvent, Skip, kernel, Ctl
  <2>2. UNCHANGED <<life, file>>
    BY <1>2, <2>1 DEF Elsewhere, KernelStep, Arrive, Consume, Aborted, vars, kernel, fdVars
  <2> QED BY <1>0, <2>2, FileFrame
<1>3. ASSUME NEW fd \in Fds, ManagerStep(fd)
      PROVE  FileMatches'
  <2>1. CASE SystemCall(fd)
    BY <1>0, <2>1 DEF SystemCall, Reopen, Become, FileMatches, KernelTypes
  <2>2. CASE CloseBegins(fd)
    <3>1. BeginClose(fd) /\ Become(fd, "cancelled")
      BY <1>0, <2>2, CloseCancels
    <3> QED BY <1>0, <3>1 DEF BeginClose, Become, FileMatches, KernelTypes
  <2>3. CASE CloseEnds(fd)
    BY <1>0, <2>3 DEF CloseEnds, EndClose, Become, FileMatches, KernelTypes
  <2>4. CASE Look(fd)
    BY <1>0, <2>4 DEF Look, Become, FileMatches, vars, kernel
  <2>5. CASE Manage(fd)
    BY <1>0, <2>5 DEF Manage, Become, FileMatches, vars, kernel
  <2>6. CASE Del(fd)
    BY <1>0, <2>6 DEF Del, Become, FileMatches, vars, kernel
  <2>7. ASSUME NEW nb \in BOOLEAN, SetFl(fd, nb) \/ SetFionbio(fd, nb)
        PROVE  FileMatches'
    BY <1>0, <2>7, FileFrame DEF SetFl, SetFionbio, vars, kernel
  <2> QED BY <1>3, <2>1, <2>2, <2>3, <2>4, <2>5, <2>6, <2>7 DEF ManagerStep
<1>4. CASE UNCHANGED dvars
  BY <1>0, <1>4, FileFrame DEF dvars, vars, kernel, fdVars
<1> QED BY <1>0, <1>1, <1>2, <1>3, <1>4, FileFrame DEF DescriptorsNext

\* The two components together: the registrations' invariant survives the reuse
\* of descriptor numbers, and the entries' the steps of the event loop.
THEOREM DescriptorsInductive == DescriptorsSpec => []DescriptorsInv
<1>1. DescriptorsInit => DescriptorsInv
  <2>1. DescriptorsInit => EInv /\ DInv
    BY InitEInv, InitDInv DEF DescriptorsInit
  <2>2. DescriptorsInit => FileMatches
    BY DEF DescriptorsInit, Init, FileMatches
  <2> QED BY <2>1, <2>2 DEF DescriptorsInv
<1>2. DescriptorsInv /\ [DescriptorsNext]_dvars => DescriptorsInv'
  <2> SUFFICES ASSUME DescriptorsInv, [DescriptorsNext]_dvars PROVE DescriptorsInv'
    OBVIOUS
  <2>1. DInv'
    BY StepDInv DEF DescriptorsInv
  <2> QED BY <2>1, RegistrationsStep, FileStep DEF DescriptorsInv
<1> QED BY <1>1, <1>2, PTL DEF DescriptorsSpec

\* Type correctness; and a number's file is open from socket() or accept() to
\* close().
THEOREM DescriptorsTyped == DescriptorsSpec => []DescriptorsTypeOK
<1>1. DescriptorsInv => DescriptorsTypeOK
  <2> SUFFICES ASSUME DescriptorsInv PROVE DescriptorsTypeOK
    OBVIOUS
  <2>1. TypeOK /\ FlagsOK /\ FileMatches
    BY DEF DescriptorsInv, EInv, DInv
  <2> QED BY <2>1 DEF DescriptorsTypeOK, FlagsOK, FileMatches, Lives
<1> QED BY <1>1, DescriptorsInductive, PTL

\* Closing and reusing numbers loses no registration and resolves none twice.
THEOREM SocketsRegisteredOnce == DescriptorsSpec => []WaitingIsRegistered
<1>1. DescriptorsInv => WaitingIsRegistered
  BY EInvWaiting DEF DescriptorsInv
<1> QED BY <1>1, DescriptorsInductive, PTL

\* close() leaves m_pendingEventCnt exact.
THEOREM SocketsPendingCounted == DescriptorsSpec => []PendingExact
<1>1. DescriptorsInv => PendingExact
  BY DEF DescriptorsInv, EInv, Registrations
<1> QED BY <1>1, DescriptorsInductive, PTL

\* A number that is used again is not watched for its predecessor's events.
THEOREM SocketsWatchedExactly == DescriptorsSpec => []WatchedIsRegistered
<1>1. DescriptorsInv => WatchedIsRegistered
  BY DEF DescriptorsInv, EInv
<1> QED BY <1>1, DescriptorsInductive, PTL
=============================================================================

------------------------ MODULE EventContextsProofs ------------------------
(***************************************************************************)
(* The registrations of EventContexts, for any number of descriptors,      *)
(* events, idle threads and registrations.  The invariant EInv couples the *)
(* four things an operation has to keep in step: the bits of m_event, the  *)
(* EventContexts, what epoll watches for and m_pendingEventCnt.            *)
(***************************************************************************)
EXTENDS EventContexts, FunctionTheorems, FiniteSetTheorems, TLAPS

Statuses == {"new", "waiting", "fired", "cancelled", "deleted"}
Outcomes == {"fired", "cancelled", "deleted"}

RegistrationTypes ==
  /\ m_event \in [Fds -> SUBSET Events]
  /\ ctx \in [Fds -> [Events -> Regs \cup {NoReg}]]
  /\ status \in [Regs -> Statuses]

\* The bit is set exactly while the context is in use.
BitsMatch == \A fd \in Fds, e \in Events : e \in m_event[fd] <=> ctx[fd][e] # NoReg

\* No registration is in two contexts.
InOnePlace ==
  \A fd, gd \in Fds, e, h \in Events :
    ctx[fd][e] \in Regs /\ ctx[fd][e] = ctx[gd][h] => fd = gd /\ e = h

\* Those nobody has resolved are the ones in a context.
WaitingIsHeld ==
  \A r \in Regs : status[r] = "waiting" <=> \E fd \in Fds, e \in Events : ctx[fd][e] = r

Waiting == {r \in Regs : status[r] = "waiting"}

Registrations ==
  RegistrationTypes /\ BitsMatch /\ InOnePlace /\ WaitingIsHeld /\ PendingExact

\* Nothing is registered on a descriptor from close() on.
QuietOnceClosing == \A fd \in Fds : file[fd] # "open" => m_event[fd] = {}

EInv == TypeOK /\ Registrations /\ WatchedIsRegistered /\ QuietOnceClosing

-----------------------------------------------------------------------------
(* The operations on a registration. *)

\* As many registrations as events: each event has one of its own.
LEMMA ResolvedCount ==
  ASSUME Registrations, NEW fd \in Fds, NEW evs \in SUBSET m_event[fd]
  PROVE  LET held == {ctx[fd][e] : e \in evs} IN
           /\ held \subseteq Waiting
           /\ IsFiniteSet(held) /\ Cardinality(held) = Cardinality(evs)
<1> DEFINE held == {ctx[fd][e] : e \in evs}
           reg == [e \in evs |-> ctx[fd][e]]
<1>1. evs \subseteq Events /\ \A e \in evs : ctx[fd][e] \in Regs
  BY DEF Registrations, RegistrationTypes, BitsMatch
<1>2. held \subseteq Waiting
  BY <1>1 DEF Registrations, WaitingIsHeld, Waiting
<1>3. reg \in Bijection(evs, held)
  <2>1. \A e, h \in evs : reg[e] = reg[h] => e = h
    BY <1>1 DEF Registrations, InOnePlace
  <2>2. reg \in [evs -> held] /\ \A r \in held : \E e \in evs : reg[e] = r
    OBVIOUS
  <2> QED BY <2>1, <2>2, Fun_IsBij
<1>4. IsFiniteSet(held)
  BY <1>2, EventContextsAssumption, FS_Subset DEF Waiting
<1>5. Cardinality(held) = Cardinality(evs)
  <2>1. reg \in Injection(evs, held) /\ reg \in Surjection(evs, held)
    BY <1>3 DEF Bijection
  <2> QED BY <2>1, <1>4, FS_Injection
<1> QED BY <1>2, <1>4, <1>5

\* Firing, cancelling and deleting take bit, context, fate and count along.
LEMMA ResolveKeeps ==
  ASSUME Registrations, NEW fd \in Fds, NEW evs \in SUBSET m_event[fd],
         NEW how \in Outcomes, Resolve(fd, evs, how)
  PROVE  Registrations'
<1> DEFINE held == {ctx[fd][e] : e \in evs}
<1>1. /\ held \subseteq Waiting
      /\ IsFiniteSet(held) /\ Cardinality(held) = Cardinality(evs)
  BY ResolvedCount
<1>2. evs \subseteq Events
  BY DEF Registrations, RegistrationTypes
<1>3. /\ m_event' = [m_event EXCEPT ![fd] = @ \ evs]
      /\ status' = [r \in Regs |-> IF r \in held THEN how ELSE status[r]]
      /\ pending' = pending - Cardinality(evs)
  BY DEF Resolve, Released
<1>4. /\ ctx' \in [Fds -> [Events -> Regs \cup {NoReg}]]
      /\ \A gd \in Fds, e \in Events :
           ctx'[gd][e] = IF gd = fd /\ e \in evs THEN NoReg ELSE ctx[gd][e]
  BY DEF Resolve, ResetContext, Registrations, RegistrationTypes
<1> HIDE DEF held
<1>5. RegistrationTypes'
  BY <1>2, <1>3, <1>4 DEF Registrations, RegistrationTypes, Outcomes, Statuses
<1>6. BitsMatch'
  BY <1>2, <1>3, <1>4 DEF Registrations, RegistrationTypes, BitsMatch
<1>7. InOnePlace'
  BY <1>4, EventContextsAssumption DEF Registrations, InOnePlace
<1>8. WaitingIsHeld'
  <2> SUFFICES ASSUME NEW r \in Regs
               PROVE  status'[r] = "waiting"
                        <=> \E gd \in Fds, e \in Events : ctx'[gd][e] = r
    BY DEF WaitingIsHeld
  <2>1. CASE r \in held
    <3>1. PICK e \in evs : ctx[fd][e] = r
      BY <2>1 DEF held
    <3>2. status'[r] # "waiting"
      BY <2>1, <1>3 DEF Outcomes
    <3> QED BY <3>1, <3>2, <1>2, <1>4, EventContextsAssumption DEF Registrations, InOnePlace
  <2>2. CASE r \notin held
    <3>1. status'[r] = status[r]
      BY <2>2, <1>3
    <3>2. \A gd \in Fds, e \in Events : ctx[gd][e] = r <=> ctx'[gd][e] = r
      BY <2>2, <1>4, EventContextsAssumption DEF held
    <3> QED BY <3>1, <3>2 DEF Registrations, WaitingIsHeld
  <2> QED BY <2>1, <2>2
<1>9. PendingExact'
  <2>1. Waiting' = Waiting \ held
    BY <1>3 DEF Waiting, Outcomes
  <2>2. IsFiniteSet(Waiting)
    BY EventContextsAssumption, FS_Subset DEF Waiting
  <2>3. Cardinality(Waiting \ held) = Cardinality(Waiting) - Cardinality(held)
    <3>1. Waiting \cap held = held
      BY <1>1
    <3> QED BY <3>1, <2>2, FS_Difference
  <2> QED BY <2>1, <2>3, <1>1, <1>3 DEF Registrations, PendingExact, Waiting
<1> QED BY <1>5, <1>6, <1>7, <1>8, <1>9 DEF Registrations

\* So does a registration.
LEMMA RegisterKeeps ==
  ASSUME Registrations, NEW fd \in Fds, NEW e \in Events \ m_event[fd],
         NEW r \in Regs, status[r] = "new", Register(fd, e, r)
  PROVE  Registrations'
<1>1. /\ m_event' = [m_event EXCEPT ![fd] = @ \cup {e}]
      /\ status' = [status EXCEPT ![r] = "waiting"]
      /\ pending' = pending + 1
  BY DEF Register
<1>2. /\ ctx' \in [Fds -> [Events -> Regs \cup {NoReg}]]
      /\ \A gd \in Fds, h \in Events :
           ctx'[gd][h] = IF gd = fd /\ h = e THEN r ELSE ctx[gd][h]
  BY DEF Register, Registrations, RegistrationTypes
<1>3. \A gd \in Fds, h \in Events : ctx[gd][h] # r
  BY DEF Registrations, WaitingIsHeld
<1>4. RegistrationTypes'
  BY <1>1, <1>2 DEF Registrations, RegistrationTypes, Statuses
<1>5. BitsMatch'
  BY <1>1, <1>2, EventContextsAssumption DEF Registrations, RegistrationTypes, BitsMatch
<1>6. InOnePlace'
  BY <1>2, <1>3 DEF Registrations, InOnePlace
<1>7. WaitingIsHeld'
  <2>1. ctx[fd][e] = NoReg
    BY DEF Registrations, BitsMatch
  <2>2. ASSUME NEW x \in Regs
        PROVE  status'[x] = "waiting"
                 <=> \E gd \in Fds, h \in Events : ctx'[gd][h] = x
    <3>1. CASE x = r
      BY <3>1, <1>1, <1>2 DEF Registrations, RegistrationTypes
    <3>2. CASE x # r
      <4>1. status'[x] = status[x]
        BY <3>2, <1>1 DEF Registrations, RegistrationTypes
      <4>2. \A gd \in Fds, h \in Events : ctx[gd][h] = x <=> ctx'[gd][h] = x
        BY <3>2, <2>1, <1>2, EventContextsAssumption
      <4> QED BY <4>1, <4>2 DEF Registrations, WaitingIsHeld
    <3> QED BY <3>1, <3>2
  <2> QED BY <2>2 DEF WaitingIsHeld
<1>8. PendingExact'
  <2>1. Waiting' = Waiting \cup {r} /\ r \notin Waiting
    BY <1>1 DEF Waiting, Registrations, RegistrationTypes
  <2>2. IsFiniteSet(Waiting)
    BY EventContextsAssumption, FS_Subset DEF Waiting
  <2>3. Cardinality(Waiting \cup {r}) = Cardinality(Waiting) + 1
    BY <2>1, <2>2, FS_AddElement
  <2> QED BY <2>1, <2>3, <1>1 DEF Registrations, PendingExact, Waiting
<1> QED BY <1>4, <1>5, <1>6, <1>7, <1>8 DEF Registrations

\* Steps that touch no registration.
LEMMA RegistrationsFrame ==
  ASSUME Registrations, UNCHANGED <<m_event, ctx, pending, status>>
  PROVE  Registrations'
BY DEF Registrations, RegistrationTypes, BitsMatch, InOnePlace, WaitingIsHeld, PendingExact

-----------------------------------------------------------------------------
(* The rest of the type invariant: the kernel and the reports. *)

KernelTypes ==
  /\ file \in [Fds -> {"open", "closing", "closed"}]
  /\ interest \in [Fds -> SUBSET Events]
  /\ level \in [Fds -> SUBSET (Events \cup {Hup})]
  /\ queued \in SUBSET Fds
  /\ report \in [Idlers -> [Fds -> SUBSET (Events \cup {Hup})]]
  /\ aborted \in BOOLEAN

\* TypeOK is what the registrations and the kernel have for types.
LEMMA TypeParts == Registrations /\ KernelTypes => TypeOK
<1> SUFFICES ASSUME Registrations, KernelTypes PROVE TypeOK
  OBVIOUS
<1>1. pending \in Nat
  BY EventContextsAssumption, FS_Subset, FS_CardinalityType
     DEF Registrations, PendingExact
<1> QED BY <1>1 DEF Registrations, RegistrationTypes, KernelTypes, TypeOK, Statuses

\* The same of the next state.
LEMMA TypePartsNext == Registrations' /\ KernelTypes' => TypeOK'
BY TypeParts, PTL

\* And it gives the kernel's part back.
LEMMA PartsOfType == EInv => KernelTypes
BY DEF EInv, TypeOK, KernelTypes

\* epoll_ctl on one descriptor asks for what m_event will hold.
LEMMA CtlKeeps ==
  ASSUME KernelTypes, NEW fd \in Fds, NEW evs \in SUBSET Events, Ctl(fd, evs)
  PROVE  /\ interest' = [interest EXCEPT ![fd] = evs] /\ file' = file
         /\ interest' \in [Fds -> SUBSET Events]
         /\ level' \in [Fds -> SUBSET (Events \cup {Hup})]
         /\ queued' \in SUBSET Fds
BY DEF KernelTypes, Ctl

-----------------------------------------------------------------------------
(* The invariant is inductive: one step per action. *)

\* EInv holds while nothing is registered.
LEMMA InitEInv == Init => EInv
<1> SUFFICES ASSUME Init PROVE EInv
  OBVIOUS
<1> USE EventContextsAssumption
<1>1. RegistrationTypes /\ BitsMatch /\ InOnePlace /\ WaitingIsHeld
  BY DEF Init, RegistrationTypes, Statuses, BitsMatch, InOnePlace, WaitingIsHeld
<1>2. PendingExact
  <2>1. {r \in Regs : status[r] = "waiting"} = {}
    BY DEF Init
  <2> QED BY <2>1, FS_EmptySet DEF Init, PendingExact
<1>3. KernelTypes /\ WatchedIsRegistered /\ QuietOnceClosing
  BY DEF Init, KernelTypes, WatchedIsRegistered, QuietOnceClosing
<1> QED BY <1>1, <1>2, <1>3, TypeParts DEF EInv, Registrations

\* A step that registers, or resolves some events of one descriptor, and asks
\* epoll for what is left.
LEMMA OperationKeeps ==
  ASSUME EInv, NEW fd \in Fds, NEW evs, Ctl(fd, evs), Registrations',
         m_event' = [m_event EXCEPT ![fd] = evs],
         file[fd] = "open", UNCHANGED <<report, aborted>>
  PROVE  EInv'
<1>1. evs \in SUBSET Events
  BY DEF EInv, TypeOK, Registrations, RegistrationTypes
<1>2. KernelTypes
  BY PartsOfType
<1>3. /\ interest' = [interest EXCEPT ![fd] = evs] /\ file' = file
      /\ interest' \in [Fds -> SUBSET Events]
      /\ level' \in [Fds -> SUBSET (Events \cup {Hup})]
      /\ queued' \in SUBSET Fds
  BY <1>1, <1>2, CtlKeeps
<1>4. KernelTypes'
  BY <1>2, <1>3 DEF KernelTypes
<1>5. WatchedIsRegistered' /\ QuietOnceClosing'
  BY <1>3 DEF EInv, TypeOK, WatchedIsRegistered, QuietOnceClosing
<1> QED BY <1>4, <1>5, TypePartsNext DEF EInv

\* Where something is registered, the descriptor is open.
LEMMA RegisteredIsOpen ==
  ASSUME EInv, NEW fd \in Fds, m_event[fd] # {}
  PROVE  file[fd] = "open"
BY DEF EInv, QuietOnceClosing

\* addEvent
LEMMA AddEventKeeps ==
  ASSUME EInv, NEW fd \in Fds, NEW e \in Events, NEW r \in Regs, AddEvent(fd, e, r)
  PROVE  EInv'
<1>1. Registrations'
  BY RegisterKeeps DEF EInv, AddEvent
<1>2. m_event' = [m_event EXCEPT ![fd] = m_event[fd] \cup {e}]
  BY DEF AddEvent, Register
<1> QED BY <1>1, <1>2, OperationKeeps DEF AddEvent

\* delEvent, cancelEvent, cancelAll and triggerEvent differ in what they resolve
\* and in what becomes of it.
LEMMA ResolvingKeeps ==
  ASSUME EInv, NEW fd \in Fds, NEW evs \in SUBSET m_event[fd], m_event[fd] # {},
         NEW how \in Outcomes, Ctl(fd, m_event[fd] \ evs), Resolve(fd, evs, how),
         UNCHANGED <<report, aborted>>
  PROVE  EInv'
<1>1. Registrations'
  BY ResolveKeeps DEF EInv
<1>2. m_event' = [m_event EXCEPT ![fd] = m_event[fd] \ evs]
  BY DEF Resolve
<1> QED BY <1>1, <1>2, RegisteredIsOpen, OperationKeeps

\* delEvent, cancelEvent and cancelAll, whether or not epoll_ctl succeeds.
LEMMA WithdrawKeeps ==
  ASSUME EInv, NEW fd \in Fds,
         \/ \E e \in Events : DelEvent(fd, e) \/ CancelEvent(fd, e)
         \/ CancelAll(fd)
  PROVE  EInv'
<1>1. ASSUME NEW e \in Events, DelEvent(fd, e) \/ CancelEvent(fd, e)
      PROVE  EInv'
  BY <1>1, ResolvingKeeps DEF DelEvent, CancelEvent, Outcomes
<1>2. CASE CancelAll(fd)
  <2>1. m_event[fd] \ m_event[fd] = {}
    OBVIOUS
  <2> QED BY <1>2, <2>1, ResolvingKeeps DEF CancelAll, Outcomes
<1> QED BY <1>1, <1>2

\* close(): with nothing registered there is nothing to cancel, and otherwise
\* epoll watches the descriptor, so epoll_ctl does not refuse.
LEMMA BeginCloseKeeps ==
  ASSUME EInv, NEW fd \in Fds, BeginClose(fd)
  PROVE  EInv'
<1>0. /\ ~aborted /\ file[fd] = "open" /\ file' = [file EXCEPT ![fd] = "closing"]
      /\ UNCHANGED <<level, report, aborted>>
  BY DEF BeginClose
<1>1. KernelTypes
  BY PartsOfType
<1>2. CASE m_event[fd] # {}
  <2>1. interest = m_event /\ CtlOK(fd)
    BY <1>0, <1>2 DEF EInv, WatchedIsRegistered, CtlOK
  <2>2. /\ interest' = [interest EXCEPT ![fd] = {}] /\ queued' = queued \ {fd}
        /\ Resolve(fd, m_event[fd], "cancelled")
    BY <1>2, <2>1 DEF BeginClose
  <2>3. Registrations'
    BY <2>2, ResolveKeeps DEF EInv, Outcomes
  <2>4. m_event' = [m_event EXCEPT ![fd] = {}]
    BY <2>2 DEF Resolve
  <2>5. KernelTypes'
    BY <1>0, <1>1, <2>2 DEF KernelTypes
  <2>6. WatchedIsRegistered' /\ QuietOnceClosing'
    BY <1>0, <1>1, <2>1, <2>2, <2>4
       DEF KernelTypes, EInv, TypeOK, WatchedIsRegistered, QuietOnceClosing
  <2> QED BY <2>3, <2>5, <2>6, TypePartsNext DEF EInv
<1>3. CASE m_event[fd] = {}
  <2>1. UNCHANGED <<queued, interest, m_event, ctx, status, pending>>
    BY <1>3 DEF BeginClose
  <2>2. Registrations'
    BY <2>1, RegistrationsFrame DEF EInv
  <2>3. KernelTypes'
    BY <1>0, <1>1, <2>1 DEF KernelTypes
  <2>4. WatchedIsRegistered' /\ QuietOnceClosing'
    BY <1>0, <1>1, <1>3, <2>1 DEF KernelTypes, EInv, WatchedIsRegistered, QuietOnceClosing
  <2> QED BY <2>2, <2>3, <2>4, TypePartsNext DEF EInv
<1> QED BY <1>2, <1>3

\* Steps that do not touch the registrations.
LEMMA KernelOnlyKeeps ==
  ASSUME EInv, UNCHANGED <<m_event, ctx, pending, status>>, KernelTypes',
         WatchedIsRegistered', QuietOnceClosing'
  PROVE  EInv'
BY RegistrationsFrame, TypePartsNext DEF EInv

\* The kernel forgets what it watched; close() left nothing registered.
LEMMA EndCloseKeeps ==
  ASSUME EInv, NEW fd \in Fds, EndClose(fd)
  PROVE  EInv'
<1>1. KernelTypes' /\ QuietOnceClosing'
  BY PartsOfType DEF EndClose, KernelTypes, EInv, QuietOnceClosing
<1>2. m_event[fd] = {} /\ interest = m_event
  BY DEF EndClose, EInv, QuietOnceClosing, WatchedIsRegistered
<1>3. WatchedIsRegistered'
  BY <1>2 DEF EndClose, EInv, TypeOK, WatchedIsRegistered
<1> QED BY <1>1, <1>3, KernelOnlyKeeps DEF EndClose

\* A number that is given out again starts with nothing registered.
LEMMA ReopenKeeps ==
  ASSUME EInv, NEW fd \in Fds, Reopen(fd)
  PROVE  EInv'
<1>1. KernelTypes' /\ QuietOnceClosing' /\ WatchedIsRegistered'
  BY PartsOfType DEF Reopen, KernelTypes, EInv, QuietOnceClosing, WatchedIsRegistered
<1> QED BY <1>1, KernelOnlyKeeps DEF Reopen

\* Conditions come and go, and epoll_wait reports.
LEMMA ReportingKeeps ==
  ASSUME EInv, KernelStep \/ \E t \in Idlers : EpollWait(t)
  PROVE  EInv'
<1> USE DEF KernelTypes, EInv, QuietOnceClosing, WatchedIsRegistered
<1>1. ASSUME NEW fd \in Fds, NEW e \in Events \cup {Hup}, Arrive(fd, e)
      PROVE  EInv'
  <2>1. KernelTypes' /\ QuietOnceClosing' /\ WatchedIsRegistered'
    BY <1>1, PartsOfType DEF Arrive
  <2> QED BY <1>1, <2>1, KernelOnlyKeeps DEF Arrive
<1>2. ASSUME NEW fd \in Fds, NEW e \in Events, Consume(fd, e)
      PROVE  EInv'
  <2>1. KernelTypes' /\ QuietOnceClosing' /\ WatchedIsRegistered'
    BY <1>2, PartsOfType DEF Consume
  <2> QED BY <1>2, <2>1, KernelOnlyKeeps DEF Consume
<1>3. ASSUME NEW t \in Idlers, EpollWait(t)
      PROVE  EInv'
  <2>1. KernelTypes' /\ QuietOnceClosing' /\ WatchedIsRegistered'
    BY <1>3, PartsOfType DEF EpollWait, Wanted
  <2> QED BY <1>3, <2>1, KernelOnlyKeeps DEF EpollWait
<1> QED BY <1>1, <1>2, <1>3 DEF KernelStep

\* A report: skipped, or resolved, or the assertion of triggerEvent fails after
\* epoll_ctl.
LEMMA HandleEventKeeps ==
  ASSUME EInv, NEW t \in Idlers, NEW fd \in Fds, HandleEvent(t, fd)
  PROVE  EInv'
<1> DEFINE real == RealEvents(fd, report[t][fd])
<1>1. KernelTypes /\ real \subseteq Events /\ m_event[fd] \subseteq Events
  BY PartsOfType DEF KernelTypes, EInv, TypeOK, RealEvents
<1>2. ~aborted /\ report' \in [Idlers -> [Fds -> SUBSET (Events \cup {Hup})]]
  BY <1>1 DEF HandleEvent, KernelTypes
<1>3. CASE m_event[fd] \cap real = {} \/ ~CtlOK(fd)
  <2>1. Skip(fd)
    BY <1>3 DEF HandleEvent
  <2>2. KernelTypes' /\ QuietOnceClosing' /\ WatchedIsRegistered'
    BY <1>1, <1>2, <2>1
       DEF Skip, kernel, KernelTypes, EInv, QuietOnceClosing, WatchedIsRegistered
  <2> QED BY <2>1, <2>2, KernelOnlyKeeps DEF Skip
<1>4. CASE ~(m_event[fd] \cap real = {} \/ ~CtlOK(fd))
  <2>1. /\ Ctl(fd, m_event[fd] \ real)
        /\ aborted' = ~(real \subseteq m_event[fd])
        /\ IF aborted' THEN UNCHANGED <<m_event, ctx, pending, status>>
                       ELSE Resolve(fd, real, "fired")
    BY <1>4, Zenon DEF HandleEvent, LeftEvents
  <2>2. /\ interest' = [interest EXCEPT ![fd] = m_event[fd] \ real] /\ file' = file
        /\ interest' \in [Fds -> SUBSET Events]
        /\ level' \in [Fds -> SUBSET (Events \cup {Hup})]
        /\ queued' \in SUBSET Fds
    BY <1>1, <2>1, CtlKeeps
  <2>3. KernelTypes'
    <3>1. aborted' \in BOOLEAN
      BY <2>1, Zenon
    <3> QED BY <1>1, <1>2, <2>2, <3>1 DEF KernelTypes
  <2>4. CASE aborted'
    <3>1. UNCHANGED <<m_event, ctx, pending, status>>
      BY <2>1, <2>4
    <3>2. QuietOnceClosing' /\ WatchedIsRegistered'
      BY <2>2, <2>4, <3>1 DEF EInv, QuietOnceClosing, WatchedIsRegistered
    <3> QED BY <2>3, <3>1, <3>2, KernelOnlyKeeps
  <2>5. CASE ~aborted'
    <3>1. real \in SUBSET m_event[fd] /\ Resolve(fd, real, "fired")
      BY <2>1, <2>5
    <3>2. Registrations'
      BY <3>1, ResolveKeeps DEF EInv, Outcomes
    <3>3. m_event' = [m_event EXCEPT ![fd] = m_event[fd] \ real]
      BY <3>1 DEF Resolve
    <3>4. file[fd] = "open"
      BY <1>4, RegisteredIsOpen
    <3>5. QuietOnceClosing' /\ WatchedIsRegistered'
      BY <1>2, <2>2, <3>3, <3>4
         DEF EInv, TypeOK, QuietOnceClosing, WatchedIsRegistered
    <3> QED BY <2>3, <3>2, <3>5, TypePartsNext DEF EInv
  <2> QED BY <2>4, <2>5
<1> QED BY <1>3, <1>4

\* Steps that change nothing.
LEMMA StutterKeeps == EInv /\ UNCHANGED vars => EInv'
<1> SUFFICES ASSUME EInv, UNCHANGED vars PROVE EInv'
  OBVIOUS
<1>1. KernelTypes' /\ QuietOnceClosing' /\ WatchedIsRegistered'
  BY PartsOfType
     DEF vars, kernel, KernelTypes, EInv, QuietOnceClosing, WatchedIsRegistered
<1> QED BY <1>1, KernelOnlyKeeps DEF vars

\* All of them together.
LEMMA StepEInv == EInv /\ [Next]_vars => EInv'
<1> SUFFICES ASSUME EInv, [Next]_vars PROVE EInv'
  OBVIOUS
<1>1. CASE UserStep
  BY <1>1, AddEventKeeps, WithdrawKeeps, BeginCloseKeeps, EndCloseKeeps, ReopenKeeps
     DEF UserStep
<1>2. CASE KernelStep
  BY <1>2, ReportingKeeps
<1>3. ASSUME NEW t \in Idlers, IdleStep(t)
      PROVE  EInv'
  BY <1>3, ReportingKeeps, HandleEventKeeps DEF IdleStep
<1> QED BY <1>1, <1>2, <1>3, StutterKeeps DEF Next, Aborted

-----------------------------------------------------------------------------
(* What follows from the invariant. *)

\* A registration that waits is in exactly one context, any other in none.
LEMMA EInvWaiting == EInv => WaitingIsRegistered
<1> SUFFICES ASSUME EInv, NEW r \in Regs
             PROVE  Cardinality({p \in Fds \X Events : ctx[p[1]][p[2]] = r})
                      = IF status[r] = "waiting" THEN 1 ELSE 0
  BY DEF EInv, Registrations, BitsMatch, WaitingIsRegistered
<1> DEFINE places == {p \in Fds \X Events : ctx[p[1]][p[2]] = r}
<1>1. CASE status[r] = "waiting"
  <2>1. PICK fd \in Fds, e \in Events : ctx[fd][e] = r
    BY <1>1 DEF EInv, Registrations, WaitingIsHeld
  <2>2. places = {<<fd, e>>}
    BY <2>1 DEF EInv, Registrations, InOnePlace
  <2> QED BY <1>1, <2>2, FS_Singleton
<1>2. CASE status[r] # "waiting"
  <2>1. places = {}
    BY <1>2 DEF EInv, Registrations, WaitingIsHeld
  <2> QED BY <1>2, <2>1, FS_EmptySet
<1> QED BY <1>1, <1>2

\* The strengthened invariant: bits, contexts, epoll's interest and the count
\* agree, and nothing is registered on a descriptor from close() on.
THEOREM RegistrationsInductive == Spec => []EInv
BY InitEInv, StepEInv, PTL DEF Spec

\* Bits of m_event, contexts and the fate of each registration agree: none is
\* lost, none is resolved twice (addEvent to resetEventContext).
THEOREM RegisteredOnce == Spec => []WaitingIsRegistered
BY RegistrationsInductive, EInvWaiting, PTL

\* m_pendingEventCnt, which stopping() reads, is exact.
THEOREM PendingCounted == Spec => []PendingExact
<1>1. EInv => PendingExact
  BY DEF EInv, Registrations
<1> QED BY <1>1, RegistrationsInductive, PTL

\* epoll watches a descriptor for what is registered on it, no more, no less.
THEOREM WatchedExactly == Spec => []WatchedIsRegistered
<1>1. EInv => WatchedIsRegistered
  BY DEF EInv
<1> QED BY <1>1, RegistrationsInductive, PTL
=============================================================================

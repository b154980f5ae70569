# TinyCoroutine: models, checks and proofs

TinyCoroutine (`src/code/`) is a small stackful coroutine library after sylar: fibers on
`ucontext`, a scheduler that runs them on a pool of threads, an `IOManager` that adds epoll and
timers, and hooked system calls that suspend a fiber instead of blocking its thread. This directory
holds TLA+ models of its concurrent core, the TLC configurations that check them on small instances,
and theorems checked by TLAPS for any number of threads, fibers and events.

    tlc -workers 2 -config Sched_live.cfg SchedulerRefinement   # one run; PROJECT.json lists them all
    tlapm SchedulerWakes.tla                             # the proofs of one module (not of those it extends)

## The system

| component | state | operations | who calls it |
|---|---|---|---|
| **Fiber** `fiber.cpp` | `m_state` READY/RUNNING/TERM, context, stack, `m_mtx` | constructor, `resume`, `yield`, `MainFunc`, `reset` (unused) | `Scheduler::run` under `m_mtx`; the fiber itself |
| **Scheduler** `scheduler.cpp` | task queue under `m_mtx`, `m_threads`, `m_stopping`, atomic `m_activeThreadCnt`, `m_idleThreadCnt` | `scheduleLock`, `run`, `start`, `stop`, virtual `tickle`, `stopping`, `idle` | everybody; `run` on every pool thread, on the caller's too with `use_caller` |
| **IOManager** `ioscheduler.cpp` | epoll descriptor, tickle pipe, `m_fdContexts` (an `FdContext` with its own mutex per descriptor), atomic `m_pendingEventCnt` | `addEvent`, `delEvent`, `cancelEvent`, `cancelAll`; overrides `tickle`, `stopping`, `idle`, `onTimerInsertedAtFront` | fibers, any thread; the idle fiber of each pool thread |
| **Timer, TimerManager** `timer.cpp` | `std::set` of timers ordered by `m_next`, under a shared mutex; `m_tickled`, `m_preTime` | `addTimer`, `addConditionTimer`, `cancel`, `refresh`, `reset`, `getNextTimer`, `listExpireCb` | fibers; `IOManager::idle` and `stopping` |
| **Hook** `hook.cpp` | thread-local switch | `sleep`, `usleep`, `nanosleep`, `do_io` behind read/write/accept..., `connect`, `close`, `fcntl`, `ioctl`, `setsockopt` | code inside fibers |
| **FdManager** `fd_manager.cpp` | table of `FdCtx` (socket? non-blocking? timeouts) under a shared mutex | `get`, `del`, setters | the hooked calls |
| **Thread, Semaphore** `thread.cpp` | thread id and name, start handshake | constructor, `join` | `Scheduler::start`, `stop` |
| Programs | | `main.cpp` echo server; `epoll/`, `libevent/` servers for comparison; `test/` earlier copies of the library | |

How they interact. A task (a fiber or a callback, perhaps pinned to a thread) enters the queue
through `scheduleLock`, which calls `tickle()` when the queue was empty. Each pool thread loops in
`run()`: it takes the first task it may run, resumes its fiber while holding the fiber's mutex, and
otherwise resumes its idle fiber. `IOManager::idle` asks `stopping()`, sleeps in `epoll_wait` until
the next timer (5 s at most), moves expired timers' callbacks and reported events into the queue, and
yields to `run()`. A fiber that waits registers itself with an event or a timer *before* it
yields. `stop()` sets `m_stopping`, tickles, lets the caller run as a worker, and joins.

What is hard. Fibers are queued before they have switched out; a tickle is skipped when nobody is
counted as idle; `stopping()` combines reads of four records made at four moments; epoll is
edge-triggered and its reports are handled after other threads had time to change what they are
about; timers are identified in their set by their expiry time; `reset` and `close` are two steps;
counters are incremented and decremented far apart. `PROJECT.json` lists every such place with its
line ("hazards") and the property that covers it, or why none does.

What makes each part correct:

* Fiber and Scheduler: one stack, one thread; `resume` only of a READY fiber; no suspended fiber is
  forgotten, none is woken twice; the counters are exact; queued work is run; `stop()` returns; the
  destructor's assertion holds; `start()` waits for its threads to have an id, and calling `stop()`
  again is harmless.
* IOManager: a registration is resolved exactly once; epoll watches what is registered; a ready event
  is delivered; the pending count is exact; the assertion in `triggerEvent` holds.
* Timers: a one-shot fires at most once; a live timer stays in the set, a cancelled one leaves it;
  `reset()` rewrites a timer only while it has it for itself; nobody oversleeps; a due timer fires.
* FdManager: a socket in use has an entry, its own and not that of an earlier file with its number; the
  program sees the blocking mode it asked for, and the kernel has the one the hooks need.
* Hook: a fiber that waits inside a call is resumed once for each yield, whoever ends the wait; no way
  out of a call leaves its timer behind; only a call with a timeout times out, and it does.

## The modules

### `Scheduler` (runs `sched_*`)

`Scheduler::run`, `stop` and `scheduleLock`, with IOManager's `tickle`, `stopping` and `idle`, and
the fiber operations. Each thread has a control point `pc[t]`; an action is the code between two
places where another thread can interfere: one critical section on the queue, one atomic counter, one
write to the pipe, one switch. `tickle()` is a step of its own after the unlock, with `ret[t]` as its
return address, because the lost-tickle races live there. `At(t)` is where a thread is once that call
returns.

| code | model |
|---|---|
| `run()`: scan, lock, resume, release | `TakeTask`/`TakeNothing`, `LockFiber`/`CreateFiber`/`RunWake`, `Resume`, `SwitchBack`, `Release`, `EnterIdle` |
| a running fiber | `FiberPost`, `FiberReschedule`, `FiberSleep`, `FiberAddEvent`, then `FiberYield`, or `FiberEnd` |
| `stopping()` inside `idle()` | `CheckTimers`, `CheckPending`, `CheckStopping`: three reads, three steps |
| the rest of `idle()` | `EpollWait`, `ListExpired`, `ScheduleExpired`, `DrainPipe`, `TriggerEvent`, `DropPending`, `LeaveIdle` |
| the owner | `PostCb`, `PostFiber`, `PostEvent`, `Stop`, `StopTickle`, `StopRun`, `Join` |

Abstracted: a callback's body is whatever sequence of fiber actions it takes; time (any pending timer
may have expired); a descriptor and an event are one `Slot`; the timer's callback runs in a fiber
nobody can reach, so it is the one step `RunWake`. The pipe is one bit for its byte and one for
epoll's edge, and `tickle()` reads the idle count and writes in one step: a write that comes after the idle thread
has left only lets some later `epoll_wait` return early, which it may do anyhow. `MaxPosts`, `MaxWaits`, `MaxExtra` bound new work, suspensions, and extra claims; they
are guards of the actions that spend them.

### `Coroutines` and `SchedulerRefinement` (run `sched_live`)

`Coroutines` is what a program may rely on, in six actions without queue, locks, counters, tickles or
epoll: a coroutine runs on one thread at a time, leaves it by its own decision, continues once for each
time it is woken, an accepted callback is started once, and the pool closes with nothing ready, running or
accepted. `SchedulerRefinement` maps `Scheduler` to it. The point of the mapping is when a fiber
suspends: in the abstract when it arranges its wake-up, in the code only when its thread has switched out,
and in between another thread may already have been told to run it. `Fiber::m_mtx` is what makes the steps
in between invisible; without it (the mutant `UnlockedIgnored`) the refinement fails. It is stated for
fibers that arrange one wake-up per suspension (`MaxExtra = 0`); `Implements` in `SchedulerWakes` proves it
for any pool. That nobody waits any more when the pool
closes is not promised, because it is not so (`sched_stop_drops`).

### `Lifecycle` (runs `sched_workers`, `sched_stop_drops`)

What surrounds the worker loops: `start()` with the constructor of `Thread` and its `Semaphore`
(`CreateThread`, `SetId`, `Signal`, `RecordId`, `StartReturns`), the `stop()` that `~IOManager` calls
after the user's (`StopAgain`), and `~Scheduler` (`Destroy`). `Scheduler`'s own steps happen while `life`
is `up`: until `start()` returns it holds `Scheduler::m_mtx`, so that a new thread gets no further than its
first look at the queue. `life` becomes `aborted` where an assertion of the code fails.

### `EventContexts` (runs `events_*`)

The event side in detail: per descriptor `m_event`, the two `EventContext`s, the epoll interest set,
the kernel's conditions and the edges epoll still has to report, with hang-ups and with descriptors
that are closed and whose number is reused. All operations hold the context's mutex from their first
look at `m_event`, so each is one step; `EpollWait` and `HandleEvent` are separate because the lock is
not held between them. A registration is an identity of `Regs` used once, whose `status` records its
fate. epoll itself is modelled from its documented edge-triggered behaviour (external). Assumed of the
callers: nobody registers on a descriptor that another thread is closing (`close` cancels first and closes
afterwards; a registration in between stays counted, and unwatched).

### `Descriptors` (run `events_live`)

The other table about descriptors, `FdManager`'s, composed with `EventContexts`: the operations of the two
meet in the life of a number. `socket` and `accept` take it from the kernel (`SystemCall`), then look it up
under the reader's lock (`Look`) and enter it under the writer's (`Manage`, where `FdCtx::init` makes the file
non-blocking); `close` cancels the registrations (`CloseBegins`), deletes the entry (`Del`) and gives the
number back (`CloseEnds`), which is free for others from then on. In between the program switches the
blocking mode with `fcntl` and `ioctl` (`SetFl`, `SetFionbio`), which the code keeps once in the kernel
and once in `m_userNonblock`. `SetFl` and `SetFionbio` write both in one step; two threads
that switch the mode of one socket at the same moment are not modelled. `own`, `asked` and `unblocked` are history variables. Of `FdCtx` only what a socket
makes use of is there: `m_isClosed` is never set, and `m_sysNonblock` is true for every socket.

| code | model |
|---|---|
| `socket`, `accept` | `SystemCall`, `Look`, `Manage` |
| `fcntl` with `F_SETFL` and `F_GETFL`, `ioctl` with `FIONBIO` | `SetFl`, `GetFl`, `SetFionbio` |
| `close` | `CloseBegins`, `Del`, `CloseEnds` |
| `addEvent`, `delEvent`, `cancelEvent`, `cancelAll` on a number in use | `Registering` |

Assumed of the program: it uses a number from the return of the call that made it until it calls `close`, all
threads that close have the hook, and sockets are not made with `SOCK_NONBLOCK`. The table has room.

### `Timer` (runs `timer_*`)

The timer set with its actual notion of equality (`m_next` alone), `addTimer` with `m_tickled` and the
call it makes after unlocking (`owed`), `reset` in its two critical sections, and `listExpireCb` turn
by turn. The clock counts milliseconds; an expiry time also carries which reading of the clock it was
computed from, because the real clock has nanoseconds: two timers can be equal only if `listExpireCb`
re-armed them from one reading. `Hour` is the rollover threshold, scaled down. `timer_live` does not set
the clock back, since `listExpireCb` does not end with a recurring timer in the set when it is set back
past the threshold.

### `Hook` (runs `hook_*`)

What lies between a hooked call and the three parts below it: `do_io` (also behind `accept`) and
`connect_with_timeout`, line by line between the points where others interfere, and the callback of
the condition timer in its three steps. A descriptor with one event is a channel.

| code | model |
|---|---|
| `do_io`: the system call, and `connect_f` | `Call`, `TrySucceeds`, `TryFails`, `TryWouldBlock` |
| `addConditionTimer`, `addEvent` and `yield`, `addEvent` refusing | `Arm`, `AddEvent`, `AddRefused` |
| after the yield: `timer->cancel()`, the test of `tinfo`, `goto retry` or `getsockopt` | `Resume`, `CheckEnds`, `CheckRetries`, `Return` |
| the timer expires; `OnTimer` and the callback's test; `t->cancelled = ETIMEDOUT`; `cancelEvent` | `Expire`, `CbCheck`, `CbMark`, `CbCancel` |
| the event loop's report, handled later | `EpollWait`, `HandleEvent` |
| `setsockopt` of `SO_RCVTIMEO` or `SO_SNDTIMEO` | `SetTimeout` |

`timer_info` objects have identities (`Tinfos`) and owners, the call and each callback that holds a
shared pointer; a weak pointer whose object has no owner left is `NoTinfo`. In the same way a call's new timer is an identity
of `Timers` that is `Unused`, neither in the manager's set or a callback nor still pointed to by a call. `setsockopt` may give a
descriptor a timeout at any time (`SetTimeout`); a call takes it when it begins. Registrations are one fiber
per channel, which is what `EventContexts` shows them to be. Calls are not bounded in number. Left out:
what a call returns, the value of a timeout, and closing.

### `ContextTable` (run `table_shrinks`)

`m_fdContexts` as a sequence of context identities, with the two locks of the look-up as two steps.

## The runs

Twelve runs; each passing run's properties have a mutant of the code in `PROJECT.json` that breaks them.

| run | instance | what it shows |
|---|---|---|
| `sched_live` | 1 worker + caller, 2 fibers, 1 event, 2 posts, 2 waits, fair | counters exact, exactly one wake-up per suspended fiber; `stop()` returns; the queue drains; every step is one of `Coroutines` or a stutter |
| `sched_workers` | 2 workers that are started, 2 fibers, pinned tasks, 1 duplicate scheduling | one stack one thread, `resume` finds READY, no fiber forgotten, the destructor's assertion; `start()` knows its threads' ids |
| `sched_stop_drops` | as `sched_live`, 1 wait, not fair | **violated**: `stop()` can return with a fiber still waiting, and the `stop()` of `~IOManager` then aborts |
| `sched_pinned` | 1 worker + caller, tasks pinned to the worker, fair | **violated**: a task for a worker that has left is never taken |
| `events_live` | 1 socket, READ and WRITE, 3 registrations, 2 idle threads, flags, close and reuse, fair | registrations, count and epoll interest agree; persisting events are delivered; a reused number is managed as its own; the blocking modes agree |
| `events_assert` | 1 descriptor, 2 registrations, 1 idle thread | **violated**: `assert(m_event & event)` in `triggerEvent` |
| `timer_reset` | 1 one-shot, 1 recurring, 2 periods, 2 resetters, 2 calls of `refresh` or `reset`, clock set back once | at most one firing, live timers stay managed, a timer in `reset()` is nobody else's |
| `timer_live` | 1 one-shot, 1 recurring, 1 period, no reset, 2 pool threads, fair | nobody oversleeps, cancelled is gone, due timers fire, `listExpireCb` ends |
| `timer_lost` | 2 recurring timers of one period | **violated**: one is dropped for good |
| `hook_calls` | 2 fibers on 1 channel (pipe or socket), 2 timers in flight, any number of calls | one resume per yield, no timer left behind, no timeout without one |
| `hook_timeout` | 1 fiber, 1 channel, 1 timer, fair | **violated**: a timeout that comes before the registration is lost |
| `table_shrinks` | 2 threads, descriptors beyond a table of 2 | **violated**: growing the table drops contexts |

The six violated runs are disagreements between the code and its own comments or assertions; "findings" in `PROJECT.json` quotes the line and tells the story of each counterexample.

Bounds. The scheduler's races need two threads and one hand-over; two fibers give one that runs while
another is queued, two waits give a fiber that suspends twice or two that wait at once, one event slot
suffices because slots interact only through the pending count, and two posts fill the queue beyond
the first element (which decides whether `scheduleLock` tickles). For events, two kinds on one
descriptor are what a report can partly cover, and three registrations allow one to be reported,
withdrawn and replaced while the other waits; descriptors share nothing but the count, nor do the entries
of `FdManager` share anything, and one number is given out again as often as it is closed. For timers two
of them give order, ties and loss; two threads in `reset()` can get into each other's way, and are
interchangeable (`MCTimer` states the symmetry); two milliseconds cover before, at and after an expiry. For the hooked
calls, two fibers on one channel contend for the registration and disturb each other with late callbacks,
and with two timers a call that retries may have a second timer while the first one's callback is at work.
Two workers are constructed one after the other, as `start()` does, while the first one already runs. Deadlock
is checked in every run but `table_shrinks`, whose calls are bounded; `Stopped`, `Ended` and `Aborted` are
the ends that are meant.

Fairness. `SchedulerFairness` (weak, per thread, and for the owner once it is inside `stop()`): the
operating system runs runnable threads, `epoll_wait` has a finite timeout, and a fiber suspends or
ends eventually. `EnvironmentFairness` (strong): time passes, so among the times a thread looks, a
pending timer is expired at some; and a peer makes each awaited descriptor ready. `stop()` could not
return otherwise, by design. Nothing forces the user to post or to call `stop()`. In `EventContexts`
epoll's ready list is served in order, so a queued descriptor is reported to some thread (strong, as a
condition may come and go), and a thread works off its list (weak); `Descriptors` assumes the same of the same
actions, and nothing of the program. In `Timer` a thread that wants
the lock of `listExpireCb` gets it if it is free again and again (strong). `Hook` assumes that fibers and
callbacks run, time passes, and reports are delivered.

## The proofs

Eight modules hold theorems, for every value of the constants: any finite set of workers, with or without the
caller, any fibers, events, descriptors, timers, channels and bounds. Assumed are the `...Assumption`s of the models (the
sets are finite where they are counted, and the special values are none of the others). What a single theorem
assumes beyond that is in its statement and explained below. All safety and action properties of the passing runs
are proved.

**The worker loop** (`SchedulerProofs`, `SchedulerCounters`)

* `Inductive` proves `IInv`. Neither `FiberExclusive` nor `ResumeReady` is inductive: that `resume()`
  finds READY follows from "not TERM" (asked under the mutex) and "not RUNNING", and the second from
  the mutex being held whenever a fiber is RUNNING. So `IInv` adds `Locks` (between lock and unlock
  the thread owns the fiber's mutex and the fiber's state is the one its point in the code implies),
  `RunningIsLocked`, `Known` (whatever names a fiber, in the queue, a timer, an event, a local, names
  a constructed one) and `ReturnKnown` (a call of `tickle()` has a return address). `Moves(t, l)`
  summarises what a step does to control; the `...Control` lemmas say from where to where each action
  moves its thread, the frame lemmas what a step that leaves fibers alone preserves, and one lemma
  per group of actions puts them together. `TypeCorrect`, `Exclusive` and `ResumeSafe` follow.
* `Counters` proves `CountersExact`. A decrement is right only if its thread was counted, so `CInv`
  adds `TaskHeld`: at which points of `run()` a thread holds a task. Each action then changes at most
  one of the counted sets by one element, and the library's cardinality theorems do the arithmetic.
* `StoppedIsEmpty` proves `DestructorAssertion`. A thread that leaves has seen `m_stopping`, an empty queue and
  nobody active in one look, but other threads may still queue what epoll or a timer gives them. The argument is
  about the last one to look: `StopInv` says that once every thread of the pool has `idleDone`, the queue is empty
  and nobody holds a task; the exact counter of active threads is what makes the last look sufficient.
  Assumed: `Runners # {}`, the pool has a thread, which `assert(threads > 0 && ...)` in Scheduler's constructor
  (`scheduler.cpp:116`) makes of every pool.

**Wake-ups and the refinement** (`SchedulerWakes`)

* A claim on a fiber is at one of six places: queued, registered, expired (in a batch of `idle()`), taken, running,
  or with a timer (`Part(f, k)`). `StepAccounted` says what any step does to the claims on any fiber: it moves one,
  makes the first one of a new fiber, uses up the one of a fiber that ends, or adds one to a fiber that keeps
  running. `NoLost` (`NoLostFiber`) follows without further assumption. `OneWake` (`ExactlyOneWake`) assumes
  `MaxExtra = 0`, the discipline that a fiber arranges one wake-up per suspension: without it the
  property is false, since `scheduleLock` takes a fiber as often as it is offered.
* `Implements` proves `ImplementsCoroutines` under the same two assumptions (`MaxExtra = 0`, `Runners # {}`). Where a
  fiber's one claim is determines its abstract state: with a timer or an event it waits, in a batch, the queue or a
  thread's hands it is ready. `RInv` collects the invariants above. The `See...` lemmas name what has to be seen for a step
  to be one of `Coroutines`; one `...Seen` lemma per group of actions shows that it is. After `stop()` has returned no thread
  does anything that shows, again by `StopInv`.

**The life of an IOManager** (`LifecycleProofs`)

* `StartInductive` ties `thread`, `m_id`, `semaphore` and `making` together; a semaphore is up only between
  its thread's `signal` and its constructor's `wait`, and by then `m_id` is set. `StartTypeCorrect` and `IdsRecorded` follow.
* `LifeIsScheduler`: each step around the loops leaves `Scheduler`'s variables alone, so its theorems hold from
  constructor to destructor (`PoolCorrect`).
* `OnlyWaitsAbort` delimits the finding of `sched_stop_drops`: the destructor's assertion never fails, and the second `stop()`
  aborts only if the caller is a worker and a timer or an event was still waited for.

**Events and descriptors** (`EventContextsProofs`, `DescriptorsProofs`)

* `RegistrationsInductive` proves `EInv`. `PendingExact` counts registrations by their fate, while the code counts events
  of contexts; so `EInv` adds that bits and contexts match, that no registration is in two contexts, and that those in
  a context are those nobody has resolved. `ResolvedCount` then makes the number of events an operation takes out equal to
  the number of registrations it resolves. `QuietOnceClosing` (nothing is registered from `close` on) is what `WatchedIsRegistered`
  needs when the kernel forgets a descriptor. `RegisteredOnce`, `PendingCounted` and `WatchedExactly` are corollaries.
* `EntriesInductive` says of each point in a number's life whether it has an entry: it has one exactly
  from `Manage` to `Del`, so `Look` never finds one, which is what makes the unconditional overwrite in
  `FdManager::get` safe. `EntriesOwned`, `FlagsTold` and `NoneBlocks` are corollaries.
* `DescriptorsInductive` joins the two: a socket in use has an entry, so its `close` does cancel, which the other invariant
  needs. The three properties of the registrations and `DescriptorsTyped` follow for the composition, which is what `events_live` checks.

**Timers** (`TimerProofs`)

* `TimersInductive` proves `TimerInv`: who computed each `m_next` (the timer's own call, or a run of `listExpireCb` that
  re-armed it), and that a one-shot that fired and a timer that was cancelled are dead. `TimersTyped` and `FiresOnce` follow for any
  clock and any callers.
* `NoTimerLost` and `ResetExclusive` assume at most one recurring timer (`OneRecurring`). Only two that `listExpireCb`
  re-arms from one reading of the clock can be equal to the set, and then both statements are false: one timer is
  dropped (`timer_lost`), and if it is refreshed it is put in place of the other, even while a `reset()` still has it. Without
  such a pair `ResetExclusive` rests on `refresh()` and `reset()` giving up when `find` finds nothing: the mutant
  `RefreshUnchecked`, which does not, breaks it with one timer. That nobody but `reset()` has the timer between its two critical
  sections is what makes its unlocked writes to `m_next`, the key of the set, harmless to the set.
* `CancelledGone` assumes that nobody calls `reset` (`Resetters = {}`), whose second half puts a cancelled timer back.
* `NobodyOversleeps` proves `SleepersCover` for a clock that is not set back (`MaxBack = 0`) and a pool with a thread. `CoverInv` follows
  the wake-up: a new first timer has its tickle owed, or was suppressed by `m_tickled`, and then an earlier tickle is still to be
  seen or a thread is awake that has yet to compute its timeout. With the clock set back a timer may come to lie further off than
  its period, and sleepers that were right become late.

**Hooked calls** (`HookProofs`)

* `CallsInductive` proves `HInv`: each call has a `timer_info` of its own, a weak pointer leads to one that somebody owns or
  nowhere, only calls with a timeout have let a callback know theirs, and a timer that may still run its callback has a channel
  to aim at. `ResumedOnce`, `TimersReturned`, `NoStrayTimeout` and `CallsTyped` follow. The last one includes a counting argument: there are
  always more `Tinfos` than can be owned, so `make_shared` never runs out of them in the model.

TLC has checked `IInv`, `CInv`, `TimerInv`, `CoverInv` and the other strengthenings on small instances before they were proved.

Only model-checked: the liveness properties `StopReturns`, `QueueDrains`, `Delivered`, `DueTimersFire` and `ExpireEnds` (the provers have
no support for fairness and ENABLED), and the six violations. The modules declare no recursive operator; induction over data is
out of reach (the library's induction theorems take an operator as parameter, which the installed provers cannot instantiate)
and nothing here needs it.

## Not modelled, and the plan

To come: properties for the hazards that have none, where they fit the runs; `FdManager`'s table as it grows, beside `ContextTable`; and
the registrations of `EventContexts` as an implementation of the slots `Scheduler` waits on, which is so far an argument in words.

Not modelled:

* What a hooked call returns, and closing a channel on which another fiber waits, in `Hook`: with closing
  and results its instance of two fibers and two timers is beyond what TLC explores in minutes. The
  hazards name what can happen there: a late `cancelEvent` or a refused `addEvent` can make `connect` report
  a connection that is not there, and a retry after `close` may reach another file.
* The values of timeouts and of sleeps: times are abstract in `Scheduler` and `Hook`.
* The growth of `FdManager`'s table, which unlike `addEvent`'s looks at the size again under the writer's lock.
* Registering on a number that is being closed, and closing from a thread without the hook; the code does
  nothing about either.

Left out for good: the machine contexts and stacks, `Fiber::reset` (never called), the plain
`Scheduler::idle` (always overridden), log output, the example servers and the `test/` copies of the
library, the C++ memory model (`m_stopping` and, under the reader's lock, `m_tickled` are plain
variables that threads race on; the models take each access as atomic), and memory exhaustion.

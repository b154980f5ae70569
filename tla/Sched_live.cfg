\* One worker and the caller, with fair scheduling; every fiber arranges one
\* wake-up per suspension.
CONSTANTS
  Workers = {w1}
  Root = root
  UseCaller = TRUE
  Fibers = {f1, f2}
  Slots = {s1}
  Pins = {any}
  AnyThread = any
  NoFiber = nofiber
  Free = free
  Wakeup = wakeup
  MaxPosts = 2
  MaxWaits = 2
  MaxExtra = 0
SPECIFICATION FairSpec
INVARIANTS TypeOK CountersExact ExactlyOneWake
PROPERTIES StopReturns QueueDrains ImplementsCoroutines

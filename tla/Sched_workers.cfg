\* Two workers, tasks pinned to one of them; a fiber may be scheduled while it runs or already waits.
CONSTANTS
  Workers = {w1, w2}
  Root = root
  UseCaller = FALSE
  Fibers = {f1, f2}
  Slots = {s1}
  Pins = {any, w1}
  AnyThread = any
  NoFiber = nofiber
  Free = free
  Wakeup = wakeup
  MaxPosts = 2
  MaxWaits = 1
  MaxExtra = 1
  NoThread = nothread
  NoId = noid
SPECIFICATION LifeSpec
SYMMETRY FiberSymmetry
INVARIANTS FiberExclusive ResumeReady NoLostFiber DestructorAssertion IdsKnown LifecycleTypeOK

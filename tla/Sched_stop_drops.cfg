\* One worker and the caller: stop() races with work that is still waiting.
CONSTANTS
  Workers = {w1}
  Root = root
  UseCaller = TRUE
  Fibers = {f1, f2}
  Slots = {s1}
  Pins = {any}
  AnyThread = any
  NoFiber = nofiber
  Free = free
  Wakeup = wakeup
  MaxPosts = 2
  MaxWaits = 1
  MaxExtra = 0
  NoThread = nothread
  NoId = noid
SPECIFICATION LifeSpec
SYMMETRY FiberSymmetry
INVARIANTS StopAgainIsSafe

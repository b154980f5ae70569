\* A task pinned to a worker while stop() is under way.
CONSTANTS
  Workers = {w1}
  Root = root
  UseCaller = TRUE
  Fibers = {f1, f2}
  Slots = {s1}
  Pins = {any, w1}
  AnyThread = any
  NoFiber = nofiber
  Free = free
  Wakeup = wakeup
  MaxPosts = 2
  MaxWaits = 0
  MaxExtra = 0
SPECIFICATION FairSpec
PROPERTIES PinnedTaskRuns

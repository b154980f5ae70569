\* Two recurring timers of one period.
CONSTANTS
  Timers = {a, b}
  Recurring = {a, b}
  Periods = {1}
  Resetters = {}
  Idlers = {t1}
  Nobody = nobody
  NoTimer = notimer
  Batch = batch
  Hour = 1
  MaxTime = 2
  MaxBack = 0
  MaxMoves = 0
SPECIFICATION Spec
INVARIANTS LiveIsManaged

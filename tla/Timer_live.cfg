\* Two threads of the pool, with fair scheduling.
CONSTANTS
  Timers = {a, b}
  Recurring = {b}
  Periods = {1}
  Resetters = {}
  Idlers = {t1, t2}
  Nobody = nobody
  NoTimer = notimer
  Batch = batch
  Hour = 1
  MaxTime = 2
  MaxBack = 0
  MaxMoves = 1
SPECIFICATION FairSpec
INVARIANTS SleepersCover CancelledIsGone
PROPERTIES DueTimersFire ExpireEnds

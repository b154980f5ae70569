\* A one-shot and a recurring timer, two threads that call reset, and a clock
\* that may be set back.
CONSTANTS
  Timers = {a, b}
  Recurring = {b}
  Periods = {1, 2}
  Resetters = {u1, u2}
  Idlers = {t1}
  Nobody = nobody
  NoTimer = notimer
  Batch = batch
  Hour = 1
  MaxTime = 2
  MaxBack = 1
  MaxMoves = 2
SPECIFICATION Spec
SYMMETRY ResetterSymmetry
INVARIANTS TypeOK OneShotOnce LiveIsManaged ResetHoldsTimer

\* A registration is withdrawn between epoll_wait and the lock.
CONSTANTS
  Fds = {fd1}
  Events = {READ, WRITE}
  Hup = hup
  Idlers = {t1}
  Regs = {r1, r2}
  NoReg = noreg
  Closable = {}
SPECIFICATION Spec
INVARIANTS TriggerAssertion

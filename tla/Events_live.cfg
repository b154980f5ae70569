\* Two idle threads and one socket that is configured, used, closed and its
\* number reused, with fair scheduling.
CONSTANTS
  Fds = {fd1}
  Events = {READ, WRITE}
  Hup = hup
  Idlers = {t1, t2}
  Regs = {r1, r2, r3}
  NoReg = noreg
  Closable = {fd1}
  NoCtx = noctx
SPECIFICATION DescriptorsFairSpec
INVARIANTS DescriptorsTypeOK WaitingIsRegistered PendingExact WatchedIsRegistered
  ManagedAsItself GetFlTellsAsked SocketsDoNotBlock
PROPERTIES Delivered

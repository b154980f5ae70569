\* Two threads register beyond the end of the table at the same time.
CONSTANTS
  Threads = {t1, t2}
  Fds = {1, 2, 4}
  InitSize = 2
  NoFd = nofd
  NoContext = noctx
  MaxCalls = 2
SPECIFICATION Spec
PROPERTIES ValuesKept
CHECK_DEADLOCK FALSE

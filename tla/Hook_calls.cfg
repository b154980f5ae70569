\* Two fibers call on one descriptor, a pipe or a connecting socket.
CONSTANTS
  Fibers = {f1, f2}
  Channels = {c}
  Timers = {m1, m2}
  Tinfos = {i1, i2, i3, i4}
  NoFiber = nofiber
  NoChannel = nochannel
  NoTimer = notimer
  NoTinfo = notinfo
SPECIFICATION Spec
INVARIANTS TypeOK WaitIsClaimed TimerIsHeld UntimedNotCancelled

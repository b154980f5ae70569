\* One fiber waits for a channel that does not become ready.
CONSTANTS
  Fibers = {f1}
  Channels = {c}
  Timers = {m1}
  Tinfos = {i1, i2}
  NoFiber = nofiber
  NoChannel = nochannel
  NoTimer = notimer
  NoTinfo = notinfo
SPECIFICATION FairSpec
PROPERTIES TimedWaitEnds

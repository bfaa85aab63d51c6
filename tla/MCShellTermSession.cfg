CONSTANTS
  Sessions = {s1, s2, s3}
  Fds = {fd1, fd2}
  Pids = {p1, p2}
  NoFd = NoFd
  Broadcast = Broadcast
  Busy = {s1}
  Frail = {s2}
  Any = Any
  OwnGroup = OwnGroup
SPECIFICATION Spec
ACTION_CONSTRAINT Bounded
INVARIANTS TypeOK DescriptorsOwned StrayAtMostOnce OthersLiveOn
PROPERTIES ExitIsNoticed
CHECK_DEADLOCK FALSE

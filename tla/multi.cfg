SPECIFICATION FairSpec
CONSTANTS
  Clients = {c1, c2}
  Objs = {o1, o2, o3}
  Fds = {f1, f2}
  NoFd = NoFd
  Null = Null
  ReactorCount = 2
  Workers = {w1}
  MaxProcess = 1
  PoolSize = 0
  Modes <- ShippedAndPlain
  InPaths <- ReadmeIn
  OutPaths <- ReadmeOut
  HangUps = {"rdhup", "other"}
INVARIANTS TableSound ExclusiveService NeverForgotten
PROPERTIES DrainClosesRequester Attended Reclaimed

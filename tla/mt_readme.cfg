SPECIFICATION FairSpec
CONSTANTS
  Clients = {c1, c2}
  Objs = {o1, o2}
  Workers = {w1, w2}
  Fds = {f1, f2}
  NoFd = NoFd
  Null = Null
  MaxConnect = 2
  MaxEvents = 3
  MaxProcess = 1
  PoolSize = 1
  MultiThread = TRUE
  ObjectPool = TRUE
  OneShot = TRUE
  ET = FALSE
  InPaths <- ReadmeIn
  OutPaths <- ReadmeOut
  AcceptMayFail = FALSE
  HangUps = {"rdhup", "err", "other"}
INVARIANTS ExclusiveService NeverForgotten
PROPERTIES DrainClosesRequester Attended Reclaimed

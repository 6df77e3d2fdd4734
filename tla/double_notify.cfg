SPECIFICATION Spec
CONSTANTS
  Clients = {c1, c2}
  Objs = {o1}
  Workers = {w1}
  Fds = {f1}
  NoFd = NoFd
  Null = Null
  MaxConnect = 1
  MaxEvents = 3
  MaxProcess = 2
  PoolSize = 1
  MultiThread = TRUE
  ObjectPool = TRUE
  OneShot = TRUE
  ET = FALSE
  InPaths <- HttpIn
  OutPaths <- HttpOut
  AcceptMayFail = FALSE
  HangUps = {"rdhup"}
SYMMETRY Symmetry
PROPERTIES DrainClosesRequester

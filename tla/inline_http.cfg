SPECIFICATION Spec
CONSTANTS
  Clients = {c1, c2, c3}
  Objs = {o1, o2}
  Workers = {}
  Fds = {f1, f2}
  NoFd = NoFd
  Null = Null
  MaxConnect = 1
  MaxEvents = 3
  MaxProcess = 1
  PoolSize = 0
  MultiThread = FALSE
  ObjectPool = TRUE
  OneShot = TRUE
  ET = FALSE
  InPaths <- HttpIn
  OutPaths <- HttpOut
  AcceptMayFail = FALSE
  HangUps = {"rdhup", "err", "other"}
PROPERTIES Implements

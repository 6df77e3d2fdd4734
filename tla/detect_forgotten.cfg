SPECIFICATION Spec
CONSTANTS
  Clients = {c1, c2, c3}
  Objs = {o1, o2}
  Workers = {w1, w2}
  Fds = {f1, f2}
  NoFd = NoFd
  Null = Null
  MaxConnect = 2
  MaxEvents = 3
  MaxProcess = 1
  PoolSize = 1
  MultiThread = TRUE
  ObjectPool = TRUE
  OneShot = TRUE
  ET = FALSE
  InPaths <- DetectIn
  OutPaths <- DetectOut
  AcceptMayFail = FALSE
  HangUps = {"rdhup", "err", "other"}
SYMMETRY Symmetry
INVARIANTS NeverForgotten

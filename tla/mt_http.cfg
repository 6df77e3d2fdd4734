SPECIFICATION Spec
CONSTANTS
  Clients = {c1, c2}
  Objs = {o1, o2}
  Workers = {w1}
  Fds = {f1, f2}
  NoFd = NoFd
  Null = Null
  MaxConnect = 2
  MaxEvents = 3
  MaxProcess = 2
  PoolSize = 1
  MultiThread = TRUE
  ObjectPool = TRUE
  OneShot = TRUE
  ET = FALSE
  InPaths <- HttpIn
  OutPaths <- HttpOut
  AcceptMayFail = TRUE
  HangUps = {"rdhup"}
SYMMETRY Symmetry
INVARIANTS TypeOK TableSound EventsFresh CountExact

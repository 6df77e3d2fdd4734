\* The calls of the handlers over sockets that fail, with objects used twice.
SPECIFICATION FairSpec
CONSTANTS
  Base = 4
  BufSize = 2
  Handlers <- BothHandlers
  Streams <- PeerStreams
  MaxFails = 2
  MaxConns = 2

PROPERTIES SendWhole
CHECK_DEADLOCK FALSE

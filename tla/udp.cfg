CONSTANTS
  p1 = p1
  p2 = p2
  s1 = s1
  NoSock = NoSock
  Procs <- TwoProcs
  Socks <- OneSock
  SockOf <- SharedSocket
  MAX_PORT_BINDINGS = 2
  Wire <- Frames
  MaxCalls = 2
SPECIFICATION FairSpec
INVARIANTS TakenInOrder FramesAccounted DeliveredWhole
PROPERTY DataIsReceived
CHECK_DEADLOCK FALSE

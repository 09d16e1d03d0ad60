SPECIFICATION FairSpec
CONSTANTS
  c1 = c1
  c2 = c2
  c3 = c3
  h0 = h0
  h1 = h1
  h2 = h2
  h3 = h3
  None = None
  AuthPeer = AuthPeer
  Conns <- TwoConns
  Handles <- ThreeHandles
  RoomNames <- OneRoom
  Names <- OneName
  FD_SETSIZE = 2
  Commands <- LoginJoin
  MaxSends <- One
  Endings <- AnyEnding
  MaxBatch = 1
  MayCut = FALSE
  SendMayBlock = TRUE
  AuthFaults = FALSE
  StickyLastError = FALSE
  Operator = FALSE
PROPERTIES
  
  ServedWhenFirst
  Reaped
  Accepted
  AnswersAreRead
CHECK_DEADLOCK FALSE

SPECIFICATION Spec
CONSTANTS
  c1 = c1
  c2 = c2
  c3 = c3
  h0 = h0
  h1 = h1
  h2 = h2
  h3 = h3
  None = None
  AuthPeer = AuthPeer
  Conns <- TwoConns
  Handles <- ThreeHandles
  RoomNames <- OneRoom
  Names <- OneName
  FD_SETSIZE = 64
  Commands <- ListenAndTalk
  MaxSends <- OneAndThree
  Endings <- NoEnding
  MaxBatch = 2
  MayCut = TRUE
  SendMayBlock = FALSE
  AuthFaults = FALSE
  StickyLastError = FALSE
  Operator = FALSE
INVARIANTS
  OrderedDelivery
  
CHECK_DEADLOCK FALSE

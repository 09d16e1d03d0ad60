SPECIFICATION Spec
CONSTANTS
  c1 = c1
  c2 = c2
  c3 = c3
  h0 = h0
  h1 = h1
  h2 = h2
  h3 = h3
  None = None
  AuthPeer = AuthPeer
  Conns <- TwoConns
  Handles <- ThreeHandles
  RoomNames <- OneRoom
  Names <- TwoNames
  FD_SETSIZE = 64
  Commands <- LoginOnly
  MaxSends <- One
  Endings <- AnyEnding
  MaxBatch = 2
  MayCut = FALSE
  SendMayBlock = FALSE
  AuthFaults = TRUE
  StickyLastError = TRUE
  Operator = TRUE
SYMMETRY PeerSymmetry
INVARIANTS
  TypeOK
  SocketsOwned
  NoLeakedSockets
  
  RepliesAreForAskedNames
  
CHECK_DEADLOCK FALSE

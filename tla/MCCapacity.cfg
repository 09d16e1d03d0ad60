SPECIFICATION Spec
CONSTANTS
  c1 = c1
  c2 = c2
  c3 = c3
  h0 = h0
  h1 = h1
  h2 = h2
  h3 = h3
  None = None
  AuthPeer = AuthPeer
  Conns <- ThreeConns
  Handles <- FourHandles
  RoomNames <- OneRoom
  Names <- OneName
  FD_SETSIZE = 2
  Commands <- JoinOnly
  MaxSends <- One
  Endings <- AnyEnding
  MaxBatch = 1
  MayCut = FALSE
  SendMayBlock = FALSE
  AuthFaults = FALSE
  StickyLastError = FALSE
  Operator = TRUE
SYMMETRY PeerSymmetry
PROPERTIES
  OnlyTheGoneAreDropped
CHECK_DEADLOCK FALSE

SPECIFICATION FairSpec
CONSTANTS
  ByteBase = 128
  IntSize = 4
  SendSize = 12
  Bytes <- Codes
  Logins = {"anna secret 1", "bo pw 1"}
  Lines <- SomeLines
  RoomMessages <- Chatter
  ErrorText <- No
  BufLen = 32
  KeptLines = 2
  MaxLogins = 2
  MaxEntered = 1
INVARIANTS
  TypeOK BufferHolds WireIsProtocol RestIsProtocol  OneAnswer ShownWasSent
PROPERTIES
  EverythingIsRead
CHECK_DEADLOCK FALSE

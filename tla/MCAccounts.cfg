SPECIFICATION FairSpec
CONSTANTS
  s1 = s1
  s2 = s2
  ann = ann
  bob = bob
  x = x
  y = y
  NoSocket = NoSocket
  Conns <- TwoConns
  Emails <- TwoEmails
  Passwords <- TwoPasswords
  DbFaults = TRUE
  Seconds = {0, 1}
  MaxSends <- TwoAndNone
  Endings <- FinAndAny
  MaxBatch = 2
  MayCut = TRUE
  SendMayBlock = FALSE
  Operator = TRUE
  Restarts = TRUE
INVARIANTS
  TypeOK
  OwnRows
  MissingRowsWereSwept
  OrphansWereBroken
  AnswersGoForward
  
  EndHasCause
CHECK_DEADLOCK FALSE
PROPERTIES
  ImplementsAccountStore
  RequestsAreRead

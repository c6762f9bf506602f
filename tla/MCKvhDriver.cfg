CONSTANTS
  T = {0, 1}
  Zero = 0
  N = 8
  DATAGRAM_SIZE = 4
  MaxBytes = 11
  HEADER <- MCHeader
  ChecksumOk <- MCChecksumOk
  StatusOk <- MCStatusOk
SPECIFICATION FairSpec
INVARIANTS
  TypeOK
  NeverOverflows
  BufferIsTailOfLine
  NoDatagramMissed
  AcceptedAreApart
  PublishedIsGenuine
PROPERTIES
  CallReturns
CHECK_DEADLOCK FALSE

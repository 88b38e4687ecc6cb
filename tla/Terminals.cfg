SPECIFICATION Spec
CONSTANTS
  Shell = {t1, t2}
  None = None
  LastTag = 1
  MaxBuffered = 2
  MaxTotal = 3
  Chunk = {1, 3}
  MaxAsks = 2
  MaxQueue = 1
  MaxConn = 2
INVARIANTS
  TypeOK
  RingsAreWindows
  SubscriberConservesBytes
  TagsMeanOneShell
  KeystrokesReachTheirShell
SYMMETRY Symmetry
CHECK_DEADLOCK FALSE

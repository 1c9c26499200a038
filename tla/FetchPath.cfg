CONSTANTS
  INST_READ_CHANNEL = 3
  FQ_BUF_IN_NUM = 2
  FQ_BUF_DEPTH = 3
  NONE = NONE
  BUFFER_DEPTH = 6
  OOO_DEPTH = 2
  S_CHANNEL = 3
  Csr <- MCCsr
  INST_NUM = 3
  LINES = {0, 4}
SPECIFICATION PathFairSpec
INVARIANTS
  PathTypeOK
  RoomKept
  BanksBalanced
PROPERTIES
  ImplementsStream
  NeverStuck

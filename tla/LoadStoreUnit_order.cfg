SPECIFICATION Spec
CONSTANTS
  LSU_DEPTH = 3
  S_CHANNEL = 2
  STU_DEPTH = 4
  LDU_DEPTH = 4
  COMMIT_REL_CHANNEL = 2
  REFILL = 3
  BRANCH_NUM = 2
  NONE = NONE
  Bytes <- OneByte
  Workloads <- ManyWords
INVARIANT LsuInOrder

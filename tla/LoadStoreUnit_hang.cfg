SPECIFICATION FairSpec
CONSTANTS
  LSU_DEPTH = 2
  S_CHANNEL = 1
  STU_DEPTH = 3
  LDU_DEPTH = 3
  COMMIT_REL_CHANNEL = 1
  REFILL = 1
  BRANCH_NUM = 2
  NONE = NONE
  Bytes <- TwoBytes
  Workloads <- FewLoads
PROPERTY LoadsLeave

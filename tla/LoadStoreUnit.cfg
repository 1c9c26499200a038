SPECIFICATION Spec
CONSTANTS
  LSU_DEPTH = 3
  S_CHANNEL = 2
  STU_DEPTH = 4
  LDU_DEPTH = 3
  COMMIT_REL_CHANNEL = 2
  REFILL = 2
  BRANCH_NUM = 2
  NONE = NONE
  Bytes <- TwoBytes
  Workloads <- MixedAndMany
INVARIANTS LsuTypeOK LoadsReadProgramOrder OneReportEach LsuInOrder CreditExact StoresReachMemory RegularData

CONSTANTS
  ARCH_ENTRY_NUM = 3
  PHY_REG_NUM = 4
  INST_DECODE_NUM = 2
  COMMIT_REL_CHANNEL = 2
  MODE = 0
  Insts <- IntInsts
  NoReg = NoReg
  INST_READ_CHANNEL = 2
  IN_FLIGHT = 3
SPECIFICATION IssueFairSpec
PROPERTIES
  OldestIssues

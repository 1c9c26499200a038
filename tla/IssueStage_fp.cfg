CONSTANTS
  ARCH_ENTRY_NUM = 2
  PHY_REG_NUM = 5
  INST_DECODE_NUM = 2
  COMMIT_REL_CHANNEL = 2
  MODE = 1
  Insts <- FpInsts
  NoReg = NoReg
  INST_READ_CHANNEL = 2
  IN_FLIGHT = 4
SPECIFICATION IssueSpec
INVARIANTS
  ReadsProgramOrder

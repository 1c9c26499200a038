CONSTANTS
  ARCH_ENTRY_NUM = 3
  PHY_REG_NUM = 5
  INST_DECODE_NUM = 2
  COMMIT_REL_CHANNEL = 2
  MODE = 0
  Insts <- MixInsts
  NoReg = NoReg
  INST_READ_CHANNEL = 2
  IN_FLIGHT = 3
SPECIFICATION IssueSpec
INVARIANTS
  TypeOK
  ZeroStays
  FreeListExact
  OneOwner
  BackupFlagExact
  PreAllocateFree
  RenameYoungest
  IssueTypeOK
  ReadsProgramOrder
  PendingInProgramOrder
PROPERTIES
  KeepsRegfileContract

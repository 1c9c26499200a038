CONSTANTS
  COMMIT_QUEUE_DEPTH = 4
  INST_READ_CHANNEL = 2
  COMMIT_REL_CHANNEL = 2
  FP_STAGES = 2
  Pc = {0, 1, 2, 3, 4, 5, 6, 7}
  ResetPcs = {0}
  Succ <- MCSucc
  Predict <- MCPredict
  FpPc = {1}
  NONE = NONE
SPECIFICATION Spec
INVARIANTS
  RetireInOrder

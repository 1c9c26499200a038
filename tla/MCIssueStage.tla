---------------------------- MODULE MCIssueStage ----------------------------
(* Instruction mixes for the issue stage.                                  *)
EXTENDS IssueStage, TLC

Op(rd, rs, unit) == [rd |-> rd, rs |-> rs, unit |-> unit]

(* Integer: a load, an ALU operation on its result that overwrites its     *)
(* own operand, a constant into the load's destination, a store.           *)
IntInsts == { Op(1, (1 :> 2), "lsu"),
              Op(2, (1 :> 1) @@ (2 :> 2), "alu"),
              Op(1, <<>>, "alu"),
              Op(NoReg, (1 :> 1) @@ (2 :> 2), "lsu") }

(* These with a multiplication, a CSR read and a write of x0.              *)
MixInsts == IntInsts \cup { Op(1, (1 :> 1), "mext"), Op(1, <<>>, "csr"), Op(0, (1 :> 1), "alu") }

(* Floating point: a load and an addition of two registers.                *)
FpInsts == { Op(0, <<>>, "lsu"), Op(1, (1 :> 1) @@ (2 :> 0), "float") }
=============================================================================

------------------------------- MODULE Decoder -------------------------------
(***************************************************************************)
(* toy_decoder: the decode_pkg of an instruction word, and what the        *)
(* execution units it is routed to take the word in that packet for.  All  *)
(* of it is combinational.                                                 *)
(***************************************************************************)
EXTENDS InstWords, Sequences

OPC == [LOAD |-> 0, LOAD_FP |-> 1, MISC_MEM |-> 3, OP_IMM |-> 4, AUIPC |-> 5, STORE |-> 8,
        STORE_FP |-> 9, OP |-> 12, LUI |-> 13, FMADD |-> 16, FMSUB |-> 17, FNMSUB |-> 18,
        FNMADD |-> 19, OP_FP |-> 20, BRANCH |-> 24, JALR |-> 25, JAL |-> 27, SYSTEM |-> 28]
OPC_FUSED == {OPC.FMADD, OPC.FMSUB, OPC.FNMSUB, OPC.FNMADD}
OPC_CUST == {2, 10, 22, 30}

FLOAT == [ADD |-> 0, SUB |-> 1, MUL |-> 2, DIV |-> 3, SGNJ |-> 4, MINMAX |-> 5, SQRT |-> 11,
          CMP |-> 20, CVT_WS |-> 24, CVT_SW |-> 26, MVXW_CLASS |-> 28, MVWX |-> 30]
ToInt == {FLOAT.MVXW_CLASS, FLOAT.CVT_WS, FLOAT.CMP}
FromInt == {FLOAT.MVWX, FLOAT.CVT_SW}

Quadrant(w) == Bits(w, 1, 0)
c_ext(w) == Quadrant(w) # 3
inst_pld_pure_M(w) == w  \* the half that follows a compressed word is left in
inst_pld_pure(w) == IF c_ext(w) THEN Word(0, w.lo) ELSE w
C_F3(w) == Bits(w, 15, 13)
C_RS2(w) == Bits(w, 6, 2)

-----------------------------------------------------------------------------
(* dec_inst_pld: a compressed word has its opcode, funct3 and the bits its *)
(* unit looks at rewritten in place.  Rewrite lists opcode, funct3, upper  *)
(* half; a word the decoder does not rewrite keeps its raw halves.         *)
OwnF3(w) == Bits(w, 14, 12)
Bit30 == 2 ^ 14
Bit21 == 2 ^ 5
RewriteQ1Arith(w) ==
  CASE Bits(w, 11, 10) = 0 -> <<OPC.OP_IMM, 5, 0>>
    [] Bits(w, 11, 10) = 1 -> <<OPC.OP_IMM, 5, Bit30>>
    [] Bits(w, 11, 10) = 2 -> <<OPC.OP_IMM, 7, 0>>
    [] OTHER -> <<<<OPC.OP, 0, Bit30>>, <<OPC.OP, 4, 0>>, <<OPC.OP, 6, 0>>,
                  <<OPC.OP, 7, 0>>>>[Bits(w, 6, 5) + 1]
RewriteQ2Jump(w) ==
  IF C_RS2(w) # 0 THEN <<OPC.OP, 0, 0>>
  ELSE IF Bits(w, 12, 12) = 1 /\ Bits(w, 11, 7) = 0 THEN <<OPC.SYSTEM, OwnF3(w), Bit21>>
  ELSE <<OPC.JALR, OwnF3(w), 0>>
Raw(w) == <<Bits(w, 6, 2), OwnF3(w), w.hi>>
Rewrite(w) ==
  CASE Quadrant(w) = 0 ->
         <<<<OPC.OP_IMM, 0, 0>>, Raw(w), <<OPC.LOAD, 2, 0>>, Raw(w), Raw(w), Raw(w),
           <<OPC.STORE, 2, 0>>, Raw(w)>>[C_F3(w) + 1]
    [] Quadrant(w) = 1 ->
         <<<<OPC.OP_IMM, 0, 0>>, <<OPC.JAL, OwnF3(w), 0>>, <<OPC.LUI, OwnF3(w), 0>>,
           IF Bits(w, 11, 7) = 2 THEN <<OPC.OP_IMM, 0, 0>> ELSE <<OPC.LUI, OwnF3(w), 0>>,
           RewriteQ1Arith(w), <<OPC.JAL, OwnF3(w), 0>>, <<OPC.BRANCH, 0, 0>>,
           <<OPC.BRANCH, 1, 0>>>>[C_F3(w) + 1]
    [] Quadrant(w) = 2 ->
         <<<<OPC.OP_IMM, 1, 0>>, Raw(w), <<OPC.LOAD, 2, 0>>, Raw(w), RewriteQ2Jump(w), Raw(w),
           <<OPC.STORE, 2, 0>>, Raw(w)>>[C_F3(w) + 1]
    [] OTHER -> Raw(w)
dec_inst_pld(w) ==
  LET r == Rewrite(w)
  IN  Word(r[3], Bits(w, 15, 15) * 2 ^ 15 + r[2] * 2 ^ 12 + Bits(w, 11, 7) * 2 ^ 7
                 + r[1] * 4 + Quadrant(w))

-----------------------------------------------------------------------------
(* Register numbers.                                                       *)
dec_inst_rd(w) ==
  CASE Quadrant(w) = 0 -> 8 + Bits(w, 4, 2)
    [] Quadrant(w) = 1 -> CASE C_F3(w) \in {0, 2, 3} -> Bits(w, 11, 7)
                            [] C_F3(w) = 1 -> 1
                            [] C_F3(w) = 5 -> 0
                            [] OTHER -> 8 + Bits(w, 9, 7)
    [] Quadrant(w) = 2 /\ C_F3(w) = 4 /\ C_RS2(w) = 0 -> Bits(w, 12, 12)
    [] OTHER -> Bits(w, 11, 7)
dec_inst_rs1(w) ==
  CASE Quadrant(w) = 0 -> IF C_F3(w) = 0 THEN 2 ELSE 8 + Bits(w, 9, 7)
    [] Quadrant(w) = 1 -> CASE C_F3(w) \in {0, 2, 3} -> Bits(w, 11, 7)
                            [] C_F3(w) = 1 -> 2
                            [] C_F3(w) = 5 -> 0
                            [] OTHER -> 8 + Bits(w, 9, 7)
    [] Quadrant(w) = 2 -> CASE C_F3(w) \in {2, 6} -> 2
                            [] C_F3(w) = 4 /\ Bits(w, 12, 12) = 0 /\ C_RS2(w) # 0 -> 0
                            [] OTHER -> Bits(w, 11, 7)
    [] OTHER -> Bits(w, 19, 15)
dec_inst_rs2(w) ==
  CASE Quadrant(w) = 0 -> 8 + Bits(w, 4, 2)
    [] Quadrant(w) = 1 -> IF C_F3(w) = 4 THEN 8 + Bits(w, 4, 2) ELSE 0
    [] Quadrant(w) = 2 -> C_RS2(w)
    [] OTHER -> Bits(w, 24, 20)

(* Which register file each is in, and whether it is used.                 *)
funct3(w) == Bits(w, 14, 12)
funct5(w) == Bits(w, 31, 27)
opcode(w) == Bits(w, 6, 2)
dec_inst_fp_rd_en(w) ==
  ~c_ext(w) /\ \/ opcode(w) \in {OPC.LOAD_FP} \union OPC_FUSED
               \/ opcode(w) = OPC.OP_FP /\ funct5(w) \notin ToInt
dec_inst_rd_en(w) ==
  CASE Quadrant(w) = 0 -> Bits(w, 15, 15) = 0
    [] Quadrant(w) = 1 -> C_F3(w) \notin {6, 7}
    [] Quadrant(w) = 2 -> C_F3(w) \notin {5, 6, 7}
    [] OTHER -> /\ opcode(w) \notin {OPC.BRANCH, OPC.STORE, OPC.LOAD_FP, OPC.STORE_FP}
                                    \union OPC_FUSED
                /\ opcode(w) = OPC.SYSTEM => funct3(w) # 0
                /\ opcode(w) = OPC.OP_FP => funct5(w) \in ToInt
use_rs1_fp_en(w) ==
  ~c_ext(w) /\ (opcode(w) \in OPC_FUSED \/ (opcode(w) = OPC.OP_FP /\ funct5(w) \notin FromInt))
use_rs2_fp_en(w) ==
  ~c_ext(w) /\ \/ opcode(w) \in {OPC.STORE_FP} \union OPC_FUSED
               \/ /\ opcode(w) = OPC.OP_FP
                  /\ funct5(w) \in {FLOAT.SGNJ, FLOAT.ADD, FLOAT.SUB, FLOAT.MUL, FLOAT.DIV,
                                    FLOAT.MINMAX, FLOAT.CMP}
use_rs3_fp_en(w) == ~c_ext(w) /\ opcode(w) \in OPC_FUSED
use_rs2_en(w) ==
  CASE Quadrant(w) \in {0, 2} -> Bits(w, 15, 15) = 1
    [] Quadrant(w) = 1 -> C_F3(w) = 4 /\ Bits(w, 11, 10) = 3
    [] OTHER -> opcode(w) \notin {OPC.LUI, OPC.AUIPC, OPC.JAL, OPC.JALR, OPC.LOAD, OPC.OP_IMM,
                                  OPC.SYSTEM, OPC.OP_FP, OPC.LOAD_FP, OPC.STORE_FP}
                                 \union OPC_FUSED
use_rs1_en(w) ==
  CASE Quadrant(w) \in {0, 2} -> TRUE
    [] Quadrant(w) = 1 -> C_F3(w) \notin {1, 5}
    [] OTHER -> /\ opcode(w) \notin {OPC.LUI, OPC.AUIPC, OPC.JAL} \union OPC_FUSED
                /\ opcode(w) = OPC.OP_FP => funct5(w) \in FromInt

-----------------------------------------------------------------------------
(* goto: the unit the instruction is issued to.                            *)
goto(w) ==
  LET opc == opcode(dec_inst_pld(w)) IN
  CASE opc = OPC.OP -> IF Bits(inst_pld_pure(w), 25, 25) = 1 THEN "mext" ELSE "alu"
    [] opc \in {OPC.LUI, OPC.AUIPC, OPC.JAL, OPC.JALR, OPC.OP_IMM, OPC.BRANCH, OPC.MISC_MEM} -> "alu"
    [] opc \in {OPC.LOAD, OPC.LOAD_FP} -> "ldu"
    [] opc \in {OPC.STORE, OPC.STORE_FP} -> "stu"
    [] opc = OPC.SYSTEM -> "csr"
    [] opc \in {OPC.OP_FP} \union OPC_FUSED -> "float"
    [] opc \in OPC_CUST -> "custom"
    [] OTHER -> "err"

(* dec_inst_imm.  The decoder extends the offsets of C.LW, C.SW, C.LWSP    *)
(* and C.SWSP by a sign, and takes that of C.ADDI4SPN in the order of its  *)
(* bits.                                                                   *)
i_type_imm_32(p) == Sext(p, 31, 20, 0)
ImmJump_M(p) ==
  Sext(p, 12, 12, 11) + At(p, 8, 8, 10) + At(p, 10, 9, 8) + At(p, 7, 6, 6)
  + At(p, 2, 2, 5) + At(p, 11, 11, 4) + At(p, 5, 3, 1)
ImmJump(p) ==
  Sext(p, 12, 12, 11) + At(p, 8, 8, 10) + At(p, 10, 9, 8) + At(p, 6, 6, 7) + At(p, 7, 7, 6)
  + At(p, 2, 2, 5) + At(p, 11, 11, 4) + At(p, 5, 3, 1)
ImmSix(p) == Sext(p, 12, 12, 5) + At(p, 6, 2, 0)
ImmQ1(p) ==
  CASE C_F3(p) \in {0, 2, 4} -> ImmSix(p)
    [] C_F3(p) \in {1, 5} -> ImmJump(p)
    [] C_F3(p) = 3 /\ Bits(p, 11, 7) = 2 ->
         Sext(p, 12, 12, 9) + At(p, 4, 3, 7) + At(p, 5, 5, 6) + At(p, 2, 2, 5) + At(p, 6, 6, 4)
    [] C_F3(p) = 3 -> Sext(p, 12, 12, 17) + At(p, 6, 2, 12)
    [] OTHER -> Sext(p, 12, 12, 8) + At(p, 6, 5, 6) + At(p, 2, 2, 5) + At(p, 11, 10, 3)
                + At(p, 4, 3, 1)
ImmQ2(p) ==
  CASE C_F3(p) = 0 -> ImmSix(p) % 2 ^ 30
    [] C_F3(p) = 2 -> Sext(p, 3, 2, 6) + At(p, 12, 12, 5) + At(p, 6, 4, 2)
    [] C_F3(p) = 6 -> Sext(p, 8, 7, 6) + At(p, 12, 9, 2)
    [] OTHER -> 0
dec_inst_imm(p) ==
  CASE Quadrant(p) = 0 ->
         IF C_F3(p) = 0 THEN At(p, 12, 5, 2)
         ELSE Sext(p, 5, 5, 6) + At(p, 12, 10, 3) + At(p, 6, 6, 2)
    [] Quadrant(p) = 1 -> ImmQ1(p)
    [] Quadrant(p) = 2 -> ImmQ2(p)
    [] opcode(p) \in {OPC.LUI, OPC.AUIPC} -> Sext(p, 31, 12, 12)
    [] opcode(p) = OPC.JAL ->
         Sext(p, 31, 31, 20) + At(p, 19, 12, 12) + At(p, 20, 20, 11) + At(p, 30, 21, 1)
    [] opcode(p) = OPC.BRANCH ->
         Sext(p, 31, 31, 12) + At(p, 7, 7, 11) + At(p, 30, 25, 5) + At(p, 11, 8, 1)
    [] opcode(p) \in {OPC.STORE, OPC.STORE_FP} -> Sext(p, 31, 25, 5) + At(p, 11, 7, 0)
    [] opcode(p) = 11 -> 0
    [] OTHER -> i_type_imm_32(p)

(* decode_pkg; a register that is not read is in no file.                  *)
Source(fp, en, k) == IF fp THEN <<"f", k>> ELSE IF en \/ k = 0 THEN <<"x", k>> ELSE <<"-", 0>>
decode_pld(w) ==
  [inst_pld |-> dec_inst_pld(w), goto |-> goto(w), imm |-> dec_inst_imm(w),
   rd |-> dec_inst_rd(w), rd_en |-> dec_inst_rd_en(w), fp_rd_en |-> dec_inst_fp_rd_en(w),
   rs1 |-> Source(use_rs1_fp_en(w), use_rs1_en(w), dec_inst_rs1(w)),
   rs2 |-> Source(use_rs2_fp_en(w), use_rs2_en(w), dec_inst_rs2(w)),
   rs3 |-> Source(use_rs3_fp_en(w), FALSE, Bits(w, 31, 27))]

-----------------------------------------------------------------------------
(* What each unit does with the packet d, named as the disassembler names  *)
(* it, and "none" where it has no effect.                                  *)
Select(names, k) == IF k < Len(names) THEN names[k + 1] ELSE "none"

alu_op(d) ==
  LET i == d.inst_pld
      f3 == funct3(i)
      reg == Bits(i, 5, 5) = 1
      alt == Bits(i, 30, 30) = 1
  IN  CASE opcode(i) = OPC.LUI -> "lui"
        [] opcode(i) = OPC.AUIPC -> "auipc"
        [] opcode(i) = OPC.JAL -> "jal"
        [] opcode(i) = OPC.JALR -> "jalr"
        [] opcode(i) = OPC.OP ->
             IF alt /\ f3 = 0 THEN "sub" ELSE IF alt /\ f3 = 5 THEN "sra"
             ELSE Select(<<"add", "sll", "slt", "sltu", "xor", "srl", "or", "and">>, f3)
        [] opcode(i) = OPC.OP_IMM ->
             IF alt /\ f3 = 5 THEN "srai"
             ELSE Select(<<"addi", "slli", "slti", "sltiu", "xori", "srli", "ori", "andi">>, f3)
        [] opcode(i) = OPC.BRANCH ->
             Select(<<"beq", "bne", "none", "none", "blt", "bge", "bltu", "bgeu">>, f3)
        [] OTHER -> "none"

mext_op(d) == Select(<<"mul", "mulh", "mulhsu", "mulhu", "div", "divu", "rem", "remu">>,
                     funct3(d.inst_pld))

(* toy_ldu, toy_ldq and toy_stu: the size; others are left to the default. *)
lsu_op(d) ==
  LET f3 == funct3(d.inst_pld) IN
  CASE opcode(d.inst_pld) = OPC.LOAD -> Select(<<"lb", "lh", "lw", "none", "lbu", "lhu">>, f3)
    [] opcode(d.inst_pld) = OPC.STORE -> Select(<<"sb", "sh", "sw", "none", "sb", "sh">>, f3)
    [] opcode(d.inst_pld) = OPC.LOAD_FP -> IF f3 = 2 THEN "flw" ELSE "none"
    [] OTHER -> IF f3 = 2 THEN "fsw" ELSE "none"

csr_op(d) ==
  LET f12 == Bits(d.inst_pld, 31, 20) IN
  IF funct3(d.inst_pld) # 0
  THEN Select(<<"none", "csrrw", "csrrs", "csrrc", "none", "csrrwi", "csrrsi", "csrrci">>,
              funct3(d.inst_pld))
  ELSE CASE f12 = 0 -> "ecall" [] f12 = 1 -> "ebreak" [] f12 = \h302 -> "mret" [] OTHER -> "none"

(* toy_float: the value by opcode, funct5 and funct3 ...                   *)
float_op(d) ==
  LET f3 == funct3(d.inst_pld)
      unsigned == Bits(d.inst_pld, 24, 20) = 1
      by == funct5(d.inst_pld)
  IN  CASE opcode(d.inst_pld) # OPC.OP_FP ->
             Select(<<"fmadd_s", "fmsub_s", "fnmsub_s", "fnmadd_s">>, opcode(d.inst_pld) - OPC.FMADD)
        [] by \in {FLOAT.ADD, FLOAT.SUB, FLOAT.MUL, FLOAT.DIV} ->
             Select(<<"fadd_s", "fsub_s", "fmul_s", "fdiv_s">>, by)
        [] by = FLOAT.SQRT -> "fsqrt_s"
        [] by = FLOAT.CMP -> Select(<<"fle_s", "flt_s", "feq_s">>, f3)
        [] by = FLOAT.MINMAX -> Select(<<"fmin_s", "fmax_s">>, f3)
        [] by = FLOAT.SGNJ -> Select(<<"fsgnj_s", "fsgnjn_s", "fsgnjx_s">>, f3)
        [] by = FLOAT.MVWX -> "fmv_s_x"
        [] by = FLOAT.MVXW_CLASS -> IF f3 = 0 THEN "fmv_x_s" ELSE "fclass_s"
        [] by = FLOAT.CVT_SW -> IF unsigned THEN "fcvt_s_wu" ELSE "fcvt_s_w"
        [] by = FLOAT.CVT_WS -> IF unsigned THEN "fcvt_wu_s" ELSE "fcvt_w_s"
        [] OTHER -> "none"
(* ... but its register writes by funct5 alone, which in a fused operation *)
(* is the number of the third operand.                                     *)
float_writes(d) ==
  IF funct5(d.inst_pld) \in ToInt
  THEN IF d.rd_en THEN {<<"x", d.rd>>} ELSE {}
  ELSE IF d.fp_rd_en THEN {<<"f", d.rd>>} ELSE {}

unit_op(d) ==
  CASE d.goto = "alu" -> alu_op(d)
    [] d.goto = "mext" -> mext_op(d)
    [] d.goto \in {"ldu", "stu"} -> lsu_op(d)
    [] d.goto = "csr" -> csr_op(d)
    [] d.goto = "float" -> float_op(d)
    [] OTHER -> "none"

(* The registers a unit writes; a write of x0 is dropped.                  *)
unit_writes(d) ==
  IF d.goto = "float" THEN float_writes(d) \ {<<"x", 0>>}
  ELSE IF d.fp_rd_en THEN {<<"f", d.rd>>}
  ELSE IF d.rd_en THEN {<<"x", d.rd>>} \ {<<"x", 0>>} ELSE {}
=============================================================================

------------------------------ MODULE RiscvDisas ------------------------------
(***************************************************************************)
(* disasm_inst (plug_in/disassembler/riscv_disas.c): one instruction word  *)
(* is decoded, its operands extracted, a compressed operation replaced by  *)
(* the one it abbreviates, an operation replaced by a pseudo-instruction   *)
(* that reads better, and the result printed.  A word is a pair of 16-bit  *)
(* halves; the text is the operation and one token per printed operand.    *)
(***************************************************************************)
EXTENDS RiscvOpcodes, InstWords, TLC

CONSTANTS
  Words(_),     \* families of words handed to disasm_inst for a variant of the ISA
  Fetched(_)    \* the words read from memory by inst_fetch before that

VARIABLES
  inst, isa,
  stage,        \* the next step of disasm_inst
  op, codec,
  arg,          \* rd, rs1, rs2, rs3, imm, rm, pred, succ, aq, rl of rv_decode
  text          \* what is printed

disasVars == <<inst, isa, stage, op, codec, arg, text>>

-----------------------------------------------------------------------------
inst_length(w) ==
  IF Bits(w, 1, 0) # 3 THEN 2
  ELSE IF Bits(w, 4, 2) # 7 THEN 4
  ELSE IF Bits(w, 5, 0) = 31 THEN 6
  ELSE IF Bits(w, 6, 0) = 63 THEN 8 ELSE 0

(* inst_fetch: the upper half is read for a length of four at least.       *)
inst_fetch(w) == IF inst_length(w) >= 4 THEN w ELSE Word(0, w.lo)

-----------------------------------------------------------------------------
(* decode_inst_opcode.  Pick(names, k) is the k-th name from 0 and Case    *)
(* that of a partial table; where the code has no case it is illegal.      *)
Pick(names, k) == IF k < Len(names) THEN names[k + 1] ELSE "illegal"
Case(table, k) == IF k \in DOMAIN table THEN table[k] ELSE "illegal"

Quadrant0(w, x) ==
  LET only(y, a, b) == IF x = y THEN a ELSE b
  IN  Pick(<<"c_addi4spn", only("rv128", "c_lq", "c_fld"), "c_lw",
             only("rv32", "c_flw", "c_ld"), "illegal", only("rv128", "c_sq", "c_fsd"),
             "c_sw", only("rv32", "c_fsw", "c_sd")>>, Bits(w, 15, 13))

Quadrant1(w, x) ==
  LET arith == IF Bits(w, 11, 10) < 3 THEN Pick(<<"c_srli", "c_srai", "c_andi">>, Bits(w, 11, 10))
               ELSE Pick(<<"c_sub", "c_xor", "c_or", "c_and", "c_subw", "c_addw">>,
                         Bits(w, 12, 12) * 4 + Bits(w, 6, 5))
  IN  Pick(<<IF Bits(w, 12, 2) = 0 THEN "c_nop" ELSE "c_addi",
             IF x = "rv32" THEN "c_jal" ELSE "c_addiw", "c_li",
             IF Bits(w, 11, 7) = 2 THEN "c_addi16sp" ELSE "c_lui",
             arith, "c_j", "c_beqz", "c_bnez">>, Bits(w, 15, 13))

Quadrant2(w, x) ==
  LET only(y, a, b) == IF x = y THEN a ELSE b
      jump == IF Bits(w, 12, 12) = 0
              THEN IF Bits(w, 6, 2) = 0 THEN "c_jr" ELSE "c_mv"
              ELSE IF Bits(w, 6, 2) # 0 THEN "c_add"
              ELSE IF Bits(w, 11, 7) = 0 THEN "c_ebreak" ELSE "c_jalr"
  IN  Pick(<<"c_slli", only("rv128", "c_lqsp", "c_fldsp"), "c_lwsp",
             only("rv32", "c_flwsp", "c_ldsp"), jump, only("rv128", "c_sqsp", "c_fsdsp"),
             "c_swsp", only("rv32", "c_fswsp", "c_sdsp")>>, Bits(w, 15, 13))

(* Loads, stores, fences and operations on an immediate.                   *)
Shift(w, l, k, name) == IF Bits(w, 31, l) = k THEN name ELSE "illegal"
ImmediateOp(w) ==
  LET f3 == Bits(w, 14, 12)
  IN  CASE Bits(w, 6, 2) = 0 -> Pick(<<"lb", "lh", "lw", "ld", "lbu", "lhu", "lwu", "ldu">>, f3)
        [] Bits(w, 6, 2) = 1 -> Case(2 :> "flw" @@ 3 :> "fld" @@ 4 :> "flq", f3)
        [] Bits(w, 6, 2) = 3 -> Pick(<<"fence", "fence_i", "lq">>, f3)
        [] Bits(w, 6, 2) = 4 ->
             Pick(<<"addi", Shift(w, 27, 0, "slli"), "slti", "sltiu", "xori",
                    IF Bits(w, 31, 27) = 8 THEN "srai" ELSE Shift(w, 27, 0, "srli"),
                    "ori", "andi">>, f3)
        [] Bits(w, 6, 2) = 6 ->
             Case(0 :> "addiw" @@ 1 :> Shift(w, 25, 0, "slliw")
                  @@ 5 :> (IF Bits(w, 31, 25) = 32 THEN "sraiw" ELSE Shift(w, 25, 0, "srliw")), f3)
        [] Bits(w, 6, 2) = 8 -> Pick(<<"sb", "sh", "sw", "sd", "sq">>, f3)
        [] Bits(w, 6, 2) = 9 -> Case(2 :> "fsw" @@ 3 :> "fsd" @@ 4 :> "fsq", f3)
        [] Bits(w, 6, 2) = 22 ->
             Case(0 :> "addid" @@ 1 :> Shift(w, 26, 0, "sllid")
                  @@ 5 :> (IF Bits(w, 31, 26) = 16 THEN "sraid" ELSE Shift(w, 26, 0, "srlid")), f3)

(* Atomics: funct5 names the operation, funct3 the width.                  *)
AtomicOp(w) ==
  LET f5 == Bits(w, 31, 27)
      width == Case(2 :> "_w" @@ 3 :> "_d" @@ 4 :> "_q", Bits(w, 14, 12))
      name == Case(0 :> "amoadd" @@ 1 :> "amoswap" @@ 2 :> "lr" @@ 3 :> "sc" @@ 4 :> "amoxor"
                   @@ 8 :> "amoor" @@ 12 :> "amoand" @@ 16 :> "amomin" @@ 20 :> "amomax"
                   @@ 24 :> "amominu" @@ 28 :> "amomaxu", f5)
  IN  IF "illegal" \in {width, name} \/ (f5 = 2 /\ Bits(w, 24, 20) # 0)
      THEN "illegal" ELSE name \o width

(* Operations on two registers; subs holds those with bit 30 set.          *)
RegisterOp(w) ==
  LET f3 == Bits(w, 14, 12)
      by(base, muls, subs) ==
        Case(0 :> Case(base, f3) @@ 1 :> Case(muls, f3) @@ 32 :> Case(subs, f3), Bits(w, 31, 25))
      narrow(s) == by(0 :> "add" \o s @@ 1 :> "sll" \o s @@ 5 :> "srl" \o s,
                      0 :> "mul" \o s @@ 4 :> "div" \o s @@ 5 :> "divu" \o s
                        @@ 6 :> "rem" \o s @@ 7 :> "remu" \o s,
                      0 :> "sub" \o s @@ 5 :> "sra" \o s)
  IN  CASE Bits(w, 6, 2) = 12 ->
             by([k \in 0 .. 7 |-> <<"add", "sll", "slt", "sltu", "xor", "srl", "or", "and">>[k + 1]],
                [k \in 0 .. 7 |-> <<"mul", "mulh", "mulhsu", "mulhu", "div", "divu", "rem",
                                    "remu">>[k + 1]],
                0 :> "sub" @@ 5 :> "sra")
        [] Bits(w, 6, 2) = 14 -> narrow("w")
        [] Bits(w, 6, 2) = 30 -> narrow("d")

(* Floating point: the two low bits of funct7 are the precision; rs2 tells *)
(* conversions apart and funct3 the comparisons and moves.                 *)
Precision(k) == Case(0 :> "_s" @@ 1 :> "_d" @@ 3 :> "_q", k)
FusedOp(w) ==
  LET p == Precision(Bits(w, 26, 25))
  IN  IF p = "illegal" THEN p
      ELSE Pick(<<"fmadd", "fmsub", "fnmsub", "fnmadd">>, Bits(w, 6, 2) - 16) \o p
FloatArithOp(w) ==
  LET named(names, k) == IF k < Len(names) THEN "f" \o names[k + 1] \o Precision(Bits(w, 26, 25))
                         ELSE "illegal"
      f3 == Bits(w, 14, 12)
  IN  Case(0 :> named(<<"add">>, 0) @@ 1 :> named(<<"sub">>, 0) @@ 2 :> named(<<"mul">>, 0)
           @@ 3 :> named(<<"div">>, 0) @@ 4 :> named(<<"sgnj", "sgnjn", "sgnjx">>, f3)
           @@ 5 :> named(<<"min", "max">>, f3) @@ 11 :> named(<<"sqrt">>, Bits(w, 24, 20))
           @@ 20 :> named(<<"le", "lt", "eq">>, f3), Bits(w, 31, 27))
FloatMoveOp(w) ==
  LET p == Precision(Bits(w, 26, 25))
      rs2 == Bits(w, 24, 20)
      ints == <<"_w", "_wu", "_l", "_lu">>
      plain == rs2 = 0 /\ Bits(w, 14, 12) = 0
      from == Precision(rs2)
  IN  CASE Bits(w, 31, 27) = 8 -> IF "illegal" # from /\ from # p THEN "fcvt" \o p \o from ELSE "illegal"
        [] Bits(w, 31, 27) = 24 -> IF rs2 < 4 THEN "fcvt" \o ints[rs2 + 1] \o p ELSE "illegal"
        [] Bits(w, 31, 27) = 26 -> IF rs2 < 4 THEN "fcvt" \o p \o ints[rs2 + 1] ELSE "illegal"
        [] Bits(w, 31, 27) = 28 -> IF plain THEN "fmv_x" \o p
                                   ELSE IF rs2 = 0 /\ Bits(w, 14, 12) = 1 THEN "fclass" \o p
                                   ELSE "illegal"
        [] Bits(w, 31, 27) = 30 -> IF plain THEN "fmv" \o p \o "_x" ELSE "illegal"
        [] OTHER -> "illegal"
FloatOp(w) ==
  IF Precision(Bits(w, 26, 25)) = "illegal" THEN "illegal"
  ELSE IF FloatArithOp(w) # "illegal" THEN FloatArithOp(w) ELSE FloatMoveOp(w)

BranchOp(w) ==
  LET f3 == Bits(w, 14, 12)
  IN  CASE Bits(w, 6, 2) = 24 ->
             Case(0 :> "beq" @@ 1 :> "bne" @@ 4 :> "blt" @@ 5 :> "bge" @@ 6 :> "bltu"
                  @@ 7 :> "bgeu", f3)
        [] Bits(w, 6, 2) = 25 -> Pick(<<"jalr">>, f3)
        [] Bits(w, 6, 2) = 27 -> "jal"

(* System: funct12 names the operation where rs1 and rd are zero.          *)
SystemOp(w) ==
  LET f7 == Bits(w, 31, 25)
      rs2 == Bits(w, 24, 20)
      noRs1(name) == IF Bits(w, 19, 15) = 0 THEN name ELSE "illegal"
      privileged ==
        IF Bits(w, 11, 7) # 0 THEN "illegal"
        ELSE Case(0 :> Pick(<<noRs1("ecall"), noRs1("ebreak"), noRs1("uret")>>, rs2)
                  @@ 8 :> Case(2 :> noRs1("sret") @@ 4 :> "sfence_vm" @@ 5 :> noRs1("wfi"), rs2)
                  @@ 9 :> "sfence_vma" @@ 16 :> Case(2 :> noRs1("hret"), rs2)
                  @@ 24 :> Case(2 :> noRs1("mret"), rs2) @@ 61 :> Case(18 :> noRs1("dret"), rs2), f7)
  IN  Pick(<<privileged, "csrrw", "csrrs", "csrrc", "illegal", "csrrwi", "csrrsi", "csrrci">>,
           Bits(w, 14, 12))

(* The major opcode of a four-byte instruction.                            *)
WordOp(w) ==
  LET major == Bits(w, 6, 2)
  IN  CASE major \in {0, 1, 3, 4, 6, 8, 9, 22} -> ImmediateOp(w)
        [] major = 5 -> "auipc"
        [] major = 11 -> AtomicOp(w)
        [] major \in {12, 14, 30} -> RegisterOp(w)
        [] major = 13 -> "lui"
        [] major \in 16 .. 19 -> FusedOp(w)
        [] major = 20 -> FloatOp(w)
        [] major \in {24, 25, 27} -> BranchOp(w)
        [] major = 28 -> SystemOp(w)
        [] OTHER -> "illegal"

decode_inst_opcode(w, x) ==
  CASE Bits(w, 1, 0) = 0 -> Quadrant0(w, x)
    [] Bits(w, 1, 0) = 1 -> Quadrant1(w, x)
    [] Bits(w, 1, 0) = 2 -> Quadrant2(w, x)
    [] OTHER -> WordOp(w)

-----------------------------------------------------------------------------
(* Operand extractors.                                                     *)
operand_rd_M(w) == Bits(w, 12, 7)
operand_rd(w) == Bits(w, 11, 7)
operand_rs1(w) == Bits(w, 19, 15)
operand_rs2(w) == Bits(w, 24, 20)
operand_rs3(w) == Bits(w, 31, 27)
operand_rm(w) == Bits(w, 14, 12)
operand_imm12(w) == Sext(w, 31, 20, 0)
operand_imm20(w) == Sext(w, 31, 12, 12)
operand_jimm20(w) == Sext(w, 31, 31, 20) + At(w, 30, 21, 1) + At(w, 20, 20, 11) + At(w, 19, 12, 12)
operand_simm12(w) == Sext(w, 31, 25, 5) + At(w, 11, 7, 0)
operand_sbimm12(w) == Sext(w, 31, 31, 12) + At(w, 30, 25, 5) + At(w, 11, 8, 1) + At(w, 7, 7, 11)

operand_cimmi(w) == Sext(w, 12, 12, 5) + At(w, 6, 2, 0)
operand_cimmui(w) == Sext(w, 12, 12, 17) + At(w, 6, 2, 12)
operand_cimmsh6(w) == At(w, 12, 12, 5) + At(w, 6, 2, 0)
operand_cimmlwsp_M(w) == At(w, 12, 12, 5) + At(w, 6, 5, 3) + At(w, 4, 2, 6)
operand_cimmlwsp(w) == At(w, 12, 12, 5) + At(w, 6, 4, 2) + At(w, 3, 2, 6)
operand_cimmldsp(w) == At(w, 12, 12, 5) + At(w, 6, 5, 3) + At(w, 4, 2, 6)
operand_cimmlqsp(w) == At(w, 12, 12, 5) + At(w, 6, 6, 4) + At(w, 5, 2, 6)
operand_cimm16sp(w) ==
  Sext(w, 12, 12, 9) + At(w, 6, 6, 4) + At(w, 5, 5, 6) + At(w, 4, 3, 7) + At(w, 2, 2, 5)
operand_cimmj(w) ==
  Sext(w, 12, 12, 11) + At(w, 11, 11, 4) + At(w, 10, 9, 8) + At(w, 8, 8, 10) + At(w, 7, 7, 6)
  + At(w, 6, 6, 7) + At(w, 5, 3, 1) + At(w, 2, 2, 5)
operand_cimmb(w) ==
  Sext(w, 12, 12, 8) + At(w, 11, 10, 3) + At(w, 6, 5, 6) + At(w, 4, 3, 1) + At(w, 2, 2, 5)
operand_cimmswsp(w) == At(w, 12, 9, 2) + At(w, 8, 7, 6)
operand_cimmsdsp(w) == At(w, 12, 10, 3) + At(w, 9, 7, 6)
operand_cimmsqsp(w) == At(w, 12, 11, 4) + At(w, 10, 7, 6)
operand_cimm4spn(w) == At(w, 12, 11, 4) + At(w, 10, 7, 6) + At(w, 6, 6, 2) + At(w, 5, 5, 3)
operand_cimmw(w) == At(w, 12, 10, 3) + At(w, 6, 6, 2) + At(w, 5, 5, 6)
operand_cimmd(w) == At(w, 12, 10, 3) + At(w, 6, 5, 6)
operand_cimmq(w) == At(w, 12, 11, 4) + At(w, 10, 10, 8) + At(w, 6, 5, 6)

(* Registers of a compressed instruction, x8 to x15 in three bits.         *)
operand_crs1q(w) == Bits(w, 9, 7) + 8
operand_crs2q(w) == Bits(w, 4, 2) + 8
operand_crs2(w) == Bits(w, 6, 2)

-----------------------------------------------------------------------------
(* decode_inst_operands.  A codec it has no case for leaves the zeroes     *)
(* disasm_inst starts from.                                                *)
Args(rd, rs1, rs2, imm) ==
  [rd |-> rd, rs1 |-> rs1, rs2 |-> rs2, imm |-> imm, rs3 |-> 0, rm |-> 0, pred |-> 0,
   succ |-> 0, aq |-> 0, rl |-> 0]

WordCodecs == {"u", "uj", "i", "i_sh5", "i_sh6", "i_sh7", "i_csr", "s", "sb", "r", "r_m",
               "r4_m", "r_a", "r_l", "r_f"}
WordOperands(c, w) ==
  LET rd == operand_rd(w)
      rs1 == operand_rs1(w)
      rs2 == operand_rs2(w)
      r == Args(rd, rs1, rs2, 0)
      ordered == [r EXCEPT !.aq = Bits(w, 26, 26), !.rl = Bits(w, 25, 25)]
  IN  CASE c = "u" -> Args(rd, 0, 0, operand_imm20(w))
        [] c = "uj" -> Args(rd, 0, 0, operand_jimm20(w))
        [] c = "i" -> Args(rd, rs1, 0, operand_imm12(w))
        [] c = "i_sh5" -> Args(rd, rs1, 0, Bits(w, 24, 20))
        [] c = "i_sh6" -> Args(rd, rs1, 0, Bits(w, 25, 20))
        [] c = "i_sh7" -> Args(rd, rs1, 0, Bits(w, 26, 20))
        [] c = "i_csr" -> Args(rd, rs1, 0, Bits(w, 31, 20))
        [] c = "s" -> Args(0, rs1, rs2, operand_simm12(w))
        [] c = "sb" -> Args(0, rs1, rs2, operand_sbimm12(w))
        [] c = "r" -> r
        [] c = "r_m" -> [r EXCEPT !.rm = operand_rm(w)]
        [] c = "r4_m" -> [r EXCEPT !.rs3 = operand_rs3(w), !.rm = operand_rm(w)]
        [] c = "r_a" -> ordered
        [] c = "r_l" -> [ordered EXCEPT !.rs2 = 0]
        [] c = "r_f" -> [Args(0, 0, 0, 0) EXCEPT !.pred = Bits(w, 27, 24), !.succ = Bits(w, 23, 20)]

(* Compressed codecs of one full register field, and those of jumps.       *)
CiOperands(c, w) ==
  LET rd == operand_rd(w) IN
  CASE c = "ci" -> Args(rd, rd, 0, operand_cimmi(w))
    [] c = "ci_sh6" -> Args(rd, rd, 0, operand_cimmsh6(w))
    [] c = "ci_16sp" -> Args(2, 2, 0, operand_cimm16sp(w))
    [] c = "ci_lwsp" -> Args(rd, 2, 0, operand_cimmlwsp(w))
    [] c = "ci_ldsp" -> Args(rd, 2, 0, operand_cimmldsp(w))
    [] c = "ci_lqsp" -> Args(rd, 2, 0, operand_cimmlqsp(w))
    [] c = "ci_li" -> Args(rd, 0, 0, operand_cimmi(w))
    [] c = "ci_lui" -> Args(rd, 0, 0, operand_cimmui(w))
    [] c = "cj" -> Args(0, 0, 0, operand_cimmj(w))
    [] c = "cj_jal" -> Args(1, 0, 0, operand_cimmj(w))
    [] c = "cr" -> Args(rd, rd, operand_crs2(w), 0)
    [] c = "cr_mv" -> Args(rd, operand_crs2(w), 0, 0)
    [] c = "cr_jalr" -> Args(1, rd, 0, 0)
    [] c = "cr_jr" -> Args(0, rd, 0, 0)
    [] c = "css_swsp" -> Args(0, 2, operand_crs2(w), operand_cimmswsp(w))
    [] c = "css_sdsp" -> Args(0, 2, operand_crs2(w), operand_cimmsdsp(w))
    [] c = "css_sqsp" -> Args(0, 2, operand_crs2(w), operand_cimmsqsp(w))
    [] OTHER -> Args(0, 0, 0, 0)

(* Compressed codecs whose registers are x8 to x15.                        *)
QuarterCodecs == {"cb", "cb_imm", "cb_sh6", "ciw_4spn", "cl_lw", "cl_ld", "cl_lq", "cs",
                  "cs_sw", "cs_sd", "cs_sq"}
QuarterOperands(c, w) ==
  LET rs1 == operand_crs1q(w)
      rd == operand_crs2q(w)
      rs2 == operand_crs2q(w)
  IN  CASE c = "cb" -> Args(0, rs1, 0, operand_cimmb(w))
        [] c = "cb_imm" -> Args(rs1, rs1, 0, operand_cimmi(w))
        [] c = "cb_sh6" -> Args(rs1, rs1, 0, operand_cimmsh6(w))
        [] c = "ciw_4spn" -> Args(rd, 2, 0, operand_cimm4spn(w))
        [] c = "cl_lw" -> Args(rd, rs1, 0, operand_cimmw(w))
        [] c = "cl_ld" -> Args(rd, rs1, 0, operand_cimmd(w))
        [] c = "cl_lq" -> Args(rd, rs1, 0, operand_cimmq(w))
        [] c = "cs" -> Args(rs1, rs1, rs2, 0)
        [] c = "cs_sw" -> Args(0, rs1, rs2, operand_cimmw(w))
        [] c = "cs_sd" -> Args(0, rs1, rs2, operand_cimmd(w))
        [] c = "cs_sq" -> Args(0, rs1, rs2, operand_cimmq(w))

decode_inst_operands(c, w) ==
  IF c \in WordCodecs THEN WordOperands(c, w)
  ELSE IF c \in QuarterCodecs THEN QuarterOperands(c, w) ELSE CiOperands(c, w)

-----------------------------------------------------------------------------
(* decode_inst_decompress: the operation an operation stands for.          *)
decode_inst_decompress(o, imm, x) ==
  IF o \notin DOMAIN decomp \/ decomp[o][x] = "illegal" THEN o
  ELSE IF o \in rvcd_imm_nz /\ imm = 0 THEN "illegal" ELSE decomp[o][x]

(* decode_inst_lift_pseudo: the first pseudo-instruction whose constraints *)
(* the operands meet.                                                      *)
check_constraints_M(a, constraints) ==
  \A c \in constraints : c = "rs2_eq_rs1" \/ a[Constraint[c][1]] = Constraint[c][2]
check_constraints(a, constraints) ==
  \A c \in constraints : IF c = "rs2_eq_rs1" THEN a.rs2 = a.rs1
                         ELSE a[Constraint[c][1]] = Constraint[c][2]
Lifts(o, a) ==
  IF o \notin DOMAIN pseudo THEN {}
  ELSE {k \in DOMAIN pseudo[o] : check_constraints(a, pseudo[o][k].constraints)}
decode_inst_lift_pseudo(o, a) ==
  IF Lifts(o, a) = {} THEN o
  ELSE pseudo[o][CHOOSE k \in Lifts(o, a) : \A j \in Lifts(o, a) : k <= j].op

(* decode_inst_format: one token per operand of the format.                *)
RoundingModes == <<"rne", "rtz", "rdn", "rup", "rmm", "inv", "inv", "dyn">>
Token(f, a) ==
  CASE f \in {"rd", "rs1", "rs2"} -> <<"x", a[f]>>
    [] f = "frd" -> <<"f", a.rd>>
    [] f = "frs1" -> <<"f", a.rs1>>
    [] f = "frs2" -> <<"f", a.rs2>>
    [] f = "frs3" -> <<"f", a.rs3>>
    [] f = "zimm" -> <<"n", a.rs1>>
    [] f \in {"imm", "offset"} -> <<"n", a.imm>>
    [] f = "csr" -> LET n == a.imm % 4096
                    IN  IF n \in DOMAIN csr_name THEN <<"csr", csr_name[n]>> ELSE <<"hex", n>>
    [] f = "rm" -> <<"rm", RoundingModes[a.rm + 1]>>
    [] f \in {"pred", "succ", "aq", "rl"} -> <<f, a[f]>>
decode_inst_format(o, a) ==
  LET fmt == Formats[opcode_data[o].format]
  IN  [op |-> o, tokens |-> [k \in DOMAIN fmt |-> Token(fmt[k], a)]]

-----------------------------------------------------------------------------
(* disasm_inst, step by step.                                              *)
rv_isa == {"rv32", "rv64", "rv128"}
NoText == [op |-> "illegal", tokens |-> <<>>]

DisasInit ==
  /\ isa \in rv_isa
  /\ \/ \E k \in DOMAIN Words(isa) : inst \in Words(isa)[k]
     \/ \E w \in Fetched(isa) : inst = inst_fetch(w)
  /\ stage = "opcode" /\ op = "illegal" /\ codec = "illegal"
  /\ arg = Args(0, 0, 0, 0) /\ text = NoText

DecodeOpcode ==
  /\ stage = "opcode" /\ stage' = "operands"
  /\ op' = decode_inst_opcode(inst, isa)
  /\ UNCHANGED <<inst, isa, codec, arg, text>>

DecodeOperands ==
  /\ stage = "operands" /\ stage' = "decompress"
  /\ codec' = opcode_data[op].codec
  /\ arg' = decode_inst_operands(codec', inst)
  /\ UNCHANGED <<inst, isa, op, text>>

Decompress ==
  /\ stage = "decompress" /\ stage' = "lift"
  /\ op' = decode_inst_decompress(op, arg.imm, isa)
  /\ codec' = IF op' \in {op, "illegal"} THEN codec ELSE opcode_data[op'].codec
  /\ UNCHANGED <<inst, isa, arg, text>>

LiftPseudo ==
  /\ stage = "lift" /\ stage' = "format"
  /\ op' = decode_inst_lift_pseudo(op, arg)
  /\ codec' = IF op' = op THEN codec ELSE opcode_data[op'].codec
  /\ UNCHANGED <<inst, isa, arg, text>>

Format ==
  /\ stage = "format" /\ stage' = "done"
  /\ text' = decode_inst_format(op, arg)
  /\ UNCHANGED <<inst, isa, op, codec, arg>>

DisasNext == DecodeOpcode \/ DecodeOperands \/ Decompress \/ LiftPseudo \/ Format
DisasSpec == DisasInit /\ [][DisasNext]_disasVars
=============================================================================

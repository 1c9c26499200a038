---------------------------- MODULE InstructionSet ----------------------------
(***************************************************************************)
(* The two decoders of the repository side by side: the disassembler that  *)
(* prints what the core runs, and the decoder and execution units that run *)
(* it.  Both are compared with each other and with what the manual says of *)
(* compressed immediates and of pseudo-instructions.                       *)
(***************************************************************************)
EXTENDS RiscvDisas

D == INSTANCE Decoder

(* The operation as decoded and after a compressed one is expanded.        *)
Decoded == decode_inst_opcode(inst, isa)
Base == decode_inst_decompress(Decoded, arg.imm, isa)
Compressed == Decoded \in DOMAIN decomp

Shows(o, f) == \E k \in DOMAIN Formats[opcode_data[o].format] :
                 Formats[opcode_data[o].format][k] = f

-----------------------------------------------------------------------------
(* An effect: an operation, the registers it writes, the registers it      *)
(* reads and its numbers.  What the disassembler says ...                  *)
Nothing == <<"-", 0>>
Operand(o, x, f, k) ==
  IF Shows(o, x) THEN <<"x", k>> ELSE IF Shows(o, f) THEN <<"f", k>> ELSE Nothing
Printed ==
  [op |-> Base,
   dest |-> {Operand(Base, "rd", "frd", arg.rd)} \ {Nothing, <<"x", 0>>},
   rs1 |-> Operand(Base, "rs1", "frs1", arg.rs1),
   rs2 |-> Operand(Base, "rs2", "frs2", arg.rs2),
   rs3 |-> Operand(Base, "-", "frs3", arg.rs3),
   imm |-> IF Shows(Base, "zimm") THEN <<arg.imm, arg.rs1>>
           ELSE IF \E f \in {"imm", "offset", "csr"} : Shows(Base, f) THEN <<arg.imm>> ELSE <<>>]

(* ... and what the core does, by the units' reading of the packet.        *)
Executed ==
  LET d == D!decode_pld(inst)
      o == D!unit_op(d)
      csr == Bits(d.inst_pld, 31, 20)
  IN  [op |-> o, dest |-> D!unit_writes(d), rs1 |-> d.rs1, rs2 |-> d.rs2, rs3 |-> d.rs3,
       imm |-> CASE o \in {"csrrw", "csrrs", "csrrc"} -> <<csr>>
                 [] o \in {"csrrwi", "csrrsi", "csrrci"} -> <<csr, Bits(d.inst_pld, 19, 15)>>
                 [] o \in {"slli", "srli", "srai"} -> <<d.imm % 32>>
                 [] OTHER -> <<d.imm>>]

(* Ways to load a constant, copy a register and do nothing are the same.   *)
Normal(e) ==
  CASE e.op = "addi" /\ e.rs1 = <<"x", 0>> -> [e EXCEPT !.op = "lui", !.rs1 = Nothing]
    [] e.op = "addi" /\ e.imm = <<0>> -> [e EXCEPT !.op = "copy", !.imm = <<>>]
    [] e.op = "add" /\ e.rs1 = <<"x", 0>> -> [e EXCEPT !.op = "copy", !.rs1 = e.rs2, !.rs2 = Nothing]
    [] e.op \in {"fence", "fence_i"} -> [e EXCEPT !.op = "none"]
    [] OTHER -> e

(* The core does what is printed: it may read more, of no consequence.     *)
Agree(p, e) ==
  /\ p.op = e.op /\ p.dest = e.dest
  /\ \A k \in {"rs1", "rs2", "rs3"} : p[k] # Nothing => e[k] = p[k]
  /\ p.imm # <<>> => e.imm = p.imm

(* The instructions compared: RV32IMF and those compressed ones the        *)
(* decoder's table lists, without encodings that are reserved.             *)
Rv32imf ==
  {"lui", "auipc", "jal", "jalr", "beq", "bne", "blt", "bge", "bltu", "bgeu", "lb", "lh", "lw",
   "lbu", "lhu", "sb", "sh", "sw", "addi", "slti", "sltiu", "xori", "ori", "andi", "slli",
   "srli", "srai", "add", "sub", "sll", "slt", "sltu", "xor", "srl", "sra", "or", "and",
   "fence", "fence_i", "mul", "mulh", "mulhsu", "mulhu", "div", "divu", "rem", "remu",
   "ecall", "ebreak", "mret", "csrrw", "csrrs", "csrrc", "csrrwi", "csrrsi", "csrrci", "flw",
   "fsw", "fmadd_s", "fmsub_s", "fnmsub_s", "fnmadd_s", "fadd_s", "fsub_s", "fmul_s", "fdiv_s",
   "fsgnj_s", "fsgnjn_s", "fsgnjx_s", "fmin_s", "fmax_s", "fsqrt_s", "fle_s", "flt_s",
   "feq_s", "fcvt_w_s", "fcvt_wu_s", "fcvt_s_w", "fcvt_s_wu", "fmv_x_s", "fclass_s", "fmv_s_x"}
CompressedFloat == {"c_flw", "c_fsw", "c_flwsp", "c_fswsp"}
Compared ==
  /\ stage = "lift" /\ isa = "rv32"
  /\ op \in Rv32imf /\ Decoded \notin CompressedFloat
  /\ op \in {"slli", "srli", "srai"} => arg.imm < 32
  /\ op \in {"fence", "fence_i"} => operand_rd(inst) = 0

(* Where the decoder or a unit departs from the instruction set: offsets   *)
(* with their top bit set, C.ADDI4SPN, C.EBREAK, and fused operations      *)
(* whose third operand has the number of a conversion or comparison.       *)
Departs ==
  \/ Decoded \in {"c_lw", "c_sw"} /\ arg.imm >= 64
  \/ Decoded \in {"c_lwsp", "c_swsp"} /\ arg.imm >= 128
  \/ Decoded \in {"c_addi4spn", "c_ebreak"}
  \/ op \in {"fmadd_s", "fmsub_s", "fnmsub_s", "fnmadd_s"} /\ arg.rs3 \in D!ToInt
-----------------------------------------------------------------------------
(* What the manual says of a compressed immediate: the bit of the value    *)
(* that each bit of the word holds, from bit 12 down; -1 where it holds    *)
(* none.  A signed value repeats its highest bit.                          *)
Layout(b12, b11, b10, b9, b8, b7, b6, b5, b4, b3, b2) ==
  <<b12, b11, b10, b9, b8, b7, b6, b5, b4, b3, b2>>
Six == Layout(5, -1, -1, -1, -1, -1, 4, 3, 2, 1, 0)
ManualJump == Layout(11, 4, 9, 8, 10, 6, 7, 3, 2, 1, 5)
ManualBranch == Layout(8, 4, 3, -1, -1, -1, 7, 6, 2, 1, 5)
ManualWord == Layout(5, 4, 3, -1, -1, -1, 2, 6, -1, -1, -1)
ManualDouble == Layout(5, 4, 3, -1, -1, -1, 7, 6, -1, -1, -1)
ManualQuad == Layout(5, 4, 8, -1, -1, -1, 7, 6, -1, -1, -1)
ManualLayout ==
  [c_addi4spn |-> Layout(5, 4, 9, 8, 7, 6, 2, 3, -1, -1, -1),
   c_addi |-> Six, c_addiw |-> Six, c_li |-> Six, c_andi |-> Six, c_srli |-> Six, c_srai |-> Six,
   c_slli |-> Six, c_lui |-> Layout(17, -1, -1, -1, -1, -1, 16, 15, 14, 13, 12),
   c_addi16sp |-> Layout(9, -1, -1, -1, -1, -1, 4, 6, 8, 7, 5),
   c_jal |-> ManualJump, c_j |-> ManualJump, c_beqz |-> ManualBranch, c_bnez |-> ManualBranch,
   c_lw |-> ManualWord, c_flw |-> ManualWord, c_sw |-> ManualWord, c_fsw |-> ManualWord,
   c_ld |-> ManualDouble, c_fld |-> ManualDouble, c_sd |-> ManualDouble, c_fsd |-> ManualDouble,
   c_lq |-> ManualQuad, c_sq |-> ManualQuad,
   c_lwsp |-> Layout(5, -1, -1, -1, -1, -1, 4, 3, 2, 7, 6),
   c_flwsp |-> Layout(5, -1, -1, -1, -1, -1, 4, 3, 2, 7, 6),
   c_ldsp |-> Layout(5, -1, -1, -1, -1, -1, 4, 3, 8, 7, 6),
   c_fldsp |-> Layout(5, -1, -1, -1, -1, -1, 4, 3, 8, 7, 6),
   c_lqsp |-> Layout(5, -1, -1, -1, -1, -1, 4, 9, 8, 7, 6),
   c_swsp |-> Layout(5, 4, 3, 2, 7, 6, -1, -1, -1, -1, -1),
   c_fswsp |-> Layout(5, 4, 3, 2, 7, 6, -1, -1, -1, -1, -1),
   c_sdsp |-> Layout(5, 4, 3, 8, 7, 6, -1, -1, -1, -1, -1),
   c_fsdsp |-> Layout(5, 4, 3, 8, 7, 6, -1, -1, -1, -1, -1),
   c_sqsp |-> Layout(5, 4, 9, 8, 7, 6, -1, -1, -1, -1, -1)]
ManualSigned == {"c_addi", "c_addiw", "c_li", "c_andi", "c_lui", "c_addi16sp", "c_jal", "c_j",
                 "c_beqz", "c_bnez"}
ManualImm ==
  LET at == ManualLayout[Decoded]
      bit(k) == IF at[k] = -1 THEN 0 ELSE Bits(inst, 13 - k, 13 - k) * 2 ^ at[k]
      top == IF Decoded \in ManualSigned THEN 2 * bit(1) ELSE 0
  IN  bit(1) + bit(2) + bit(3) + bit(4) + bit(5) + bit(6) + bit(7) + bit(8) + bit(9) + bit(10)
      + bit(11) - top

(* What the manual says a pseudo-instruction stands for: the operation and *)
(* its operands in the order that operation prints them, each an operand   *)
(* of the pseudo-instruction, by its place, or a fixed one.                *)
A == <<"operand", 1>>
B == <<"operand", 2>>
C == <<"operand", 3>>
X0 == <<"x", 0>>
Num(n) == <<"n", n>>
Csr(name) == <<"csr", name>>
ManualBranches ==
  [beqz |-> <<"beq", <<A, X0, B>>>>, bnez |-> <<"bne", <<A, X0, B>>>>,
   blez |-> <<"bge", <<X0, A, B>>>>, bgez |-> <<"bge", <<A, X0, B>>>>,
   bltz |-> <<"blt", <<A, X0, B>>>>, bgtz |-> <<"blt", <<X0, A, B>>>>,
   ble |-> <<"bge", <<B, A, C>>>>, bleu |-> <<"bgeu", <<B, A, C>>>>,
   bgt |-> <<"blt", <<B, A, C>>>>, bgtu |-> <<"bltu", <<B, A, C>>>>,
   j |-> <<"jal", <<X0, A>>>>, jr |-> <<"jalr", <<X0, A, Num(0)>>>>,
   ret |-> <<"jalr", <<X0, <<"x", 1>>, Num(0)>>>>]
ManualMoves ==
  [nop |-> <<"addi", <<X0, X0, Num(0)>>>>, mv |-> <<"addi", <<A, B, Num(0)>>>>,
   not |-> <<"xori", <<A, B, Num(-1)>>>>, neg |-> <<"sub", <<A, X0, B>>>>,
   negw |-> <<"subw", <<A, X0, B>>>>, sext_w |-> <<"addiw", <<A, B, Num(0)>>>>,
   seqz |-> <<"sltiu", <<A, B, Num(1)>>>>, snez |-> <<"sltu", <<A, X0, B>>>>,
   sltz |-> <<"slt", <<A, B, X0>>>>, sgtz |-> <<"slt", <<A, X0, B>>>>]
ManualSigns ==
  LET as(o) == <<o, <<A, B, B>>>>
  IN  [fmv_s |-> as("fsgnj_s"), fneg_s |-> as("fsgnjn_s"),
       fabs_s |-> as("fsgnjx_s"), fmv_d |-> as("fsgnj_d"),
       fneg_d |-> as("fsgnjn_d"), fabs_d |-> as("fsgnjx_d"),
       fmv_q |-> as("fsgnj_q"), fneg_q |-> as("fsgnjn_q"),
       fabs_q |-> as("fsgnjx_q")]
ManualCsrs ==
  LET reads(name) == <<"csrrs", <<A, Csr(name), X0>>>>
      writes(name) == <<"csrrw", <<A, Csr(name), B>>>>
      sets(name) == <<"csrrwi", <<A, Csr(name), B>>>>
  IN  [rdcycle |-> reads("cycle"), rdtime |-> reads("time"), rdinstret |-> reads("instret"),
       rdcycleh |-> reads("cycleh"), rdtimeh |-> reads("timeh"),
       rdinstreth |-> reads("instreth"), frcsr |-> reads("fcsr"), frrm |-> reads("frm"),
       frflags |-> reads("fflags"), fscsr |-> writes("fcsr"), fsrm |-> writes("frm"),
       fsflags |-> writes("fflags"), fsrmi |-> sets("frm"), fsflagsi |-> sets("fflags")]
Manual == ManualBranches @@ ManualMoves @@ ManualSigns @@ ManualCsrs

StandsFor(t) ==
  LET m == Manual[t.op]
  IN  [op |-> m[1],
       tokens |-> [k \in DOMAIN m[2] |-> IF m[2][k][1] = "operand" THEN t.tokens[m[2][k][2]]
                                         ELSE m[2][k]]]

InFile(file, t) == [t EXCEPT !.tokens = [k \in DOMAIN @ |-> <<file, @[k][2]>>]]

-----------------------------------------------------------------------------
(* Every step leaves an operation of the enumeration with operands of the  *)
(* width of its fields: the tables indexed by them have a row for each.    *)
DisasTypeOK ==
  /\ isa \in rv_isa /\ op \in DOMAIN opcode_data
  /\ arg.rd \in 0 .. 31 /\ arg.rs1 \in 0 .. 31 /\ arg.rs2 \in 0 .. 31 /\ arg.rs3 \in 0 .. 31
  /\ arg.imm \in (0 - 2 ^ 30) - 2 ^ 30 .. 2 ^ 30 - 1 + 2 ^ 30 /\ arg.rm \in 0 .. 7
  /\ arg.pred \in 0 .. 15 /\ arg.succ \in 0 .. 15 /\ arg.aq \in 0 .. 1 /\ arg.rl \in 0 .. 1
  /\ text.op \in DOMAIN opcode_data

(* What the disassembler prints of an RV32IMF or compressed integer        *)
(* instruction is what the core does: the operation the unit selects, the  *)
(* registers it is given and writes, and its immediate.                    *)
DecodersAgree == Compared /\ ~Departs => Agree(Normal(Printed), Normal(Executed))

(* The register a compressed instruction writes is the one the table at    *)
(* the head of toy_decoder lists.                                          *)
TableRd ==
  CASE Decoded \in {"c_sw", "c_beqz", "c_bnez", "c_ebreak", "c_swsp", "c_j", "c_jr", "c_nop"} -> {}
    [] Decoded \in {"c_jal", "c_jalr"} -> {<<"x", 1>>}
    [] Decoded = "c_addi16sp" -> {<<"x", 2>>}
    [] OTHER -> {<<"x", arg.rd>>} \ {<<"x", 0>>}
WritesAsTable == Compared /\ Compressed => Executed.dest = TableRd

(* The immediate of a compressed instruction, gathered from its scattered  *)
(* bits by decode_inst_operands, is the one the manual's table gives.      *)
OffsetsAsManual ==
  stage = "decompress" /\ op \in DOMAIN ManualLayout => arg.imm = ManualImm

(* A pseudo-instruction loses nothing: by the manual's table the text says *)
(* the operation and every operand it replaced.  The code's ret alone does *)
(* not look at the offset, and its moves of a sign name the registers of   *)
(* the other file, by their numbers.                                       *)
TextAsManual ==
  stage = "done" =>
    LET plain == decode_inst_format(Base, arg) IN
    \/ text = plain
    \/ text.op \in DOMAIN Manual \ DOMAIN ManualSigns /\ StandsFor(text) = plain
    \/ text.op \in DOMAIN ManualSigns /\ StandsFor(InFile("f", text)) = plain
    \/ text.op = "ret" /\ arg.imm # 0
=============================================================================

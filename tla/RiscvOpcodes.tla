----------------------------- MODULE RiscvOpcodes -----------------------------
(***************************************************************************)
(* The tables of the disassembler that prints the instructions the core    *)
(* runs (plug_in/disassembler): the enumeration of operations in           *)
(* riscv_disas.h and, indexed by it, opcode_data of riscv_disas.c with     *)
(* what it refers to.  Operations are spelled as their enumerators, and a  *)
(* print format is the sequence of the operands it prints.                 *)
(***************************************************************************)
EXTENDS Integers, Sequences

LOCAL INSTANCE TLC

(* Names with a suffix: Named("amo", <<"add">>, "_w") = <<"amoadd_w">>.    *)
Named(prefix, names, suffix) == [k \in 1 .. Len(names) |-> prefix \o names[k] \o suffix]

-----------------------------------------------------------------------------
(* enum rv_op.                                                             *)
rv_op_int ==
  <<"illegal", "lui", "auipc", "jal", "jalr", "beq", "bne", "blt", "bge", "bltu", "bgeu",
    "lb", "lh", "lw", "lbu", "lhu", "sb", "sh", "sw", "addi", "slti", "sltiu", "xori",
    "ori", "andi", "slli", "srli", "srai", "add", "sub", "sll", "slt", "sltu", "xor", "srl",
    "sra", "or", "and", "fence", "fence_i", "lwu", "ld", "sd", "addiw", "slliw", "srliw",
    "sraiw", "addw", "subw", "sllw", "srlw", "sraw", "ldu", "lq", "sq", "addid", "sllid",
    "srlid", "sraid", "addd", "subd", "slld", "srld", "srad", "mul", "mulh", "mulhsu",
    "mulhu", "div", "divu", "rem", "remu", "mulw", "divw", "divuw", "remw", "remuw", "muld",
    "divd", "divud", "remd", "remud">>

rv_op_amo(w) ==
  Named("", <<"lr", "sc">>, w)
  \o Named("amo", <<"swap", "add", "xor", "or", "and", "min", "max", "minu", "maxu">>, w)

rv_op_sys ==
  <<"ecall", "ebreak", "uret", "sret", "hret", "mret", "dret", "sfence_vm", "sfence_vma",
    "wfi", "csrrw", "csrrs", "csrrc", "csrrwi", "csrrsi", "csrrci">>

FloatArith == <<"madd", "msub", "nmsub", "nmadd", "add", "sub", "mul", "div", "sgnj",
                "sgnjn", "sgnjx", "min", "max">>
rv_op_float_s ==
  <<"flw", "fsw">> \o Named("f", FloatArith \o <<"sqrt", "le", "lt", "eq">>, "_s")
  \o <<"fcvt_w_s", "fcvt_wu_s", "fcvt_s_w", "fcvt_s_wu", "fmv_x_s", "fclass_s", "fmv_s_x",
       "fcvt_l_s", "fcvt_lu_s", "fcvt_s_l", "fcvt_s_lu">>
rv_op_float_d ==
  <<"fld", "fsd">> \o Named("f", FloatArith, "_d") \o <<"fcvt_s_d", "fcvt_d_s">>
  \o Named("f", <<"sqrt", "le", "lt", "eq">>, "_d")
  \o <<"fcvt_w_d", "fcvt_wu_d", "fcvt_d_w", "fcvt_d_wu", "fclass_d", "fcvt_l_d",
       "fcvt_lu_d", "fmv_x_d", "fcvt_d_l", "fcvt_d_lu", "fmv_d_x">>
rv_op_float_q ==
  <<"flq", "fsq">> \o Named("f", FloatArith, "_q")
  \o <<"fcvt_s_q", "fcvt_q_s", "fcvt_d_q", "fcvt_q_d">>
  \o Named("f", <<"sqrt", "le", "lt", "eq">>, "_q")
  \o <<"fcvt_w_q", "fcvt_wu_q", "fcvt_q_w", "fcvt_q_wu", "fclass_q", "fcvt_l_q",
       "fcvt_lu_q", "fcvt_q_l", "fcvt_q_lu", "fmv_x_q", "fmv_q_x">>

rv_op_c ==
  Named("c_", <<"addi4spn", "fld", "lw", "flw", "fsd", "sw", "fsw", "nop", "addi", "jal",
    "li", "addi16sp", "lui", "srli", "srai", "andi", "sub", "xor", "or", "and", "subw",
    "addw", "j", "beqz", "bnez", "slli", "fldsp", "lwsp", "flwsp", "jr", "mv", "ebreak",
    "jalr", "add", "fsdsp", "swsp", "fswsp", "ld", "sd", "addiw", "ldsp", "sdsp", "lq",
    "sq", "lqsp", "sqsp">>, "")

rv_op_pseudo ==
  <<"nop", "mv", "not", "neg", "negw", "sext_w", "seqz", "snez", "sltz", "sgtz", "fmv_s",
    "fabs_s", "fneg_s", "fmv_d", "fabs_d", "fneg_d", "fmv_q", "fabs_q", "fneg_q", "beqz",
    "bnez", "blez", "bgez", "bltz", "bgtz", "ble", "bleu", "bgt", "bgtu", "j", "ret", "jr",
    "rdcycle", "rdtime", "rdinstret", "rdcycleh", "rdtimeh", "rdinstreth", "frcsr", "frrm",
    "frflags", "fscsr", "fsrm", "fsflags", "fsrmi", "fsflagsi">>

rv_op ==
  rv_op_int \o rv_op_amo("_w") \o rv_op_amo("_d") \o rv_op_amo("_q") \o rv_op_sys
  \o rv_op_float_s \o rv_op_float_d \o rv_op_float_q \o rv_op_c \o rv_op_pseudo

-----------------------------------------------------------------------------
(* Formats: rd, rs1, rs2 name integer registers, frd, frs1, frs2, frs3     *)
(* floating-point registers; zimm is the number in rs1, offset an          *)
(* immediate also printed as an address.                                   *)
Formats ==
  [none |-> <<>>, rs1 |-> <<"rs1">>, offset |-> <<"offset">>, rd |-> <<"rd">>,
   pred_succ |-> <<"pred", "succ">>, rs1_rs2 |-> <<"rs1", "rs2">>,
   rd_imm |-> <<"rd", "imm">>, rd_offset |-> <<"rd", "offset">>,
   rd_rs1_rs2 |-> <<"rd", "rs1", "rs2">>, frd_rs1 |-> <<"frd", "rs1">>,
   rd_frs1 |-> <<"rd", "frs1">>, rd_frs1_frs2 |-> <<"rd", "frs1", "frs2">>,
   frd_frs1_frs2 |-> <<"frd", "frs1", "frs2">>, rm_frd_frs1 |-> <<"rm", "frd", "frs1">>,
   rm_frd_rs1 |-> <<"rm", "frd", "rs1">>, rm_rd_frs1 |-> <<"rm", "rd", "frs1">>,
   rm_frd_frs1_frs2 |-> <<"rm", "frd", "frs1", "frs2">>,
   rm_frd_frs1_frs2_frs3 |-> <<"rm", "frd", "frs1", "frs2", "frs3">>,
   rd_rs1_imm |-> <<"rd", "rs1", "imm">>, rd_rs1_offset |-> <<"rd", "rs1", "imm">>,
   rd_offset_rs1 |-> <<"rd", "imm", "rs1">>, frd_offset_rs1 |-> <<"frd", "imm", "rs1">>,
   rd_csr_rs1 |-> <<"rd", "csr", "rs1">>, rd_csr_zimm |-> <<"rd", "csr", "zimm">>,
   rs2_offset_rs1 |-> <<"rs2", "imm", "rs1">>, frs2_offset_rs1 |-> <<"frs2", "imm", "rs1">>,
   rs1_rs2_offset |-> <<"rs1", "rs2", "offset">>, rs2_rs1_offset |-> <<"rs2", "rs1", "offset">>,
   aqrl_rd_rs2_rs1 |-> <<"aq", "rl", "rd", "rs2", "rs1">>,
   aqrl_rd_rs1 |-> <<"aq", "rl", "rd", "rs1">>, rd_zimm |-> <<"rd", "zimm">>,
   rd_rs1 |-> <<"rd", "rs1">>, rd_rs2 |-> <<"rd", "rs2">>,
   rs1_offset |-> <<"rs1", "offset">>, rs2_offset |-> <<"rs2", "offset">>]
(* opcode_data: codec and format of each operation, in the order of rv_op. *)
(* A row's name spells its enumerator and is left out.  The join with the  *)
(* first row has TLC build the table once.                                 *)
Rows(n, c, f) == [k \in 1 .. n |-> [codec |-> c, format |-> f]]

opcode_data_int ==
  Rows(1, "illegal", "none") \o Rows(1, "u", "rd_imm") \o Rows(1, "u", "rd_offset")
  \o Rows(1, "uj", "rd_offset") \o Rows(1, "i", "rd_rs1_offset")
  \o Rows(6, "sb", "rs1_rs2_offset") \o Rows(5, "i", "rd_offset_rs1")
  \o Rows(3, "s", "rs2_offset_rs1") \o Rows(6, "i", "rd_rs1_imm")
  \o Rows(3, "i_sh7", "rd_rs1_imm") \o Rows(10, "r", "rd_rs1_rs2")
  \o Rows(1, "r_f", "pred_succ") \o Rows(1, "none", "none") \o Rows(2, "i", "rd_offset_rs1")
  \o Rows(1, "s", "rs2_offset_rs1") \o Rows(1, "i", "rd_rs1_imm")
  \o Rows(3, "i_sh5", "rd_rs1_imm") \o Rows(5, "r", "rd_rs1_rs2")
  \o Rows(2, "i", "rd_offset_rs1") \o Rows(1, "s", "rs2_offset_rs1")
  \o Rows(1, "i", "rd_rs1_imm") \o Rows(3, "i_sh6", "rd_rs1_imm")
  \o Rows(23, "r", "rd_rs1_rs2")

opcode_data_amo == Rows(1, "r_l", "aqrl_rd_rs1") \o Rows(10, "r_a", "aqrl_rd_rs2_rs1")

opcode_data_sys ==
  Rows(7, "none", "none") \o Rows(1, "r", "rs1") \o Rows(1, "r", "rs1_rs2")
  \o Rows(1, "none", "none") \o Rows(3, "i_csr", "rd_csr_rs1")
  \o Rows(3, "i_csr", "rd_csr_zimm")

(* Loads, stores and arithmetic of a precision, then its conversions.      *)
FloatRows ==
  Rows(1, "i", "frd_offset_rs1") \o Rows(1, "s", "frs2_offset_rs1")
  \o Rows(4, "r4_m", "rm_frd_frs1_frs2_frs3") \o Rows(4, "r_m", "rm_frd_frs1_frs2")
  \o Rows(5, "r", "frd_frs1_frs2")
opcode_data_float_s ==
  FloatRows \o Rows(1, "r_m", "rm_frd_frs1") \o Rows(3, "r", "rd_frs1_frs2")
  \o Rows(2, "r_m", "rm_rd_frs1") \o Rows(2, "r_m", "rm_frd_rs1") \o Rows(2, "r", "rd_frs1")
  \o Rows(1, "r", "frd_rs1") \o Rows(2, "r_m", "rm_rd_frs1") \o Rows(2, "r_m", "rm_frd_rs1")
opcode_data_float_d ==
  FloatRows \o Rows(3, "r_m", "rm_frd_frs1") \o Rows(3, "r", "rd_frs1_frs2")
  \o Rows(2, "r_m", "rm_rd_frs1") \o Rows(2, "r_m", "rm_frd_rs1") \o Rows(1, "r", "rd_frs1")
  \o Rows(2, "r_m", "rm_rd_frs1") \o Rows(1, "r", "rd_frs1") \o Rows(2, "r_m", "rm_frd_rs1")
  \o Rows(1, "r", "frd_rs1")
opcode_data_float_q ==
  FloatRows \o Rows(5, "r_m", "rm_frd_frs1") \o Rows(3, "r", "rd_frs1_frs2")
  \o Rows(2, "r_m", "rm_rd_frs1") \o Rows(2, "r_m", "rm_frd_rs1") \o Rows(1, "r", "rd_frs1")
  \o Rows(2, "r_m", "rm_rd_frs1") \o Rows(2, "r_m", "rm_frd_rs1") \o Rows(1, "r", "rd_frs1")
  \o Rows(1, "r", "frd_rs1")

opcode_data_c ==
  Rows(1, "ciw_4spn", "rd_rs1_imm") \o Rows(1, "cl_ld", "frd_offset_rs1")
  \o Rows(1, "cl_lw", "rd_offset_rs1") \o Rows(1, "cl_lw", "frd_offset_rs1")
  \o Rows(1, "cs_sd", "frs2_offset_rs1") \o Rows(1, "cs_sw", "rs2_offset_rs1")
  \o Rows(1, "cs_sw", "frs2_offset_rs1") \o Rows(1, "ci_none", "none")
  \o Rows(1, "ci", "rd_rs1_imm") \o Rows(1, "cj_jal", "rd_offset")
  \o Rows(1, "ci_li", "rd_rs1_imm") \o Rows(1, "ci_16sp", "rd_rs1_imm")
  \o Rows(1, "ci_lui", "rd_imm") \o Rows(2, "cb_sh6", "rd_rs1_imm")
  \o Rows(1, "cb_imm", "rd_rs1_imm") \o Rows(6, "cs", "rd_rs1_rs2")
  \o Rows(1, "cj", "rd_offset") \o Rows(2, "cb", "rs1_rs2_offset")
  \o Rows(1, "ci_sh6", "rd_rs1_imm") \o Rows(1, "ci_ldsp", "frd_offset_rs1")
  \o Rows(1, "ci_lwsp", "rd_offset_rs1") \o Rows(1, "ci_lwsp", "frd_offset_rs1")
  \o Rows(1, "cr_jr", "rd_rs1_offset") \o Rows(1, "cr_mv", "rd_rs1_rs2")
  \o Rows(1, "ci_none", "none") \o Rows(1, "cr_jalr", "rd_rs1_offset")
  \o Rows(1, "cr", "rd_rs1_rs2") \o Rows(1, "css_sdsp", "frs2_offset_rs1")
  \o Rows(1, "css_swsp", "rs2_offset_rs1") \o Rows(1, "css_swsp", "frs2_offset_rs1")
  \o Rows(1, "cl_ld", "rd_offset_rs1") \o Rows(1, "cs_sd", "rs2_offset_rs1")
  \o Rows(1, "ci", "rd_rs1_imm") \o Rows(1, "ci_ldsp", "rd_offset_rs1")
  \o Rows(1, "css_sdsp", "rs2_offset_rs1") \o Rows(1, "cl_lq", "rd_offset_rs1")
  \o Rows(1, "cs_sq", "rs2_offset_rs1") \o Rows(1, "ci_lqsp", "rd_offset_rs1")
  \o Rows(1, "css_sqsp", "rs2_offset_rs1")

opcode_data_pseudo ==
  Rows(1, "i", "none") \o Rows(2, "i", "rd_rs1") \o Rows(2, "r", "rd_rs2")
  \o Rows(2, "i", "rd_rs1") \o Rows(1, "r", "rd_rs2") \o Rows(1, "r", "rd_rs1")
  \o Rows(1, "r", "rd_rs2") \o Rows(9, "r", "rd_rs1") \o Rows(2, "sb", "rs1_offset")
  \o Rows(1, "sb", "rs2_offset") \o Rows(2, "sb", "rs1_offset")
  \o Rows(1, "sb", "rs2_offset") \o Rows(4, "sb", "rs2_rs1_offset")
  \o Rows(1, "uj", "offset") \o Rows(1, "i", "none") \o Rows(1, "i", "rs1")
  \o Rows(9, "i_csr", "rd") \o Rows(3, "i_csr", "rd_rs1") \o Rows(2, "i_csr", "rd_zimm")

opcode_data ==
  LET rows == opcode_data_int \o opcode_data_amo \o opcode_data_amo \o opcode_data_amo
              \o opcode_data_sys \o opcode_data_float_s \o opcode_data_float_d
              \o opcode_data_float_q \o opcode_data_c \o opcode_data_pseudo
  IN  rv_op[1] :> rows[1]
      @@ [o \in {rv_op[k] : k \in DOMAIN rv_op} |-> rows[CHOOSE k \in DOMAIN rv_op : rv_op[k] = o]]
-----------------------------------------------------------------------------
(* What rvc_constraint asks of an operand; rvc_rs2_eq_rs1 compares two.    *)
Constraint ==
  [rd_eq_ra |-> <<"rd", 1>>, rd_eq_x0 |-> <<"rd", 0>>, rs1_eq_x0 |-> <<"rs1", 0>>,
   rs2_eq_x0 |-> <<"rs2", 0>>, rs1_eq_ra |-> <<"rs1", 1>>, imm_eq_zero |-> <<"imm", 0>>,
   imm_eq_n1 |-> <<"imm", -1>>, imm_eq_p1 |-> <<"imm", 1>>, csr_eq_0x001 |-> <<"imm", 1>>,
   csr_eq_0x002 |-> <<"imm", 2>>, csr_eq_0x003 |-> <<"imm", 3>>,
   csr_eq_0xc00 |-> <<"imm", \hc00>>, csr_eq_0xc01 |-> <<"imm", \hc01>>,
   csr_eq_0xc02 |-> <<"imm", \hc02>>, csr_eq_0xc80 |-> <<"imm", \hc80>>,
   csr_eq_0xc81 |-> <<"imm", \hc81>>, csr_eq_0xc82 |-> <<"imm", \hc82>>]

(* The pseudo-instructions an operation may print as, the first first, and *)
(* the constraints under which it does.                                    *)
As(o, constraints) == [op |-> o, constraints |-> constraints]

rvcp_jump ==
  [jal |-> <<As("j", {"rd_eq_x0"}), As("jal", {"rd_eq_ra"})>>,
   jalr |-> <<As("ret", {"rd_eq_x0", "rs1_eq_ra"}), As("jr", {"rd_eq_x0", "imm_eq_zero"}),
              As("jalr", {"rd_eq_ra", "imm_eq_zero"})>>,
   beq |-> <<As("beqz", {"rs2_eq_x0"})>>, bne |-> <<As("bnez", {"rs2_eq_x0"})>>,
   blt |-> <<As("bltz", {"rs2_eq_x0"}), As("bgtz", {"rs1_eq_x0"}), As("bgt", {})>>,
   bge |-> <<As("blez", {"rs1_eq_x0"}), As("bgez", {"rs2_eq_x0"}), As("ble", {})>>,
   bltu |-> <<As("bgtu", {})>>, bgeu |-> <<As("bleu", {})>>]
rvcp_arith ==
  [addi |-> <<As("nop", {"rd_eq_x0", "rs1_eq_x0", "imm_eq_zero"}), As("mv", {"imm_eq_zero"})>>,
   sltiu |-> <<As("seqz", {"imm_eq_p1"})>>, xori |-> <<As("not", {"imm_eq_n1"})>>,
   sub |-> <<As("neg", {"rs1_eq_x0"})>>,
   slt |-> <<As("sltz", {"rs2_eq_x0"}), As("sgtz", {"rs1_eq_x0"})>>,
   sltu |-> <<As("snez", {"rs1_eq_x0"})>>, addiw |-> <<As("sext_w", {"imm_eq_zero"})>>,
   subw |-> <<As("negw", {"rs1_eq_x0"})>>]
rvcp_csr ==
  [csrrw |-> <<As("fscsr", {"csr_eq_0x003"}), As("fsrm", {"csr_eq_0x002"}),
               As("fsflags", {"csr_eq_0x001"})>>,
   csrrs |-> <<As("rdcycle", {"rs1_eq_x0", "csr_eq_0xc00"}),
               As("rdtime", {"rs1_eq_x0", "csr_eq_0xc01"}),
               As("rdinstret", {"rs1_eq_x0", "csr_eq_0xc02"}),
               As("rdcycleh", {"rs1_eq_x0", "csr_eq_0xc80"}),
               As("rdtimeh", {"rs1_eq_x0", "csr_eq_0xc81"}),
               As("rdinstreth", {"rs1_eq_x0", "csr_eq_0xc82"}),
               As("frcsr", {"rs1_eq_x0", "csr_eq_0x003"}),
               As("frrm", {"rs1_eq_x0", "csr_eq_0x002"}),
               As("frflags", {"rs1_eq_x0", "csr_eq_0x001"})>>,
   csrrwi |-> <<As("fsrmi", {"csr_eq_0x002"}), As("fsflagsi", {"csr_eq_0x001"})>>]
rvcp_float ==
  LET same(o) == <<As(o, {"rs2_eq_rs1"})>>
  IN  [fsgnj_s |-> same("fmv_s"), fsgnjn_s |-> same("fneg_s"), fsgnjx_s |-> same("fabs_s"),
       fsgnj_d |-> same("fmv_d"), fsgnjn_d |-> same("fneg_d"), fsgnjx_d |-> same("fabs_d"),
       fsgnj_q |-> same("fmv_q"), fsgnjn_q |-> same("fneg_q"), fsgnjx_q |-> same("fabs_q")]

pseudo == rvcp_jump @@ rvcp_arith @@ rvcp_csr @@ rvcp_float

-----------------------------------------------------------------------------
(* decomp_rv32, decomp_rv64 and decomp_rv128 of a compressed operation,    *)
(* "illegal" where it has none.                                            *)
Decomp(a, b, c) == [rv32 |-> a, rv64 |-> b, rv128 |-> c]
Always(o) == Decomp(o, o, o)
decomp ==
  LET none == "illegal" IN
  [c_addi4spn |-> Always("addi"), c_fld |-> Decomp("fld", "fld", none), c_lw |-> Always("lw"),
   c_flw |-> Decomp("flw", none, none), c_fsd |-> Decomp("fsd", "fsd", none),
   c_sw |-> Always("sw"), c_fsw |-> Decomp("fsw", none, none), c_nop |-> Always("addi"),
   c_addi |-> Always("addi"), c_jal |-> Decomp("jal", none, none), c_li |-> Always("addi"),
   c_addi16sp |-> Always("addi"), c_lui |-> Always("lui"), c_srli |-> Always("srli"),
   c_srai |-> Always("srai"), c_andi |-> Always("andi"), c_sub |-> Always("sub"),
   c_xor |-> Always("xor"), c_or |-> Always("or"), c_and |-> Always("and"),
   c_subw |-> Always("subw"), c_addw |-> Always("addw"), c_j |-> Always("jal"),
   c_beqz |-> Always("beq"), c_bnez |-> Always("bne"), c_slli |-> Always("slli"),
   c_fldsp |-> Always("fld"), c_lwsp |-> Always("lw"), c_flwsp |-> Decomp("flw", none, none),
   c_jr |-> Always("jalr"), c_mv |-> Always("addi"), c_ebreak |-> Always("ebreak"),
   c_jalr |-> Always("jalr"), c_add |-> Always("add"), c_fsdsp |-> Always("fsd"),
   c_swsp |-> Always("sw"), c_fswsp |-> Decomp("fsw", none, none),
   c_ld |-> Decomp(none, "ld", "ld"), c_sd |-> Decomp(none, "sd", "sd"),
   c_addiw |-> Decomp(none, "addiw", "addiw"), c_ldsp |-> Decomp(none, "ld", "ld"),
   c_sdsp |-> Decomp(none, "sd", "sd"), c_lq |-> Decomp(none, none, "lq"),
   c_sq |-> Decomp(none, none, "sq"), c_lqsp |-> Decomp(none, none, "lq"),
   c_sqsp |-> Decomp(none, none, "sq")]

(* rvcd_imm_nz: a zero immediate makes the operation illegal.              *)
rvcd_imm_nz == {"c_addi4spn", "c_addi16sp", "c_lui", "c_srli", "c_srai", "c_andi", "c_slli"}

-----------------------------------------------------------------------------
(* csr_name.  Block(n, names): CSRs numbered from n on; Counters(n, ...):  *)
(* the counters a to b, counter k at n + k.                                *)
Block(n, names) == [k \in n .. n + Len(names) - 1 |-> names[k - n + 1]]
Counters(n, a, b, prefix, suffix) ==
  [k \in n + a .. n + b |-> prefix \o ToString(k - n) \o suffix]

csr_name_user ==
  Block(0, <<"ustatus", "fflags", "frm", "fcsr", "uie", "utvec">>)
  @@ Block(7, <<"utvt", "vstart", "vxsat", "vxrm">>) @@ Block(\hf, <<"vcsr">>)
  @@ Block(\h40, <<"uscratch", "uepc", "ucause", "utval", "uip", "unxti", "uintstatus">>)
  @@ Block(\h48, <<"uscratchcsw", "uscratchcswl">>) @@ Block(\h100, <<"sstatus">>)
  @@ Block(\h102, <<"sedeleg", "sideleg", "sie", "stvec", "scounteren", "stvt">>)
  @@ Block(\h140, <<"sscratch", "sepc", "scause", "stval", "sip", "snxti", "sintstatus">>)
  @@ Block(\h148, <<"sscratchcsw", "sscratchcswl">>) @@ Block(\h180, <<"satp">>)
  @@ Block(\h200, <<"vsstatus">>) @@ Block(\h204, <<"vsie", "vstvec">>)
  @@ Block(\h240, <<"vsscratch", "vsepc", "vscause", "vstval", "vsip">>)
  @@ Block(\h280, <<"vsatp">>)
csr_name_machine ==
  Block(\h300, <<"mstatus", "misa", "medeleg", "mideleg", "mie", "mtvec", "mcounteren", "mtvt">>)
  @@ Block(\h310, <<"mstatush">>) @@ Block(\h320, <<"mcountinhibit">>)
  @@ Counters(\h320, 3, 31, "mhpmevent", "")
  @@ Block(\h340, <<"mscratch", "mepc", "mcause", "mtval", "mip", "mnxti", "mintstatus">>)
  @@ Block(\h348, <<"mscratchcsw", "mscratchcswl", "mtinst", "mtval2">>)
  @@ Counters(\h3a0, 0, 3, "pmpcfg", "") @@ Counters(\h3b0, 0, 15, "pmpaddr", "")
  @@ Block(\h600, <<"hstatus">>)
  @@ Block(\h602, <<"hedeleg", "hideleg", "hie", "htimedelta", "hcounteren", "hgeie">>)
  @@ Block(\h615, <<"htimedeltah">>) @@ Block(\h643, <<"htval", "hip", "hvip">>)
  @@ Block(\h64a, <<"htinst">>) @@ Block(\h680, <<"hgatp">>)
csr_name_debug ==
  Block(\h7a0, <<"tselect", "tdata1", "tdata2", "tdata3", "tinfo", "tcontrol">>)
  @@ Block(\h7a8, <<"mcontext", "mnoise", "scontext">>)
  @@ Block(\h7b0, <<"dcsr", "dpc", "dscratch0", "dscratch1">>)
  @@ Block(\hb00, <<"mcycle">>) @@ Block(\hb02, <<"minstret">>)
  @@ Counters(\hb00, 3, 31, "mhpmcounter", "")
  @@ Block(\hb80, <<"mcycleh">>) @@ Block(\hb82, <<"minstreth">>)
  @@ Counters(\hb80, 3, 31, "mhpmcounter", "h")
csr_name_counter ==
  Block(\hc00, <<"cycle", "time", "instret">>) @@ Counters(\hc00, 3, 31, "hpmcounter", "")
  @@ Block(\hc20, <<"vl", "vtype", "vlenb">>)
  @@ Block(\hc80, <<"cycleh", "timeh", "instreth">>)
  @@ Counters(\hc80, 3, 31, "hpmcounter", "h") @@ Block(\he12, <<"hgeip">>)
  @@ Block(\hf11, <<"mvendorid", "marchid", "mimpid", "mhartid", "mentropy">>)

csr_name == csr_name_user @@ csr_name_machine @@ csr_name_debug @@ csr_name_counter
=============================================================================

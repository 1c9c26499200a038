--------------------------- MODULE MCInstructionSet ---------------------------
(* InstructionSet on every compressed word and on samples of the others     *)
(* that reach every major opcode, function field and CSR.                   *)
EXTENDS InstructionSet, FiniteSets

Short == {lo \in 0 .. 65535 : lo % 4 # 3}
Long(major, rd, f3, rs1, rs2, f7) ==
  Word(f7 * 512 + rs2 * 16 + rs1 \div 2,
       (rs1 % 2) * 32768 + f3 * 4096 + rd * 128 + major * 4 + 3)

(* Every major opcode and funct3 with one other bit set, none, or all.     *)
OneBit ==
  LET lone == {2 ^ k : k \in 0 .. 4}
      fields == {<<0, 0, 0, 0>>, <<31, 31, 31, 127>>} \union {<<b, 0, 0, 0>> : b \in lone}
                \union {<<0, b, 0, 0>> : b \in lone} \union {<<0, 0, b, 0>> : b \in lone}
                \union {<<0, 0, 0, 2 ^ k>> : k \in 0 .. 6}
  IN  {Long(m, f[1], f3, f[2], f[3], f[4]) : m \in 0 .. 31, f3 \in 0 .. 7, f \in fields}
(* Every function field of the arithmetic opcodes and fused operations.    *)
Arithmetic ==
  {Long(m, 1, f3, 2, rs2, f7) : m \in {4, 12, 20}, f3 \in 0 .. 7, rs2 \in {0, 1, 3}, f7 \in 0 .. 127}
Fused == {Long(m, 1, f3, 2, 3, f7) : m \in 16 .. 19, f3 \in {0, 7}, f7 \in 0 .. 127}
(* Every CSR read; the floating-point ones written; system instructions.   *)
CsrReads == {Long(28, 1, 2, 0, rs2, f7) : rs2 \in 0 .. 31, f7 \in 0 .. 127}
CsrWrites ==
  {Long(28, rd, f3, rs1, n, 0) : rd \in {0, 1}, f3 \in 1 .. 7, rs1 \in {0, 1}, n \in 1 .. 3}
Privileged ==
  {Long(28, rd, 0, rs1, rs2, f7) : rd \in {0, 1}, rs1 \in {0, 1}, rs2 \in {0, 1, 2, 4, 5, 18},
                                   f7 \in {0, 8, 9, 16, 24, 61}}
(* The operands that make a pseudo-instruction, and their neighbours.      *)
Specials ==
  {Long(m, rd, f3, rs1, f[1], f[2]) :
     m \in {4, 6, 12, 14, 20, 24, 25}, rd \in {0, 1, 5}, f3 \in 0 .. 7, rs1 \in {0, 1, 5},
     f \in {<<0, 0>>, <<1, 0>>, <<5, 0>>, <<31, 127>>, <<0, 32>>, <<1, 32>>, <<5, 32>>,
            <<1, 16>>, <<5, 16>>, <<1, 17>>, <<1, 19>>}}

(* The core gets a compressed word with the half that follows it in memory.*)
MCWords(x) ==
  <<{Word(0, lo) : lo \in Short}, Specials>>
  \o IF x = "rv32" THEN <<{Word(65535, lo) : lo \in Short}, OneBit, Arithmetic, Fused,
                             CsrReads, CsrWrites, Privileged>> ELSE <<>>

(* What memory holds after a short instruction, and longer lengths.        *)
MCFetched(x) == {Word(65535, lo) : lo \in {0, 1, 2, \h4002, \h9002, 31, 63, 127, 32787}}
=============================================================================

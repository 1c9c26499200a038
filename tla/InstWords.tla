------------------------------ MODULE InstWords ------------------------------
(***************************************************************************)
(* An instruction word of 32 bits as a pair of 16-bit halves, and the part *)
(* selects the disassembler and the decoder read it with.                  *)
(***************************************************************************)
EXTENDS Integers

Word(hi, lo) == [hi |-> hi, lo |-> lo]

(* Bits h to l of a word, as a number.                                     *)
Bits(w, h, l) ==
  IF h < 16 THEN (w.lo \div 2 ^ l) % 2 ^ (h - l + 1)
  ELSE IF l >= 16 THEN (w.hi \div 2 ^ (l - 16)) % 2 ^ (h - l + 1)
  ELSE (w.lo \div 2 ^ l) + (w.hi % 2 ^ (h - 15)) * 2 ^ (16 - l)

(* Those bits moved to position p, and the same with the top bit a sign.   *)
At(w, h, l, p) == Bits(w, h, l) * 2 ^ p
Sext(w, h, l, p) ==
  (Bits(w, h, l) - (IF Bits(w, h, h) = 1 THEN 2 ^ (h - l + 1) ELSE 0)) * 2 ^ p
=============================================================================

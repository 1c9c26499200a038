-------------------------- MODULE InstructionStream --------------------------
(***************************************************************************)
(* What the fetch queue and the issue buffer promise together, whatever    *)
(* the banks, rotations and compaction do: instructions wait in one        *)
(* sequence, in the order in which they were fetched; those among the      *)
(* first OOO_DEPTH may issue, in any order, except that a CSR instruction  *)
(* issues alone and as the oldest; a cancel empties the sequence.          *)
(***************************************************************************)
EXTENDS Integers, Sequences, FiniteSets

CONSTANTS Inst, OOO_DEPTH, Csr(_)

VARIABLE todo       \* fetched and not issued, oldest first

Init == todo = <<>>

MayIssue(s) ==
  /\ s \subseteq DOMAIN todo
  /\ \A n \in s : \A m \in 1 .. n : Csr(todo[m]) => m = 1 /\ s = {1}

(* What is left when the positions in s issue.                             *)
Without(s) ==
  LET stay == DOMAIN todo \ s
  IN  [k \in 1 .. Cardinality(stay) |->
         todo[CHOOSE n \in stay : Cardinality({m \in stay : m <= n}) = k]]

(* The positions in s issue, and a line arrives behind the rest.           *)
Flow(s) ==
  LET rest == Without(s)
  IN  /\ MayIssue(s)
      /\ todo' \in Seq(Inst)
      /\ Len(todo') >= Len(rest) /\ SubSeq(todo', 1, Len(rest)) = rest

Cancel == todo' = <<>>

Next == Cancel \/ \E s \in SUBSET (1 .. OOO_DEPTH) : Flow(s)

Spec == Init /\ [][Next]_todo
=============================================================================

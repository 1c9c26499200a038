-------------------------- MODULE SequentialMachine --------------------------
(***************************************************************************)
(* What the core promises the program: instructions take effect one after  *)
(* the other, each at the address its predecessor leads to.  The clock may *)
(* retire several of them at once, never out of order and never past a     *)
(* misprediction.  The state is the address of the next instruction.       *)
(***************************************************************************)
EXTENDS Naturals

CONSTANTS
  Pc,                  \* instruction addresses
  ResetPcs,            \* where it may start
  Succ,                \* for each address, the addresses execution may go to
  COMMIT_REL_CHANNEL   \* instructions retired in one cycle at most

VARIABLE next_pc

Init == next_pc \in ResetPcs

(* k instructions, starting at next_pc, each a successor of the one before *)
Retire(k) ==
  \E path \in [0 .. k -> Pc] :
    /\ path[0] = next_pc
    /\ \A i \in 1 .. k : path[i] \in Succ[path[i - 1]]
    /\ next_pc' = path[k]

Next == \E k \in 1 .. COMMIT_REL_CHANNEL : Retire(k)

Spec == Init /\ [][Next]_next_pc
=============================================================================

--------------------------- MODULE MCLoadStoreUnit ---------------------------
(* Values of the constants of LoadStoreUnit for model checking.            *)
EXTENDS LoadStoreUnit

Access(ld, addr, strb) == [ld |-> ld, addr |-> addr, strb |-> strb]

OneByte == {0}
TwoBytes == {0, 1}

(* Loads and stores of one byte; stores only.                              *)
Words == {Access(ld, 0, 1) : ld \in BOOLEAN}
StoreWords == {a \in Words : ~a.ld}

(* Loads of one byte; stores of it, and of it and the next.                *)
StoreSizes == {Access(TRUE, 0, 1), Access(FALSE, 0, 1), Access(FALSE, 0, 2)}

(* Loads of one byte and of two; stores of one.                            *)
LoadSizes == {Access(TRUE, 0, 1), Access(TRUE, 0, 2), Access(FALSE, 0, 1)}

(* A store into the middle of what a load reads.                           *)
Overlap == {Access(TRUE, 0, 2), Access(FALSE, 1, 1)}

(* Workloads of the runs.                                                  *)
Workload(accesses, values, in_flight, stores, loads) ==
  [accesses |-> accesses, values |-> values, in_flight |-> in_flight, stores |-> stores,
   loads |-> loads]
Mixed == Workload(StoreSizes, 2, 3, 2, 2)
ManyStores == Workload(StoreWords, 3, 6, 8, 8)
MixedAndMany == {Mixed, ManyStores}
ManyWords == {Workload(Words, 3, 4, 4, 4)}
FewOps == {Workload(StoreSizes, 1, 2, 2, 2)}
FewLoads == {Workload(LoadSizes, 1, 3, 1, 2)}

(* The runs in which the properties hold satisfy what the theorems suppose *)
(* of a program, the two in which one fails do not.                        *)
ASSUME ClearRuns ==
  /\ Workloads \in {MixedAndMany, FewOps} => AllClear /\ DrainInTime /\ StartTogether
  /\ Workloads \in {ManyWords, FewLoads} => ~AllClear
=============================================================================

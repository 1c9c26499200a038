------------------------------ MODULE LsuBuffer ------------------------------
(***************************************************************************)
(* The input buffer of the load/store unit: toy_lsu_buffer.                *)
(*                                                                         *)
(* Operations arrive in program order, wait in a circular buffer, here a   *)
(* sequence, and are offered two at a time: the stores of the oldest two   *)
(* to the store queue, the loads to the load queue.  A credit counter per  *)
(* queue says whether it has room.                                         *)
(*                                                                         *)
(* An operation is a record [id, ld, addr, strb, data]: strb is the number *)
(* of bytes it touches and data their values, the ones stored or, for a    *)
(* load, the ones it must return.  Definitions named X_M are mutated forms *)
(* of X, used to show that the properties notice a plausible error in X.   *)
(***************************************************************************)
EXTENDS Integers, Sequences, FiniteSets

CONSTANTS
  LSU_DEPTH,  \* operations the buffer holds (16)
  S_CHANNEL,  \* operations arriving per cycle at most (4)
  STU_DEPTH,  \* entries of the store queue (32)
  LDU_DEPTH   \* entries of the load queue (32)

ASSUME LsuBufferAssumption ==
  /\ S_CHANNEL \in Nat \ {0} /\ LSU_DEPTH \in Nat /\ S_CHANNEL < LSU_DEPTH
  /\ STU_DEPTH \in Nat /\ LDU_DEPTH \in Nat /\ STU_DEPTH > 2 /\ LDU_DEPTH > 2

VARIABLES
  lsu_buf,         \* v_pld_mem between rd_ptr and wr_ptr
  stu_credit_cnt,  \* entries of the store queue that may be used
  ldu_credit_cnt   \* entries of the load queue that may be used

BufferInit ==
  /\ lsu_buf = <<>>
  /\ stu_credit_cnt = STU_DEPTH
  /\ ldu_credit_cnt = LDU_DEPTH

v_s_lsu_rdy_M == LSU_DEPTH - Len(lsu_buf) >= S_CHANNEL - 1
v_s_lsu_rdy == LSU_DEPTH - Len(lsu_buf) >= S_CHANNEL

(* What the two oldest operations offer.  lsid tells whether an operation  *)
(* is the second of the two.                                               *)
HeadPair == SubSeq(lsu_buf, 1, IF Len(lsu_buf) < 2 THEN Len(lsu_buf) ELSE 2)
lsid(op) == op # HeadPair[1]

(* Where a sequence has its loads, or its stores; those of the two oldest. *)
Of(ops, ld) == {k \in 1 .. Len(ops) : ops[k].ld = ld}
Offered(ld) ==
  LET pair == HeadPair
      at   == Of(pair, ld)
  IN  IF at = 1 .. Len(pair) THEN pair
      ELSE [k \in 1 .. Cardinality(at) |-> pair[CHOOSE j \in at : TRUE]]

StuOffer_M == IF stu_credit_cnt > 0 THEN Offered(FALSE) ELSE <<>>
StuOffer == IF stu_credit_cnt > 1 THEN Offered(FALSE) ELSE <<>>
LduOffer == IF ldu_credit_cnt > 1 THEN Offered(TRUE) ELSE <<>>

(* stores and loads: how many of the offers the queues take; rd: whether   *)
(* the load queue frees an entry, drain: whether the store queue does.     *)
NextBuffer_M(new, stores, loads, cancel_en) ==
  lsu_buf' = SubSeq(lsu_buf, stores + loads + 1, Len(lsu_buf)) \o new

NextBuffer(new, stores, loads, cancel_en) ==
  lsu_buf' = IF cancel_en THEN <<>>
             ELSE SubSeq(lsu_buf, stores + loads + 1, Len(lsu_buf)) \o new

NextCredits_M(stores, loads, rd, drain, cancel_en, committed) ==
  /\ stu_credit_cnt' = IF cancel_en THEN STU_DEPTH
                       ELSE stu_credit_cnt + (IF drain THEN 1 ELSE 0) - stores
  /\ ldu_credit_cnt' = IF cancel_en THEN LDU_DEPTH
                       ELSE ldu_credit_cnt + (IF rd THEN 1 ELSE 0) - loads

NextCredits(stores, loads, rd, drain, cancel_en, committed) ==
  /\ stu_credit_cnt' = IF cancel_en THEN STU_DEPTH - committed
                       ELSE stu_credit_cnt + (IF drain THEN 1 ELSE 0) - stores
  /\ ldu_credit_cnt' = IF cancel_en THEN LDU_DEPTH
                       ELSE ldu_credit_cnt + (IF rd THEN 1 ELSE 0) - loads
=============================================================================

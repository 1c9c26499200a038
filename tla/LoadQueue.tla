------------------------------ MODULE LoadQueue ------------------------------
(***************************************************************************)
(* The load queue: toy_ldq with toy_ldq_branch_filter.  Loads enter in     *)
(* program order.  One that a store answers only passes through; another   *)
(* asks memory, the oldest first, at once if nobody waits.  Requests carry *)
(* the queue entry and a branch id that every cancel changes.              *)
(***************************************************************************)
EXTENDS StoreQueue

CONSTANT BRANCH_NUM      \* branch ids run from 1 to this (7: 3 bits, 0 unused)

ASSUME BranchAssumption == BRANCH_NUM \in Nat /\ BRANCH_NUM > 1

VARIABLES
  ldq_pld,               \* v_entry_pld, NONE when nothing can read it
  ldq_en,                \* v_entry_en
  stq_flag,              \* v_entry_stq_flag: answered by a store, may leave
  stq_ack,               \* v_stq_ack_flag: answered by a store, asks no memory
  mem_req,               \* v_entry_mem_req: has asked memory
  mem_ack,               \* v_entry_mem_ack: has its answer
  ldq_wr_ptr, ldq_rd_ptr,
  req_branch_id,
  answer                 \* what memory delivers in this cycle, or NONE

ldq == <<ldq_pld, ldq_en, stq_flag, stq_ack, mem_req, mem_ack, ldq_wr_ptr, ldq_rd_ptr,
         req_branch_id>>

Ldq == 0 .. LDU_DEPTH - 1

LdqInit ==
  /\ ldq_pld = [i \in Ldq |-> NONE]
  /\ ldq_en = [i \in Ldq |-> FALSE]
  /\ stq_flag = [i \in Ldq |-> FALSE]
  /\ stq_ack = [i \in Ldq |-> FALSE]
  /\ mem_req = [i \in Ldq |-> FALSE]
  /\ mem_ack = [i \in Ldq |-> FALSE]
  /\ ldq_wr_ptr = 0 /\ ldq_rd_ptr = 0
  /\ req_branch_id = 1

-----------------------------------------------------------------------------
LdqEntry(k) == (ldq_wr_ptr + k - 1) % LDU_DEPTH  \* entry of the k-th load taken

(* The branch id of requests and expected answers in this cycle.           *)
req_branch_id_nxt(cancel_edge_en) ==
  IF ~cancel_edge_en THEN req_branch_id
  ELSE IF req_branch_id = BRANCH_NUM THEN 1 ELSE req_branch_id + 1

branch_ack_vld(cancel_edge_en) ==
  /\ answer # NONE
  /\ answer.branch \in {req_branch_id, req_branch_id_nxt(cancel_edge_en)}

(* The memory request: the entry that has waited longest, the load just    *)
(* arriving if none waits, or NONE.                                        *)
v_mem_not_req == {i \in Ldq : ldq_en[i] /\ ~mem_req[i] /\ ~stq_ack[i]}
Waited(i) == (i + LDU_DEPTH - ldq_wr_ptr) % LDU_DEPTH

Request_M == IF LoadsTaken > 0 /\ ~v_ldq_ack_flag(1) THEN ldq_wr_ptr ELSE NONE
Request ==
  LET waiting == v_mem_not_req
  IN  IF waiting # {} THEN CHOOSE i \in waiting : \A j \in waiting : Waited(i) <= Waited(j)
      ELSE IF LoadsTaken > 0 /\ ~v_ldq_ack_flag(1) THEN ldq_wr_ptr
      ELSE NONE

RequestPld(request) == IF request \in v_mem_not_req THEN ldq_pld[request] ELSE LduOffer[1]

ldq_rd_en ==
  /\ ldq_en[ldq_rd_ptr]
  /\ (mem_req[ldq_rd_ptr] /\ mem_ack[ldq_rd_ptr]) \/ stq_flag[ldq_rd_ptr]

(* loads: how many are taken; request: the entry asking memory, or NONE.   *)
(* stq_ack is set for an answered load even if it is held back, stq_flag   *)
(* only if the first load is taken.                                        *)
NextLdqFlags(loads, request, acked, cancel_en) ==
  LET written == {LdqEntry(k) : k \in 1 .. loads}
      met     == {LdqEntry(k) : k \in {j \in 1 .. 2 : v_ldq_ack_flag(j)}}
      leaving == IF ldq_rd_en THEN {ldq_rd_ptr} ELSE {}
      kept(set, old) == [i \in Ldq |-> ~cancel_en /\ (i \in set \/ (old[i] /\ i \notin leaving))]
  IN  /\ ldq_en' = kept(written, ldq_en)
      /\ stq_flag' = kept(IF loads > 0 THEN met ELSE {}, stq_flag)
      /\ stq_ack' = kept(met, stq_ack)
      /\ mem_req' = kept({request}, mem_req)
      /\ mem_ack' = kept(IF acked THEN {answer.entry} ELSE {}, mem_ack)

NextLdqPld(loads, request) ==
  ldq_pld' = [i \in Ldq |->
    IF ~ldq_en'[i] /\ i # request THEN NONE
    ELSE IF \E k \in 1 .. loads : i = LdqEntry(k)
         THEN LduOffer[CHOOSE k \in 1 .. loads : i = LdqEntry(k)]
    ELSE ldq_pld[i]]

NextLdqPtr(loads, cancel_edge_en, cancel_en) ==
  /\ ldq_wr_ptr' = IF cancel_en THEN 0 ELSE (ldq_wr_ptr + loads) % LDU_DEPTH
  /\ ldq_rd_ptr' = IF cancel_en THEN 0
                   ELSE (ldq_rd_ptr + (IF ldq_rd_en THEN 1 ELSE 0)) % LDU_DEPTH
  /\ req_branch_id' = req_branch_id_nxt(cancel_edge_en)
=============================================================================

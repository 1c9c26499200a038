----------------------------- MODULE StoreQueue -----------------------------
(***************************************************************************)
(* The store queue: toy_stq.  Stores enter in program order, wait for      *)
(* retirement, and are written to memory in order afterwards.  Loads that  *)
(* are offered with them are compared with the stores by exact address;    *)
(* the youngest equal one answers the load if it has the load's size, and  *)
(* holds it back if not.                                                   *)
(*                                                                         *)
(* A payload is NONE when neither of the entry's flags is up: it is not    *)
(* read again before it is overwritten.                                    *)
(***************************************************************************)
EXTENDS LsuBuffer

CONSTANT NONE            \* a model value

VARIABLES
  stq_pld,               \* v_entry_pld
  stq_en,                \* v_entry_en: loads compare with it
  stq_commit,            \* v_entry_commit: retired, to be written
  stq_wr_ptr, stq_rd_ptr,
  wr_ptr_commit,         \* where the next retiring store is
  stq_commit_cnt         \* retired and not yet written, modulo the depth

stq == <<stq_pld, stq_en, stq_commit, stq_wr_ptr, stq_rd_ptr, wr_ptr_commit, stq_commit_cnt>>

Stq == 0 .. STU_DEPTH - 1

StqInit ==
  /\ stq_pld = [i \in Stq |-> NONE]
  /\ stq_en = [i \in Stq |-> FALSE]
  /\ stq_commit = [i \in Stq |-> FALSE]
  /\ stq_wr_ptr = 0 /\ stq_rd_ptr = 0 /\ wr_ptr_commit = 0 /\ stq_commit_cnt = 0

-----------------------------------------------------------------------------
(* The load hazard.  Entries are searched backwards from the write pointer.*)
Behind(i) == (stq_wr_ptr + STU_DEPTH - 1 - i) % STU_DEPTH
SameAddr(ld) == {i \in Stq : stq_en[i] /\ stq_pld[i].addr = ld.addr}
Youngest(S) == CHOOSE i \in S : \A j \in S : Behind(i) <= Behind(j)

(* A store offered together with the load and older than it.               *)
SameCycle_M == FALSE
SameCycle ==
  LET loads  == LduOffer
      stores == StuOffer
  IN  loads # <<>> /\ stores # <<>> /\ lsid(loads[1]) /\ stores[1].addr = loads[1].addr

(* The store the k-th offered load meets.                                  *)
Met(k) ==
  IF k = 1 /\ SameCycle THEN StuOffer[1]
  ELSE LET same == SameAddr(LduOffer[k])
       IN  IF same = {} THEN NONE ELSE stq_pld[Youngest(same)]

v_ldq_ack_flag(k) ==
  LET loads == LduOffer
      met   == Met(k)
  IN  k <= Len(loads) /\ met # NONE /\ met.strb = loads[k].strb

(* The second load's size is looked at only if the first meets no store.   *)
Blocked(k) ==
  /\ k <= Len(LduOffer) /\ Met(k) # NONE /\ ~v_ldq_ack_flag(k)
  /\ k = 2 => Met(1) = NONE

LoadsTaken_M == IF LduOffer # <<>> /\ Met(1) # NONE THEN 0 ELSE Len(LduOffer)
LoadsTaken == IF Blocked(1) THEN 0 ELSE IF Blocked(2) THEN 1 ELSE Len(LduOffer)

StoresTaken == IF Blocked(1) /\ ~lsid(LduOffer[1]) THEN 0 ELSE Len(StuOffer)

-----------------------------------------------------------------------------
StqEntry(k) == (stq_wr_ptr + k - 1) % STU_DEPTH  \* entry of the k-th store taken
s_mem_req_vld == stq_commit[stq_rd_ptr]

(* stores: how many are taken; n: how many retire, in the entries of the   *)
(* set retiring; drain: whether one is written to memory.                  *)
NextStqPtr_M(stores, n, drain, cancel_en) ==
  LET out == IF drain THEN 1 ELSE 0
  IN  /\ stq_wr_ptr' = (stq_wr_ptr + stores) % STU_DEPTH
      /\ wr_ptr_commit' = (wr_ptr_commit + n) % STU_DEPTH
      /\ stq_commit_cnt' = (stq_commit_cnt + n + STU_DEPTH - out) % STU_DEPTH
      /\ stq_rd_ptr' = (stq_rd_ptr + out) % STU_DEPTH

NextStqPtr(stores, n, drain, cancel_en) ==
  LET out == IF drain THEN 1 ELSE 0
  IN  /\ stq_wr_ptr' = IF cancel_en THEN wr_ptr_commit ELSE (stq_wr_ptr + stores) % STU_DEPTH
      /\ wr_ptr_commit' = (wr_ptr_commit + n) % STU_DEPTH
      /\ stq_commit_cnt' = (stq_commit_cnt + n + STU_DEPTH - out) % STU_DEPTH
      /\ stq_rd_ptr' = (stq_rd_ptr + out) % STU_DEPTH

NextStqFlags(stores, retiring, drain, cancel_en) ==
  LET written == {StqEntry(k) : k \in 1 .. stores}
      drained == IF drain THEN {stq_rd_ptr} ELSE {}
  IN  /\ stq_commit' = [i \in Stq |-> i \in retiring \/ (stq_commit[i] /\ i \notin drained)]
      /\ stq_en' = [i \in Stq |-> /\ cancel_en => stq_commit[i]
                                  /\ i \in written \/ (stq_en[i] /\ i \notin drained)]

NextStqPld(stores) ==
  stq_pld' = [i \in Stq |->
    IF ~stq_en'[i] /\ ~stq_commit'[i] THEN NONE
    ELSE IF \E k \in 1 .. stores : i = StqEntry(k)
         THEN StuOffer[CHOOSE k \in 1 .. stores : i = StqEntry(k)]
    ELSE stq_pld[i]]
=============================================================================

----------------------------- MODULE CommitQueue -----------------------------
(***************************************************************************)
(* In-order retirement: toy_commit, with the part of toy_fetch_queue2 that *)
(* hands out instruction ids and commit credits, and the latencies and     *)
(* cancel inputs of the execution units that write the queue.              *)
(*                                                                         *)
(* One step is one clock cycle.  The front end follows its own prediction; *)
(* an instruction gets an id when it leaves the fetch queue and waits (in  *)
(* the issue buffer or a load/store queue) until a unit executes it.  The  *)
(* oldest instructions retire together; the first whose predicted next     *)
(* address turns out wrong cancels everything younger.                     *)
(*                                                                         *)
(* An entry of the queue is its payload, or NONE while its flag is down.   *)
(* Definitions named X_M are mutated forms of X, used to show that the     *)
(* properties notice a plausible error in X.                               *)
(***************************************************************************)
EXTENDS Integers, FiniteSets

CONSTANTS
  COMMIT_QUEUE_DEPTH,  \* entries of the queue, and ids (64)
  INST_READ_CHANNEL,   \* instructions dispatched per cycle at most (8)
  COMMIT_REL_CHANNEL,  \* instructions retired per cycle at most (4)
  FP_STAGES,           \* wait count of the floating-point unit (6)
  Pc, ResetPcs, Succ,  \* the program: addresses, first ones, successors
  Predict,             \* for each address, where the front end may go next
  FpPc,                \* addresses of floating-point instructions
  NONE                 \* a model value: no payload

CANCEL_CNT_NUM == 1    \* extra cycles cancel_en stays up

Ids      == 0 .. COMMIT_QUEUE_DEPTH - 1
Channels == 0 .. COMMIT_REL_CHANNEL - 1
Inst     == [id : Ids, pc : Pc]
Result   == [id : Ids, inst_pc : Pc, inst_nxt_pc : Pc]

ASSUME CommitAssumption ==
  /\ COMMIT_QUEUE_DEPTH \in Nat /\ INST_READ_CHANNEL \in Nat \ {0}
  /\ COMMIT_REL_CHANNEL \in Nat \ {0} /\ FP_STAGES \in Nat \ {0}
  /\ INST_READ_CHANNEL < COMMIT_QUEUE_DEPTH
  /\ COMMIT_REL_CHANNEL <= COMMIT_QUEUE_DEPTH
  /\ ResetPcs \subseteq Pc /\ FpPc \subseteq Pc
  /\ NONE \notin Pc \cup Inst \cup Result
  /\ Succ \in [Pc -> (SUBSET Pc) \ {{}}] /\ Predict \in [Pc -> (SUBSET Pc) \ {{}}]

VARIABLES
  v_commit_queue,      \* per id: v_commit_queue_mem, NONE if not v_commit_queue_en
  v_be_pld,            \* per id: predicted next address, NONE if not v_pc_queue_en
  rd_ptr,              \* the oldest id
  cancel_cnt,
  real_next_pc,        \* where the last retired instruction led
  commit_credit_cnt, instruction_idx_reg,  \* toy_fetch_queue2
  fetch_pc,            \* address of the next instruction the front end delivers
  waiting,             \* dispatched, not yet in a fixed-latency unit
  mext_d,              \* toy_mext: pipeline stages 1 and 2
  multi_cycle_cnt,     \* toy_float_wrapper: cycles since the last issue
  multi_cycle_pld,     \* its input register
  fp_commit_pld_multi, \* its output register
  instruction_en_o_d, instruction_en_o,  \* its output valid, one and two cycles on
  csr_lock             \* toy_dispatch: a floating-point instruction is out

queue == <<v_commit_queue, v_be_pld, rd_ptr, cancel_cnt, real_next_pc>>
front == <<commit_credit_cnt, instruction_idx_reg, fetch_pc>>
float == <<multi_cycle_cnt, multi_cycle_pld, fp_commit_pld_multi,
           instruction_en_o_d, instruction_en_o, csr_lock>>
vars  == <<queue, front, waiting, mext_d, float>>

Init ==
  /\ v_commit_queue = [i \in Ids |-> NONE]
  /\ v_be_pld = [i \in Ids |-> NONE]
  /\ rd_ptr = 0
  /\ cancel_cnt = CANCEL_CNT_NUM
  /\ real_next_pc \in ResetPcs
  /\ commit_credit_cnt = COMMIT_QUEUE_DEPTH
  /\ instruction_idx_reg = COMMIT_QUEUE_DEPTH - 1
  /\ fetch_pc = real_next_pc
  /\ waiting = {}
  /\ mext_d = [s \in 1 .. 2 |-> NONE]
  /\ multi_cycle_cnt = FP_STAGES
  /\ multi_cycle_pld = NONE
  /\ fp_commit_pld_multi = NONE
  /\ instruction_en_o_d = FALSE
  /\ instruction_en_o = FALSE
  /\ csr_lock = FALSE

-----------------------------------------------------------------------------
(* The retiring group, from the head of the queue.                         *)
Head(j) == (rd_ptr + j) % COMMIT_QUEUE_DEPTH

Series(j) == \A k \in 0 .. j : v_commit_queue[Head(k)] # NONE /\ v_be_pld[Head(k)] # NONE
Correct(j) == v_be_pld[Head(j)] = v_commit_queue[Head(j)].inst_nxt_pc
RfCommit_M(j) == Series(j)
RfCommit(j) == Series(j) /\ \A k \in 0 .. j - 1 : Correct(k)

CancelEdge == \E j \in Channels : Series(j) /\ ~Correct(j)
CancelEn   == CancelEdge \/ cancel_cnt < CANCEL_CNT_NUM

(* v_rf_commit_en is a prefix of the channels, rd_ptr_add its length.      *)
rd_ptr_add == Cardinality({j \in Channels : RfCommit(j)})
Retired(j) == v_commit_queue[Head(j)]
RetiringIds == {Head(j) : j \in {k \in Channels : RfCommit(k)}}

NextReal ==
  real_next_pc' = IF rd_ptr_add = 0 THEN real_next_pc ELSE Retired(rd_ptr_add - 1).inst_nxt_pc

NextPtr_M ==
  /\ rd_ptr' = Head(rd_ptr_add)
  /\ cancel_cnt' = IF CancelEdge THEN 0
                   ELSE IF cancel_cnt < CANCEL_CNT_NUM THEN cancel_cnt + 1 ELSE cancel_cnt

NextPtr ==
  /\ rd_ptr' = IF CancelEn THEN 0 ELSE Head(rd_ptr_add)
  /\ cancel_cnt' = IF CancelEdge THEN 0
                   ELSE IF cancel_cnt < CANCEL_CNT_NUM THEN cancel_cnt + 1 ELSE cancel_cnt

-----------------------------------------------------------------------------
(* Dispatch of n instructions, predicted to lead to tgt[1], ..., tgt[n].   *)
(* The fetch queue is empty in the cycle after a cancel.                   *)
CanUse_M == commit_credit_cnt > 0
CanUse == commit_credit_cnt > INST_READ_CHANNEL
LegalDispatch(n) == n > 0 => CanUse /\ cancel_cnt = CANCEL_CNT_NUM

Idx(i) == (instruction_idx_reg + i) % COMMIT_QUEUE_DEPTH
Dispatched(n, tgt) ==
  {[id |-> Idx(i), pc |-> IF i = 1 THEN fetch_pc ELSE tgt[i - 1]] : i \in 1 .. n}

NextFront_M(n, tgt) ==
  /\ commit_credit_cnt' = commit_credit_cnt + rd_ptr_add - n
  /\ instruction_idx_reg' = IF CancelEdge THEN COMMIT_QUEUE_DEPTH - 1 ELSE Idx(n)
  /\ fetch_pc' = IF CancelEdge THEN Retired(rd_ptr_add - 1).inst_nxt_pc
                 ELSE IF n = 0 THEN fetch_pc ELSE tgt[n]

NextFront(n, tgt) ==
  /\ commit_credit_cnt' = IF CancelEdge THEN COMMIT_QUEUE_DEPTH
                          ELSE commit_credit_cnt + rd_ptr_add - n
  /\ instruction_idx_reg' = IF CancelEdge THEN COMMIT_QUEUE_DEPTH - 1 ELSE Idx(n)
  /\ fetch_pc' = IF CancelEdge THEN Retired(rd_ptr_add - 1).inst_nxt_pc
                 ELSE IF n = 0 THEN fetch_pc ELSE tgt[n]

NextBePld(n, tgt) ==
  v_be_pld' = [i \in Ids |->
    IF CancelEn THEN NONE
    ELSE IF \E k \in 1 .. n : Idx(k) = i THEN tgt[CHOOSE k \in 1 .. n : Idx(k) = i]
    ELSE IF i \in RetiringIds THEN NONE
    ELSE v_be_pld[i]]

-----------------------------------------------------------------------------
(* Execution.  now: waiting instructions executed in this cycle (an ALU at *)
(* issue, a load or store when its queue reports it); mx, fx: instruction  *)
(* entering the multiplier and the floating-point unit, or NONE; res: all  *)
(* results written to the queue in this cycle.                             *)
LegalIssue(now, mx, fx) ==
  /\ now \subseteq {w \in waiting : w.pc \notin FpPc}
  /\ mx # NONE => mx \in waiting \ now /\ mx.pc \notin FpPc
  /\ fx # NONE => /\ fx \in waiting /\ fx.pc \in FpPc
                  /\ multi_cycle_cnt = FP_STAGES /\ ~csr_lock

Completing(now) ==
  now \cup (IF mext_d[2] # NONE THEN {mext_d[2]} ELSE {})
      \cup (IF instruction_en_o THEN {fp_commit_pld_multi} ELSE {})

NextQueue(res) ==
  v_commit_queue' = [i \in Ids |->
    IF CancelEn THEN NONE
    ELSE IF \E r \in res : r.id = i THEN CHOOSE r \in res : r.id = i
    ELSE IF i \in RetiringIds THEN NONE
    ELSE v_commit_queue[i]]

NextWaiting(now, mx, fx, new) ==
  waiting' = IF CancelEdge THEN {} ELSE (waiting \ (now \cup {mx, fx})) \cup new

NextMext_M(mx) ==
  mext_d' = [s \in 1 .. 2 |-> IF s = 1 THEN IF CancelEn THEN NONE ELSE mx ELSE mext_d[1]]

NextMext(mx) ==
  mext_d' = [s \in 1 .. 2 |-> IF CancelEn THEN NONE ELSE IF s = 1 THEN mx ELSE mext_d[1]]

NextFloat_M(fx) ==
  /\ multi_cycle_cnt' = IF fx # NONE THEN 0
                        ELSE IF multi_cycle_cnt < FP_STAGES THEN multi_cycle_cnt + 1
                        ELSE multi_cycle_cnt
  /\ multi_cycle_pld' = IF fx # NONE THEN fx ELSE multi_cycle_pld
  /\ fp_commit_pld_multi' = IF multi_cycle_cnt = FP_STAGES - 1 THEN multi_cycle_pld
                            ELSE fp_commit_pld_multi
  /\ instruction_en_o_d' = (multi_cycle_pld # NONE /\ multi_cycle_cnt >= FP_STAGES - 1)
  /\ instruction_en_o' = instruction_en_o_d
  /\ csr_lock' = IF CancelEdge \/ instruction_en_o THEN FALSE ELSE csr_lock \/ fx # NONE

(* The wrapper has no cancel input: what entered it comes out.             *)
NextFloat(fx) ==
  /\ multi_cycle_cnt' = IF fx # NONE THEN 0
                        ELSE IF multi_cycle_cnt < FP_STAGES THEN multi_cycle_cnt + 1
                        ELSE multi_cycle_cnt
  /\ multi_cycle_pld' = IF fx # NONE THEN fx ELSE multi_cycle_pld
  /\ fp_commit_pld_multi' = IF multi_cycle_cnt = FP_STAGES - 1 THEN multi_cycle_pld
                            ELSE fp_commit_pld_multi
  /\ instruction_en_o_d' = (multi_cycle_cnt = FP_STAGES - 1)
  /\ instruction_en_o' = instruction_en_o_d
  /\ csr_lock' = IF CancelEdge \/ instruction_en_o THEN FALSE ELSE csr_lock \/ fx # NONE

-----------------------------------------------------------------------------
Clock(n, tgt, now, mx, fx, res) ==
  /\ NextPtr /\ NextReal
  /\ NextFront(n, tgt)
  /\ NextBePld(n, tgt)
  /\ NextQueue(res)
  /\ NextWaiting(now, mx, fx, Dispatched(n, tgt))
  /\ NextMext(mx)
  /\ NextFloat(fx)

Predictions(n) ==
  {tgt \in [1 .. n -> Pc] :
     \A i \in 1 .. n : tgt[i] \in Predict[IF i = 1 THEN fetch_pc ELSE tgt[i - 1]]}

(* Every completing instruction reports one result.                        *)
Results(now) ==
  {{[id |-> c.id, inst_pc |-> c.pc, inst_nxt_pc |-> nxt[c]] : c \in Completing(now)} :
     nxt \in {f \in [Completing(now) -> UNION {Succ[c.pc] : c \in Completing(now)}] :
                \A c \in Completing(now) : f[c] \in Succ[c.pc]}}

Cycle(now, mx, fx) ==
  /\ LegalIssue(now, mx, fx)
  /\ \E n \in 0 .. INST_READ_CHANNEL :
       /\ LegalDispatch(n)
       /\ \E tgt \in Predictions(n), res \in Results(now) : Clock(n, tgt, now, mx, fx, res)

(* A cycle in which retirement goes on, and one in which it cancels.       *)
Run    == /\ ~CancelEdge
          /\ \E now \in SUBSET waiting, mx, fx \in waiting \cup {NONE} : Cycle(now, mx, fx)
Cancel == /\ CancelEdge
          /\ \E now \in SUBSET waiting, mx, fx \in waiting \cup {NONE} : Cycle(now, mx, fx)

Next == Run \/ Cancel

Spec == Init /\ [][Next]_vars

(* The clock runs, and an instruction that may enter a unit in every cycle *)
(* enters one: the issue stage offers its oldest instruction for ever.     *)
Executes(i) ==
  \E now \in SUBSET waiting, mx, fx \in waiting \cup {NONE} :
    /\ i \in {w.id : w \in now \cup ({mx, fx} \ {NONE})}
    /\ Cycle(now, mx, fx)

FairSpec == Spec /\ WF_vars(Next) /\ \A i \in Ids : WF_vars(Executes(i))

-----------------------------------------------------------------------------
TypeOK ==
  /\ v_commit_queue \in [Ids -> Result \cup {NONE}]
  /\ v_be_pld \in [Ids -> Pc \cup {NONE}]
  /\ rd_ptr \in Ids /\ cancel_cnt \in 0 .. CANCEL_CNT_NUM
  /\ real_next_pc \in Pc /\ fetch_pc \in Pc
  /\ commit_credit_cnt \in 0 .. COMMIT_QUEUE_DEPTH /\ instruction_idx_reg \in Ids
  /\ waiting \subseteq Inst
  /\ mext_d \in [1 .. 2 -> Inst \cup {NONE}]
  /\ multi_cycle_cnt \in 0 .. FP_STAGES
  /\ multi_cycle_pld \in Inst \cup {NONE} /\ fp_commit_pld_multi \in Inst \cup {NONE}
  /\ instruction_en_o_d \in BOOLEAN /\ instruction_en_o \in BOOLEAN /\ csr_lock \in BOOLEAN

(* The check the simulation prints "Error Detect" for: each retiring       *)
(* instruction lies where the one retired before it led, across groups,    *)
(* cancels and reuse of ids.                                               *)
RetireInOrder ==
  \A j \in Channels :
    RfCommit(j) =>
      Retired(j).inst_pc = IF j = 0 THEN real_next_pc ELSE Retired(j - 1).inst_nxt_pc

(* Credits and the two pointers agree: the ids in use run from rd_ptr to   *)
(* instruction_idx_reg and are as many as credits are missing, so that an  *)
(* id is never handed out while an instruction still holds it.             *)
Used == COMMIT_QUEUE_DEPTH - commit_credit_cnt
CreditExact ==
  /\ {i \in Ids : v_be_pld[i] # NONE} = {Head(k) : k \in 0 .. Used - 1}
  /\ instruction_idx_reg = (rd_ptr + Used + COMMIT_QUEUE_DEPTH - 1) % COMMIT_QUEUE_DEPTH

(* An instruction that has not reported is waiting in exactly one place,   *)
(* one that has is in none: no result is lost, none can arrive twice, and  *)
(* nothing cancelled is left behind to report under a reused id.           *)
InUnits == waiting \cup {mext_d[s] : s \in {t \in 1 .. 2 : mext_d[t] # NONE}}
InFloat == (IF multi_cycle_cnt < FP_STAGES THEN {multi_cycle_pld} ELSE {}) \cup
           (IF instruction_en_o_d \/ instruction_en_o THEN {fp_commit_pld_multi} ELSE {})
OneResultEach ==
  /\ \A u, w \in InUnits \cup InFloat : u.id = w.id => u = w
  /\ mext_d[1] # NONE => mext_d[1] # mext_d[2] /\ mext_d[1] \notin waiting
  /\ mext_d[2] \notin waiting
  /\ \A i \in Ids : v_be_pld[i] # NONE /\ v_commit_queue[i] = NONE
                      <=> i \in {u.id : u \in InUnits \cup InFloat}

(* Whatever is dispatched leaves the queue, retired or cancelled.          *)
EveryIdLeaves == \A i \in Ids : v_be_pld[i] # NONE ~> v_be_pld[i] = NONE

(* Retirement is sequential execution of the program.                      *)
Sequential == INSTANCE SequentialMachine WITH next_pc <- real_next_pc
ImplementsSequential == Sequential!Spec
=============================================================================

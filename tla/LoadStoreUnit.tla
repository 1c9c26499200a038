---------------------------- MODULE LoadStoreUnit ----------------------------
(***************************************************************************)
(* The load/store unit: toy_lsu, its input buffer and two queues, with the *)
(* memory behind it and what the rest of the core does to it.  One step is *)
(* one clock cycle.                                                        *)
(*                                                                         *)
(* Memory has one port, always ready; it answers a read in the next cycle  *)
(* with the bytes of the request cycle and does not answer a write.  The   *)
(* issue stage delivers loads and stores in program order, so that what a  *)
(* load must return is known when it arrives: rob holds the operations not *)
(* yet retired, arch the memory the retired ones leave.                    *)
(***************************************************************************)
EXTENDS LoadQueue, FiniteSetsExt

CONSTANTS
  COMMIT_REL_CHANNEL,  \* operations retired per cycle at most (4)
  REFILL,              \* cycles after a cancel before the new path arrives
  Bytes,               \* addresses of memory, 0 .. some number
  Workloads            \* the programs, one of which runs: see below

BytesOf(a) == a.addr .. a.addr + a.strb - 1

(* A workload bounds what arrives: accesses are what a program does,       *)
(* records [ld, addr, strb]; a byte takes a number of values; and so many  *)
(* operations are in flight, stores in the unit and loads in it.           *)
ASSUME LsuAssumption ==
  /\ COMMIT_REL_CHANNEL \in Nat \ {0} /\ REFILL \in Nat \ {0}
  /\ \A w \in Workloads :
       /\ w.values \in Nat \ {0} /\ w.in_flight \in Nat \ {0}
       /\ w.stores \in Nat /\ w.loads \in Nat
       /\ w.accesses \subseteq [ld : BOOLEAN, addr : Bytes, strb : Nat \ {0}]
       /\ \A a \in w.accesses : BytesOf(a) \subseteq Bytes

(* NONE is no entry of the load queue, no answer of memory and no operation.*)
Bits == UNION {[B -> Nat] : B \in SUBSET Bytes}
Answers == [entry : Ldq, branch : 1 .. BRANCH_NUM, data : Bits]
Ops == [id : Nat, ld : BOOLEAN, addr : Bytes, strb : Nat, data : Bits]
ASSUME NoneAssumption == NONE \notin Ldq /\ NONE \notin Answers /\ NONE \notin Ops

VARIABLES
  workload, \* the one of Workloads that runs
  rob,     \* toy_commit: records [op, done, entry], the oldest first
  arch,    \* memory after the retired operations, in program order
  mem,     \* the SRAM
  refill   \* cycles until the new path arrives; REFILL in the one after a cancel

vars == <<workload, lsu_buf, stu_credit_cnt, ldu_credit_cnt, stq, ldq, answer, rob, arch, mem,
          refill>>

Init ==
  /\ workload \in Workloads
  /\ BufferInit /\ StqInit /\ LdqInit
  /\ answer = NONE
  /\ rob = <<>>
  /\ arch = [b \in Bytes |-> 0] /\ mem = arch
  /\ refill = 0

-----------------------------------------------------------------------------
(* Memory after some operations: a byte is what the last store to it wrote.*)
StoresTo(ops, b) == {k \in Of(ops, FALSE) : b \in BytesOf(ops[k])}
After(m, ops) ==
  [b \in Bytes |-> IF StoresTo(ops, b) = {} THEN m[b] ELSE ops[Max(StoresTo(ops, b))].data[b]]
OpsOf(r) == [k \in 1 .. Len(r) |-> r[k].op]
Speculative == After(arch, OpsOf(rob))

(* What arrives.  A store changes every byte it writes to the next value,  *)
(* a load must return what the stores before it leave.                     *)
Arriving(accs) ==
  LET first == IF rob = <<>> THEN 0 ELSE rob[Len(rob)].op.id + 1
      changes(k, b) == Cardinality({j \in StoresTo(accs, b) : j <= k})
  IN  [k \in 1 .. Len(accs) |->
        [id |-> (first + k - 1) % workload.in_flight,
         ld |-> accs[k].ld, addr |-> accs[k].addr, strb |-> accs[k].strb,
         data |-> [b \in BytesOf(accs[k]) |-> (Speculative[b] + changes(k, b)) % workload.values]]]

HeldStores == {i \in Stq : stq_en[i] \/ stq_commit[i]}
HeldLoads  == {i \in Ldq : ldq_en[i]}
Batches == UNION {[1 .. k -> workload.accesses] : k \in 0 .. S_CHANNEL}
LegalArrival(accs) ==
  accs # <<>> =>
    /\ v_s_lsu_rdy /\ refill = 0
    /\ Len(rob) + Len(accs) <= workload.in_flight
    /\ Cardinality(HeldStores) + Cardinality(Of(lsu_buf \o accs, FALSE)) <= workload.stores
    /\ Cardinality(HeldLoads) + Cardinality(Of(lsu_buf \o accs, TRUE)) <= workload.loads

-----------------------------------------------------------------------------
(* The memory port: a load goes before a store.                            *)
Drain == s_mem_req_vld /\ Request = NONE

NextMemory(request, drain, cancel_edge_en) ==
  /\ mem' = IF drain THEN After(mem, <<stq_pld[stq_rd_ptr]>>) ELSE mem
  /\ answer' = IF request = NONE THEN NONE
               ELSE [entry |-> request, branch |-> req_branch_id_nxt(cancel_edge_en),
                     data |-> [b \in BytesOf(RequestPld(request)) |-> mem[b]]]

(* What is reported to toy_commit in a cycle: stores as they enter their   *)
(* queue, loads as a store or memory answers them.                         *)
StoreReports == {[op |-> StuOffer[k], entry |-> StqEntry(k)] : k \in 1 .. StoresTaken}
LoadReports(cancel_edge_en) ==
  {[op |-> LduOffer[k], data |-> Met(k).data] : k \in {j \in 1 .. 2 : v_ldq_ack_flag(j)}}
  \cup IF branch_ack_vld(cancel_edge_en) /\ ~stq_ack[answer.entry]
       THEN {[op |-> ldq_pld[answer.entry], data |-> answer.data]} ELSE {}

(* n operations retire.                                                    *)
LegalRetire(n) == n <= Len(rob) /\ \A k \in 1 .. n : rob[k].done
RetiringStores(n) == {k \in 1 .. n : ~rob[k].op.ld}
Retiring(n) == {rob[k].entry : k \in RetiringStores(n)}

Reported(e, stores, loads) ==
  IF \E r \in stores : r.op.id = e.op.id
  THEN [e EXCEPT !.done = TRUE, !.entry = (CHOOSE r \in stores : r.op.id = e.op.id).entry]
  ELSE [e EXCEPT !.done = @ \/ e.op.id \in loads]

NextRob(new, n, cancel_edge_en, cancel_en) ==
  LET stores  == StoreReports
      loads   == {r.op.id : r \in LoadReports(cancel_edge_en)}
  IN  /\ rob' = IF cancel_en THEN <<>>
                ELSE [k \in 1 .. Len(rob) - n |-> Reported(rob[n + k], stores, loads)]
                     \o [k \in 1 .. Len(new) |-> [op |-> new[k], done |-> FALSE, entry |-> NONE]]
      /\ arch' = After(arch, OpsOf(SubSeq(rob, 1, n)))

-----------------------------------------------------------------------------
(* The queues and memory take the cycle apart from what arrives.           *)
Queues(n, cancel_edge_en) ==
  LET cancel_en == cancel_edge_en \/ refill = REFILL
      stores    == StoresTaken
      loads     == LoadsTaken
      request   == Request
      drain     == Drain
  IN  /\ NextCredits(stores, loads, ldq_rd_en, drain, cancel_en, stq_commit_cnt)
      /\ NextStqPtr(stores, Cardinality(RetiringStores(n)), drain, cancel_en)
      /\ NextStqFlags(stores, Retiring(n), drain, cancel_en)
      /\ NextStqPld(stores)
      /\ NextLdqFlags(loads, request, branch_ack_vld(cancel_edge_en), cancel_en)
      /\ NextLdqPld(loads, request)
      /\ NextLdqPtr(loads, cancel_edge_en, cancel_en)
      /\ NextMemory(request, drain, cancel_edge_en)
      /\ UNCHANGED workload
      /\ refill' = IF cancel_edge_en THEN REFILL ELSE IF refill > 0 THEN refill - 1 ELSE 0

(* The buffer and toy_commit also depend on it.                            *)
Arrive(accs, n, cancel_edge_en) ==
  LET cancel_en == cancel_edge_en \/ refill = REFILL
      new       == Arriving(accs)
  IN  /\ LegalArrival(accs)
      /\ NextBuffer(new, StoresTaken, LoadsTaken, cancel_en)
      /\ NextRob(new, n, cancel_edge_en, cancel_en)

(* A cycle in which the core goes on, and one in which it cancels what is  *)
(* younger than the n operations retiring.                                 *)
Run ==
  \E n \in 0 .. COMMIT_REL_CHANNEL :
    LegalRetire(n) /\ Queues(n, FALSE) /\ \E accs \in Batches : Arrive(accs, n, FALSE)

Cancel ==
  /\ refill # REFILL
  /\ \E n \in 0 .. COMMIT_REL_CHANNEL :
       LegalRetire(n) /\ Queues(n, TRUE) /\ Arrive(<<>>, n, TRUE)

Next == Run \/ Cancel

Spec == Init /\ [][Next]_vars

(* The clock runs, without waiting for a cancel, and what may retire in    *)
(* every cycle retires.                                                    *)
Retires ==
  \E n \in 1 .. COMMIT_REL_CHANNEL :
    LegalRetire(n) /\ Queues(n, FALSE) /\ \E accs \in Batches : Arrive(accs, n, FALSE)

FairSpec == Spec /\ WF_vars(Run) /\ WF_vars(Retires)

-----------------------------------------------------------------------------
Data(a) == [BytesOf(a) -> 0 .. workload.values - 1]
IsOp(op) ==
  /\ op.id \in 0 .. workload.in_flight - 1
  /\ [ld |-> op.ld, addr |-> op.addr, strb |-> op.strb] \in workload.accesses
  /\ op.data \in Data(op)

(* Every variable keeps its type.                                          *)
LsuTypeOK ==
  /\ workload \in Workloads
  /\ Len(lsu_buf) <= LSU_DEPTH /\ \A k \in 1 .. Len(lsu_buf) : IsOp(lsu_buf[k])
  /\ stu_credit_cnt \in 0 .. STU_DEPTH /\ ldu_credit_cnt \in 0 .. LDU_DEPTH
  /\ stq_en \in [Stq -> BOOLEAN] /\ stq_commit \in [Stq -> BOOLEAN]
  /\ \A i \in Stq : IF i \in HeldStores THEN IsOp(stq_pld[i]) /\ ~stq_pld[i].ld
                    ELSE stq_pld[i] = NONE
  /\ {stq_wr_ptr, stq_rd_ptr, wr_ptr_commit, stq_commit_cnt} \subseteq Stq
  /\ \A f \in {ldq_en, stq_flag, stq_ack, mem_req, mem_ack} : f \in [Ldq -> BOOLEAN]
  /\ \A i \in HeldLoads : IsOp(ldq_pld[i]) /\ ldq_pld[i].ld
  /\ {ldq_wr_ptr, ldq_rd_ptr} \subseteq Ldq
  /\ req_branch_id \in 1 .. BRANCH_NUM
  /\ answer # NONE => /\ answer.entry \in Ldq /\ answer.branch \in 1 .. BRANCH_NUM
                      /\ IsOp(ldq_pld[answer.entry])
                      /\ answer.data \in Data(ldq_pld[answer.entry])
  /\ Len(rob) <= workload.in_flight
  /\ \A k \in 1 .. Len(rob) : IsOp(rob[k].op) /\ rob[k].done \in BOOLEAN
                              /\ rob[k].entry \in Stq \cup {NONE}
  /\ arch \in [Bytes -> 0 .. workload.values - 1] /\ mem \in [Bytes -> 0 .. workload.values - 1]
  /\ refill \in 0 .. REFILL

(* In the second cycle of a cancel toy_commit takes no report.             *)
Cancelling == refill = REFILL

(* A load reports what the operations before it in program order leave in  *)
(* its bytes, whether a store of the same cycle, a queued store or memory  *)
(* answers it.                                                             *)
LoadsReadProgramOrder ==
  ~Cancelling => \A r \in LoadReports(FALSE) : r.data = r.op.data

(* An operation not yet reported is in exactly one place, the buffer or    *)
(* the load queue; only such operations report, in no cycle twice.         *)
Unreported == {rob[k].op : k \in {j \in 1 .. Len(rob) : ~rob[j].done}}
InBuffer   == {lsu_buf[k] : k \in 1 .. Len(lsu_buf)}
Asking     == {ldq_pld[i] : i \in {j \in HeldLoads : ~stq_flag[j] /\ ~mem_ack[j]}}
OneReportEach ==
  /\ Unreported = InBuffer \cup Asking
  /\ InBuffer \cap Asking = {}
  /\ Cardinality(InBuffer) = Len(lsu_buf)
  /\ ~Cancelling =>
       LET reports == {r.op : r \in StoreReports} \cup {r.op : r \in LoadReports(FALSE)}
       IN  reports \subseteq Unreported
            /\ Cardinality(reports) = Cardinality(StoreReports) + Cardinality(LoadReports(FALSE))

(* An operation enters its queue after all older ones entered theirs.      *)
Entered(k) == rob[k].done \/ rob[k].op \in Asking
LsuInOrder ==
  \A k \in 1 .. Len(rob) : Entered(k) => \A j \in 1 .. k - 1 : Entered(j)

(* Credits missing are entries held.  A store drained in the second cycle  *)
(* of a cancel takes one along, which the next cancel brings back.         *)
CreditExact ==
  /\ LDU_DEPTH - ldu_credit_cnt = Cardinality(HeldLoads)
  /\ ~Cancelling => STU_DEPTH - stu_credit_cnt - Cardinality(HeldStores) \in {0, 1}

(* The retired stores lie from the read pointer to the commit pointer, and *)
(* writing them in that order gives memory its program-order contents.     *)
Committed == Cardinality({i \in Stq : stq_commit[i]})
CommittedStores == [k \in 1 .. Committed |-> stq_pld[(stq_rd_ptr + k - 1) % STU_DEPTH]]
StoresReachMemory ==
  /\ \A k \in 0 .. Committed - 1 : stq_commit[(stq_rd_ptr + k) % STU_DEPTH]
  /\ wr_ptr_commit = (stq_rd_ptr + Committed) % STU_DEPTH
  /\ After(mem, CommittedStores) = arch

-----------------------------------------------------------------------------
(* Situations that the code does not exclude and in which some of the      *)
(* above fails (README, section 6).  Programs for which none of them       *)
(* arises are described after them, run lsu checks that its own are such.  *)

(* Of the two oldest operations the second is offered only with the first: *)
(* see run lsu_order.                                                      *)
OffersInOrder ==
  Len(lsu_buf) > 1 =>
    IF lsu_buf[1].ld THEN ~lsu_buf[2].ld /\ StuOffer # <<>> => LduOffer # <<>>
                     ELSE lsu_buf[2].ld /\ LduOffer # <<>> => StuOffer # <<>>

(* A store's answer goes to loads that enter their queue: see run lsu_hang.*)
AnswersTaken == \A k \in 1 .. 2 : v_ldq_ack_flag(k) => k <= LoadsTaken

(* Not every entry of the store queue is retired: stq_commit_cnt is exact. *)
RetiredFit == Committed < STU_DEPTH

Regular == OffersInOrder /\ AnswersTaken /\ RetiredFit

(* A retired store that loads are not compared with shares no byte with    *)
(* the loads offered: toy_stq.sv clears v_entry_en of a store that retires *)
(* in the cycle of a cancel.                                               *)
RetiredSeen ==
  \A i \in Stq : stq_commit[i] /\ ~stq_en[i] =>
    \A k \in 1 .. Len(LduOffer) : BytesOf(stq_pld[i]) \cap BytesOf(LduOffer[k]) = {}

(* A load that enters its queue and meets a store has its size: the second *)
(* load's size is not looked at when the first meets a store.              *)
Meets(k) == (k = 1 /\ SameCycle) \/ SameAddr(LduOffer[k]) # {}
TakenAnswered == \A k \in 1 .. LoadsTaken : Meets(k) => v_ldq_ack_flag(k)

(* However the queues fill, drain and are cancelled, none of the five      *)
(* situations arises: with these workloads an offered operation is taken   *)
(* with all older ones, and a load is compared with every store it needs.  *)
RegularData == Regular /\ RetiredSeen /\ TakenAnswered

(* Programs that keep clear of them.  One has stores only, or loads only,  *)
(* or never more in the unit than both queues have credits for, and no     *)
(* store holds back one of two loads while another answers the other.      *)
OfKind(w, ld) == {a \in w.accesses : a.ld = ld}
SizesAgree(w) ==
  \A a, b \in OfKind(w, TRUE) : \A s, t \in OfKind(w, FALSE) :
    a # b /\ s.addr = a.addr /\ s.strb = a.strb /\ t.addr = b.addr => t.strb = b.strb
RoomFor(w) == w.stores <= STU_DEPTH - 2 /\ w.loads <= LDU_DEPTH - 1
Clear(w) ==
  \/ OfKind(w, TRUE) = {} /\ COMMIT_REL_CHANNEL < STU_DEPTH
  \/ OfKind(w, FALSE) = {}
  \/ RoomFor(w) /\ SizesAgree(w)
AllClear == \A w \in Workloads : Clear(w)

(* The refill lasts until the stores that retired in the cycle of a cancel *)
(* are in memory.                                                          *)
DrainInTime ==
  \A w \in Workloads : OfKind(w, TRUE) = {} \/ OfKind(w, FALSE) = {} \/ w.stores <= REFILL + 1

(* A load and a store that share a byte start at the same address: the     *)
(* store queue compares exact addresses.                                   *)
StartTogether ==
  \A w \in Workloads : \A a, s \in w.accesses :
    a.ld /\ ~s.ld /\ BytesOf(a) \cap BytesOf(s) # {} => a.addr = s.addr

-----------------------------------------------------------------------------
(* The oldest load does not stay in the load queue: it is answered and     *)
(* leaves, or is cancelled.                                                *)
LoadsLeave == []<>(HeldLoads = {}) \/ []<><<ldq_rd_ptr' # ldq_rd_ptr>>_ldq_rd_ptr

(* Every operation is reported, or cancelled.                              *)
EveryOpReports ==
  \A i \in UNION {0 .. w.in_flight - 1 : w \in Workloads} :
    (\E op \in Unreported : op.id = i) ~> ~(\E op \in Unreported : op.id = i)
=============================================================================

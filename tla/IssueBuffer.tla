----------------------------- MODULE IssueBuffer -----------------------------
(***************************************************************************)
(* The issue buffer: toy_dispatch_issue_buffer.  Dispatched instructions   *)
(* wait in program order from slot 0; those that issue leave from the      *)
(* first OOO_DEPTH slots, in any order, the rest moves up and arrivals are *)
(* appended behind it, all in one cycle.                                   *)
(*                                                                         *)
(* vld is the set of dispatch channels that offer an instruction, pld the  *)
(* instruction each offers, taken the set of window slots whose unit is    *)
(* ready (v_m_rdy).                                                        *)
(***************************************************************************)
EXTENDS Integers, Sequences, FiniteSets

CONSTANTS
  BUFFER_DEPTH,        \* slots (16)
  OOO_DEPTH,           \* slots that may issue (4)
  S_CHANNEL,           \* dispatch channels (8)
  Csr(_)               \* goto_csr of a payload

ASSUME IssueBufferAssumption ==
  /\ BUFFER_DEPTH \in Nat /\ OOO_DEPTH \in Nat \ {0} /\ S_CHANNEL \in Nat \ {0}
  /\ OOO_DEPTH <= BUFFER_DEPTH /\ S_CHANNEL <= BUFFER_DEPTH

Slots    == 0 .. BUFFER_DEPTH - 1
Window   == 0 .. OOO_DEPTH - 1
Channels == 0 .. S_CHANNEL - 1

VARIABLES
  v_mem_pld,           \* per slot
  v_mem_en,            \* per slot: occupied
  wr_ptr,              \* the number of occupied slots
  v_s_rdy              \* per dispatch channel: registered ready

ibVars == <<v_mem_pld, v_mem_en, wr_ptr, v_s_rdy>>

IssueBufferInit(p) ==
  /\ v_mem_pld = [i \in Slots |-> p]
  /\ v_mem_en = [i \in Slots |-> FALSE]
  /\ wr_ptr = 0
  /\ v_s_rdy = [c \in Channels |-> TRUE]

-----------------------------------------------------------------------------
(* v_m_vld: a CSR instruction hides itself and what is behind it, and when *)
(* it is the oldest only what is behind it.  The flag of an empty slot     *)
(* counts as well.                                                         *)
CsrMask_M(i) == TRUE
CsrMask(i) == /\ Csr(v_mem_pld[0]) => i = 0
              /\ \A k \in 1 .. i : ~Csr(v_mem_pld[k])
MVld == {i \in Window : v_mem_en[i] /\ CsrMask(i)}

Issuing(taken) == MVld \cap taken
CntO(taken)    == Cardinality(Issuing(taken))
CntI(vld)      == Cardinality({c \in vld : v_s_rdy[c]})

WrPtrNew(taken) == wr_ptr - CntO(taken)
WrPtrNxt(taken, vld) == wr_ptr - CntO(taken) + CntI(vld)
ReadyNum(taken) == BUFFER_DEPTH - wr_ptr + CntO(taken)

(* cmn_list_lead_one: the (i+1)-th slot that stays.  Window slots stay     *)
(* unless they issue, the others when they are occupied.                   *)
LdEn(taken) == {k \in Slots : IF k \in Window THEN k \notin Issuing(taken) ELSE v_mem_en[k]}
FreeIdx(i, taken) ==
  CHOOSE k \in LdEn(taken) : Cardinality({m \in LdEn(taken) : m < k}) = i

NextMemPld_M(taken, vld, pld) ==
  v_mem_pld' = [i \in Slots |->
    IF i < WrPtrNew(taken) THEN
      IF i \in Window THEN v_mem_pld[FreeIdx(i, taken)] ELSE v_mem_pld[i]
    ELSE IF i < WrPtrNxt(taken, vld) THEN pld[i - WrPtrNew(taken)]
    ELSE v_mem_pld[i]]

NextMemPld(taken, vld, pld) ==
  v_mem_pld' = [i \in Slots |->
    IF i < WrPtrNew(taken) THEN
      IF i \in Window THEN v_mem_pld[FreeIdx(i, taken)]
                      ELSE v_mem_pld[(i + CntO(taken)) % BUFFER_DEPTH]
    ELSE IF i < WrPtrNxt(taken, vld) THEN pld[(i - WrPtrNew(taken)) % S_CHANNEL]
    ELSE v_mem_pld[i]]

NextMemEn(taken, vld, cancel_edge_en) ==
  /\ wr_ptr' = IF cancel_edge_en THEN 0 ELSE WrPtrNxt(taken, vld)
  /\ v_mem_en' = [i \in Slots |-> ~cancel_edge_en /\ i < WrPtrNxt(taken, vld)]

(* Ready is a register: what arrives in this cycle is not yet counted, so  *)
(* room for all channels is kept free.                                     *)
NextSRdy_M(taken, cancel_edge_en) ==
  v_s_rdy' = [c \in Channels |-> cancel_edge_en \/ c < ReadyNum(taken)]

NextSRdy_Stuck(taken, cancel_edge_en) ==
  v_s_rdy' = [c \in Channels |-> cancel_edge_en \/ c + 2 * S_CHANNEL < ReadyNum(taken)]

NextSRdy(taken, cancel_edge_en) ==
  v_s_rdy' = [c \in Channels |-> cancel_edge_en \/ c + S_CHANNEL < ReadyNum(taken)]

NextIssueBuffer(taken, vld, pld, cancel_edge_en) ==
  /\ NextMemPld(taken, vld, pld)
  /\ NextMemEn(taken, vld, cancel_edge_en)
  /\ NextSRdy(taken, cancel_edge_en)

-----------------------------------------------------------------------------
IssueBufferTypeOK(Inst) ==
  /\ v_mem_pld \in [Slots -> Inst]
  /\ v_mem_en \in [Slots -> BOOLEAN]
  /\ wr_ptr \in 0 .. BUFFER_DEPTH
  /\ v_s_rdy \in [Channels -> BOOLEAN]

(* The hazard of the registered ready: the channels that are ready now     *)
(* have room, and the occupied slots are the first wr_ptr ones.            *)
RoomKept ==
  /\ Cardinality({c \in Channels : v_s_rdy[c]}) <= BUFFER_DEPTH - wr_ptr
  /\ \A i \in Slots : v_mem_en[i] <=> i < wr_ptr

Buffered == [n \in 1 .. wr_ptr |-> v_mem_pld[n - 1]]
=============================================================================

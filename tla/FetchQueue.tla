------------------------------ MODULE FetchQueue ------------------------------
(***************************************************************************)
(* The fetch queue: toy_fetch_queue2 (without its credits, which are in    *)
(* CommitQueue) and the banks toy_fetch_buffer.                            *)
(*                                                                         *)
(* A line of up to FILTER_CHANNEL instructions is spread over the banks,   *)
(* one bank after the other from where the last line ended, and up to one  *)
(* instruction per bank is read in the same rotation.  The rotations are   *)
(* registers, computed one cycle ahead.                                    *)
(*                                                                         *)
(* rdy is the set of dispatch channels that take an instruction, line the  *)
(* instructions that arrive (empty when none do).  A bank's entry that is  *)
(* not counted by its credits is NONE.                                     *)
(***************************************************************************)
EXTENDS Integers, Sequences, FiniteSets

CONSTANTS
  INST_READ_CHANNEL,   \* banks, and instructions read per cycle (8)
  FQ_BUF_IN_NUM,       \* instructions a bank takes per cycle (2)
  FQ_BUF_DEPTH,        \* entries of a bank (4)
  NONE                 \* a model value: nothing readable

ASSUME FetchQueueAssumption ==
  /\ INST_READ_CHANNEL \in Nat \ {0} /\ FQ_BUF_IN_NUM \in Nat \ {0}
  /\ FQ_BUF_DEPTH \in Nat /\ FQ_BUF_IN_NUM <= FQ_BUF_DEPTH

FILTER_CHANNEL == FQ_BUF_IN_NUM * INST_READ_CHANNEL
Banks    == 0 .. INST_READ_CHANNEL - 1
BankIns  == 0 .. FQ_BUF_IN_NUM - 1
BankPtrs == 0 .. 2 * FQ_BUF_DEPTH - 1

VARIABLES
  fq_wr_ptr, fq_rd_ptr,     \* wr_ptr and rd_ptr of the queue, modulo twice the banks
  wr_add_ptr,               \* per bank: the slot of a line that goes there
  rd_add_ptr,               \* per bank: the dispatch channel it serves
  rd_add_ptr_rev,           \* per dispatch channel: its bank
  queue_entry, crdt_cnt,    \* per bank: entries, number of them in use
  buf_wr_ptr, buf_rd_ptr,   \* per bank: wr_ptr and rd_ptr
  buf_wr_add_ptr            \* per bank: where its next writes go

fqRotation == <<fq_wr_ptr, fq_rd_ptr, wr_add_ptr, rd_add_ptr, rd_add_ptr_rev>>
fqBanks    == <<queue_entry, crdt_cnt, buf_wr_ptr, buf_rd_ptr, buf_wr_add_ptr>>
fqVars     == <<fqRotation, fqBanks>>

FetchQueueInit ==
  /\ fq_wr_ptr = 0 /\ fq_rd_ptr = 0
  /\ wr_add_ptr = [b \in Banks |-> b]
  /\ rd_add_ptr = [b \in Banks |-> b]
  /\ rd_add_ptr_rev = [i \in Banks |-> i]
  /\ queue_entry = [b \in Banks |-> [k \in 0 .. FQ_BUF_DEPTH - 1 |-> NONE]]
  /\ crdt_cnt = [b \in Banks |-> 0]
  /\ buf_wr_ptr = [b \in Banks |-> 0] /\ buf_rd_ptr = [b \in Banks |-> 0]
  /\ buf_wr_add_ptr = [b \in Banks |-> [j \in BankIns |-> j]]

-----------------------------------------------------------------------------
(* filter_rdy: every bank has room for all it can get from one line.       *)
FilterRdy_M == \A b \in Banks : FQ_BUF_DEPTH - crdt_cnt[b] > 0
FilterRdy   == \A b \in Banks : FQ_BUF_DEPTH - crdt_cnt[b] >= FQ_BUF_IN_NUM

(* The input crossbar: what bank b gets of a line.                         *)
LineSlot(b, j)  == j * INST_READ_CHANNEL + wr_add_ptr[b]
ReqEn(b, line)  == {j \in BankIns : LineSlot(b, j) < Len(line)}

(* The output crossbar: what dispatch channel i sees, and which banks are  *)
(* read.                                                                   *)
FqVld(i)     == crdt_cnt[rd_add_ptr_rev[i]] > 0
FqHead(b)    == queue_entry[b][buf_rd_ptr[b] % FQ_BUF_DEPTH]
AckVld       == {i \in Banks : FqVld(i)}
AckPld(i)    == FqHead(rd_add_ptr_rev[i])
ReadNum(rdy) == Cardinality(AckVld \cap rdy)
Reads(b, rdy) == IF crdt_cnt[b] > 0 /\ rd_add_ptr[b] \in rdy THEN 1 ELSE 0

NextRotation_M(line, rdy, cancel_en) ==
  LET wr == IF cancel_en THEN 0 ELSE (fq_wr_ptr + Len(line)) % (2 * INST_READ_CHANNEL)
      rd == IF cancel_en THEN 0 ELSE (fq_rd_ptr + ReadNum(rdy)) % (2 * INST_READ_CHANNEL)
  IN  /\ fq_wr_ptr' = wr /\ fq_rd_ptr' = rd
      /\ wr_add_ptr' = [b \in Banks |-> (b - wr) % INST_READ_CHANNEL]
      /\ rd_add_ptr' = [b \in Banks |-> (b + rd) % INST_READ_CHANNEL]
      /\ rd_add_ptr_rev' = [i \in Banks |-> (rd + i) % INST_READ_CHANNEL]

NextRotation(line, rdy, cancel_en) ==
  LET wr == IF cancel_en THEN 0 ELSE (fq_wr_ptr + Len(line)) % (2 * INST_READ_CHANNEL)
      rd == IF cancel_en THEN 0 ELSE (fq_rd_ptr + ReadNum(rdy)) % (2 * INST_READ_CHANNEL)
  IN  /\ fq_wr_ptr' = wr /\ fq_rd_ptr' = rd
      /\ wr_add_ptr' = [b \in Banks |-> (b - wr) % INST_READ_CHANNEL]
      /\ rd_add_ptr' = [b \in Banks |-> (b - rd) % INST_READ_CHANNEL]
      /\ rd_add_ptr_rev' = [i \in Banks |-> (rd + i) % INST_READ_CHANNEL]

(* A bank: credits and pointers, then its entries.                         *)
NextBankPtr(line, rdy, cancel_en) ==
  LET in(b) == Cardinality(ReqEn(b, line))
      wr(b) == IF cancel_en THEN 0 ELSE (buf_wr_ptr[b] + in(b)) % (2 * FQ_BUF_DEPTH)
  IN  /\ crdt_cnt' = [b \in Banks |->
           IF cancel_en THEN 0
           ELSE (crdt_cnt[b] + in(b) - Reads(b, rdy)) % (2 * FQ_BUF_DEPTH)]
      /\ buf_wr_ptr' = [b \in Banks |-> wr(b)]
      /\ buf_rd_ptr' = [b \in Banks |->
           IF cancel_en THEN 0 ELSE (buf_rd_ptr[b] + Reads(b, rdy)) % (2 * FQ_BUF_DEPTH)]
      /\ buf_wr_add_ptr' = [b \in Banks |->
           [j \in BankIns |-> (wr(b) + j) % (2 * FQ_BUF_DEPTH)]]

NextEntries(line, rdy, cancel_en) ==
  queue_entry' = [b \in Banks |-> [k \in 0 .. FQ_BUF_DEPTH - 1 |->
    LET into == {j \in ReqEn(b, line) : buf_wr_add_ptr[b][j] % FQ_BUF_DEPTH = k}
    IN  IF cancel_en THEN NONE
        ELSE IF into # {} THEN line[LineSlot(b, CHOOSE j \in into : TRUE) + 1]
        ELSE IF Reads(b, rdy) = 1 /\ k = buf_rd_ptr[b] % FQ_BUF_DEPTH THEN NONE
        ELSE queue_entry[b][k]]]

LegalLine(line) == line # <<>> => FilterRdy /\ Len(line) <= FILTER_CHANNEL

NextFetchQueue(line, rdy, cancel_en) ==
  /\ NextRotation(line, rdy, cancel_en)
  /\ NextBankPtr(line, rdy, cancel_en)
  /\ NextEntries(line, rdy, cancel_en)

-----------------------------------------------------------------------------
(* What the queue holds, oldest first: in rotation from the bank fq_rd_ptr *)
(* points at.                                                              *)
FetchQueueTypeOK(Inst) ==
  /\ fq_wr_ptr \in 0 .. 2 * INST_READ_CHANNEL - 1
  /\ fq_rd_ptr \in 0 .. 2 * INST_READ_CHANNEL - 1
  /\ wr_add_ptr \in [Banks -> Banks] /\ rd_add_ptr \in [Banks -> Banks]
  /\ rd_add_ptr_rev \in [Banks -> Banks]
  /\ queue_entry \in [Banks -> [0 .. FQ_BUF_DEPTH - 1 -> Inst \cup {NONE}]]
  /\ crdt_cnt \in [Banks -> 0 .. FQ_BUF_DEPTH]
  /\ buf_wr_ptr \in [Banks -> BankPtrs] /\ buf_rd_ptr \in [Banks -> BankPtrs]
  /\ buf_wr_add_ptr \in [Banks -> [BankIns -> BankPtrs]]

InUse == {e \in Banks \X (0 .. FQ_BUF_DEPTH - 1) : e[2] < crdt_cnt[e[1]]}
Stored ==
  [n \in 1 .. Cardinality(InUse) |->
     LET b == (fq_rd_ptr + n - 1) % INST_READ_CHANNEL
     IN  queue_entry[b][(buf_rd_ptr[b] + (n - 1) \div INST_READ_CHANNEL) % FQ_BUF_DEPTH]]
=============================================================================

------------------------------ MODULE FetchPath ------------------------------
(***************************************************************************)
(* From the front end's filter to issue: the fetch queue feeding the issue *)
(* buffer, as toy_core and toy_dispatch connect them (decoding in between  *)
(* is combinational).                                                      *)
(*                                                                         *)
(* One step is one clock cycle.  In it the filter delivers a line, the     *)
(* commit credits allow dispatch or do not, and units take instructions    *)
(* from the window.  A cancel clears both in its first cycle: toy_core     *)
(* connects cancel_edge_en to the cancel_en of the fetch queue.            *)
(***************************************************************************)
EXTENDS FetchQueue, IssueBuffer

CONSTANTS
  INST_NUM,            \* bound: instructions are numbered modulo INST_NUM
  LINES                \* bound: lengths of lines

ASSUME FetchPathAssumption ==
  /\ S_CHANNEL = INST_READ_CHANNEL
  /\ INST_NUM \in Nat \ {0} /\ LINES \subseteq 0 .. FILTER_CHANNEL

Inst == 0 .. INST_NUM - 1

VARIABLES
  fetched              \* number of the next instruction the filter delivers

pathVars == <<fqVars, ibVars, fetched>>

PathInit ==
  /\ FetchQueueInit
  /\ IssueBufferInit(0)
  /\ fetched = 0

Line(n) == [k \in 1 .. n |-> (fetched + k - 1) % INST_NUM]

(* credit: commit_credit_can_use; it gates valid and ready alike.          *)
Clock(line, credit, taken, cancel_edge_en) ==
  LET s_rdy == IF credit THEN {c \in Channels : v_s_rdy[c]} ELSE {}
      s_vld == IF credit THEN AckVld ELSE {}
  IN  /\ LegalLine(line)
      /\ NextFetchQueue(line, s_rdy, cancel_edge_en)
      /\ NextIssueBuffer(taken, s_vld, [c \in Channels |-> AckPld(c)], cancel_edge_en)
      /\ fetched' = IF cancel_edge_en THEN 0 ELSE (fetched + Len(line)) % INST_NUM

Run == \E n \in LINES, credit \in BOOLEAN, taken \in SUBSET MVld :
         Clock(Line(n), credit, taken, FALSE)
CancelEdge == \E n \in LINES, credit \in BOOLEAN, taken \in SUBSET MVld :
                Clock(Line(n), credit, taken, TRUE)

PathNext == Run \/ CancelEdge

PathSpec == PathInit /\ [][PathNext]_pathVars

(* Some cycle without a cancel grants credit and takes what the oldest     *)
(* slot offers: commit gives credits back as it retires, and the issue     *)
(* stage never blocks the oldest for good (IssueStage!OldestIssues).       *)
Serves == \E n \in LINES, taken \in SUBSET MVld :
            0 \in taken /\ Clock(Line(n), TRUE, taken, FALSE)

PathFairSpec == PathSpec /\ WF_pathVars(Serves)

-----------------------------------------------------------------------------
PathTypeOK ==
  /\ FetchQueueTypeOK(Inst) /\ IssueBufferTypeOK(Inst)
  /\ fetched \in Inst

(* What waits, oldest first, is what was fetched since the last cancel and *)
(* has not issued: nothing is lost, repeated or overtakes between banks,   *)
(* across the rotations of both crossbars, in the compaction, or in the    *)
(* cycles in which a ready of the cycle before is still believed.          *)
Stream == INSTANCE InstructionStream WITH todo <- Buffered \o Stored
ImplementsStream == Stream!Spec

(* The banks are in balance: none has two instructions more than another,  *)
(* and the longer ones are those next to be read, so that the channels     *)
(* that have an instruction come first.                                    *)
BanksBalanced ==
  \A i, k \in Banks : i < k =>
    crdt_cnt[rd_add_ptr_rev[i]] - crdt_cnt[rd_add_ptr_rev[k]] \in {0, 1}

(* Whatever waits moves on: the path is never stuck with instructions in   *)
(* it, whatever the filter delivers.                                       *)
NeverStuck == []<>(Stored = <<>> \/ \E i \in Channels : v_s_rdy[i] /\ FqVld(i))
=============================================================================

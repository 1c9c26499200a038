----------------------------- MODULE IssueStage -----------------------------
(***************************************************************************)
(* Out-of-order issue over the renamed registers: the window of the oldest *)
(* waiting instructions (toy_dispatch_issue_buffer), the hazard checks     *)
(* that pick which of them issue (toy_dispatch_issue), the register file   *)
(* they rename through (PhyRegfile) and in-order retirement, which returns *)
(* the registers.                                                          *)
(*                                                                         *)
(* rob is the program order the code keeps only implicitly, in the order   *)
(* of the issue buffer and of the commit queue: every dispatched and not   *)
(* retired instruction, oldest first.  The issue buffer holds its waiting  *)
(* ones, in the same order.                                                *)
(***************************************************************************)
EXTENDS PhyRegfile

CONSTANTS
  Insts,        \* instructions: [rd, rs, unit]; rd is NoReg for none, rs maps
                \* the operand positions 1..3 in use to registers
  NoReg,        \* a model value
  INST_READ_CHANNEL,  \* instructions dispatched per cycle at most
  IN_FLIGHT     \* bound: instructions dispatched and not retired

Units == {"alu", "lsu", "mext", "float", "csr"}

ASSUME IssueAssumption ==
  /\ INST_READ_CHANNEL \in Nat \ {0} /\ IN_FLIGHT \in Nat \ {0}
  /\ NoReg \notin Arch \cup Phys
  /\ \A i \in Insts : i.rd \in Arch \cup {NoReg} /\ i.unit \in Units
                      /\ DOMAIN i.rs \subseteq 1 .. 3 /\ Range(i.rs) \subseteq Arch

VARIABLE rob  \* sequence of [inst, st, phys]; st: "waiting", "busy" or "done"

allvars == <<vars, rob>>

Renames(i) == i.rd # NoReg /\ ~Wired(i.rd)

-----------------------------------------------------------------------------
(* The window: the INST_DECODE_NUM oldest waiting instructions, named by   *)
(* their positions in rob.                                                 *)
Waiting   == {k \in 1 .. Len(rob) : rob[k].st = "waiting"}
SlotOf(k) == Cardinality({j \in Waiting : j < k})
Window    == {k \in Waiting : SlotOf(k) < INST_DECODE_NUM}
Older(k)  == {j \in Window : j < k}
Inst(k)   == rob[k].inst
Sources(i) == Range(i.rs)

(* v_csr_mask: a CSR instruction issues only as the oldest, alone.         *)
Visible(k) ==
  \A j \in Window : Inst(j).unit = "csr" => k < j \/ (k = j /\ SlotOf(j) = 0)

(* One multiplier; one unit for floating point and CSR together.           *)
SameUnit(i, j) ==
  \/ i.unit = "mext" /\ j.unit = "mext"
  \/ i.unit \in {"float", "csr"} /\ j.unit \in {"float", "csr"}
UnitLock(k) == \E j \in Older(k) : SameUnit(Inst(j), Inst(k))

(* v_reg_lock_comb: an older instruction of the window writes a source or  *)
(* the destination.                                                        *)
RegLock_M(k) ==  \* the destination is not looked at
  \E j \in Older(k) : Renames(Inst(j)) /\ Inst(j).rd \in Sources(Inst(k))
RegLock(k) ==
  \E j \in Older(k) :
    Renames(Inst(j)) /\ Inst(j).rd \in Sources(Inst(k)) \cup {Inst(k).rd}

(* v_rs_lock_comb, v_rs_fp_lock_comb: sources that hold back a younger     *)
(* writer while they wait.  The floating-point form tests rs1 three times. *)
RsLocked(i) == IF MODE = 0 THEN Sources(i) ELSE {i.rs[p] : p \in DOMAIN i.rs \cap {1}}
RsLock_M(k, issuing) == FALSE
RsLock(k, issuing) ==
  \E j \in Older(k) \ issuing : Renames(Inst(k)) /\ Inst(k).rd \in RsLocked(Inst(j))

(* Loads and stores issue in program order.                                *)
InOrderLsu(k, issuing) ==
  Inst(k).unit = "lsu" => \A j \in Older(k) \ issuing : Inst(j).unit # "lsu"

(* Operands written, and a register reserved for the slot.                 *)
RegNotLock(k) ==
  /\ \A r \in Sources(Inst(k)) : entry_commit[reg_phy_id[r]]
  /\ Inst(k).rd # NoReg => pre_allocate_vld[SlotOf(k)]

(* The unit takes it: the load/store unit when it has room, the            *)
(* floating-point unit when none is under way (csr_lock), others always.   *)
csr_lock == \E k \in 1 .. Len(rob) : rob[k].st = "busy" /\ Inst(k).unit = "float"
UnitReady(k, lsu_rdy) ==
  /\ Inst(k).unit = "lsu" => lsu_rdy
  /\ Inst(k).unit \in {"float", "csr"} => ~csr_lock

(* v_eu_vld and v_eu_rdy: the set of slots that issue, as the wires settle *)
(* from the oldest slot to the youngest, each looking at the older ones.   *)
Granted(k, issuing, lsu_rdy) ==
  /\ Visible(k)
  /\ ~UnitLock(k) /\ ~RegLock(k) /\ ~RsLock(k, issuing)
  /\ InOrderLsu(k, issuing) /\ RegNotLock(k) /\ UnitReady(k, lsu_rdy)
Issuing(lsu_rdy) ==
  {ks \in SUBSET Window : ks = {k \in Window : Granted(k, ks, lsu_rdy)}}

(* v_reg_rd_en and v_reg_rd_index, as PhyRegfile takes them.               *)
RdOf(ks) ==
  [s \in {SlotOf(k) : k \in {j \in ks : Inst(j).rd # NoReg}} |->
     Inst(CHOOSE k \in ks : SlotOf(k) = s).rd]
PhysOf(k) == IF Renames(Inst(k)) THEN {pre_allocate_id[SlotOf(k)]} ELSE {}

-----------------------------------------------------------------------------
(* One clock cycle: a set of instructions issues, a set of busy ones ends, *)
(* the r oldest retire, up to INST_READ_CHANNEL new ones are dispatched.   *)
Immediate(k) == Inst(k).unit \in {"alu", "csr"}
Busy         == {k \in 1 .. Len(rob) : rob[k].st = "busy"}
Done_M(k)    == \A j \in 1 .. k : rob[j].st # "waiting"
Done(k)      == \A j \in 1 .. k : rob[j].st = "done"

Retirable == {r \in 0 .. COMMIT_REL_CHANNEL : r <= Len(rob) /\ Done(r)}
AllRetire(r) == r \in Retirable /\ r + 1 \notin Retirable
Retiring(r) == [a \in Arch |-> Cardinality({k \in 1 .. r : Renames(Inst(k)) /\ Inst(k).rd = a})]

Written(issuing, ended) ==
  (UNION {PhysOf(k) : k \in {j \in issuing : Immediate(j)}}) \cup
  {rob[k].phys : k \in {j \in ended : Renames(Inst(j))}}

Advance_M(issuing, ended) ==
  [k \in 1 .. Len(rob) |->
    IF k \in issuing
    THEN [inst |-> Inst(k), st |-> IF Immediate(k) THEN "done" ELSE "busy",
          phys |-> pre_allocate_id[SlotOf(k)]]
    ELSE [rob[k] EXCEPT !.st = IF k \in ended THEN "done" ELSE @]]

Advance(issuing, ended) ==
  [k \in 1 .. Len(rob) |->
    IF k \in issuing
    THEN [inst |-> Inst(k), st |-> IF Immediate(k) THEN "done" ELSE "busy",
          phys |-> IF Renames(Inst(k)) THEN pre_allocate_id[SlotOf(k)] ELSE NoReg]
    ELSE [rob[k] EXCEPT !.st = IF k \in ended THEN "done" ELSE @]]

NextRob(issuing, ended, r, new, cancel) ==
  rob' = IF cancel THEN <<>>
         ELSE SubSeq(Advance(issuing, ended), r + 1, Len(rob)) \o
              [i \in DOMAIN new |-> [inst |-> new[i], st |-> "waiting", phys |-> NoReg]]

Step(lsu_rdy, ended, r, new, cancel) ==
  \E issuing \in Issuing(lsu_rdy) :
    /\ Clock(RdOf(issuing), Written(issuing, ended), Retiring(r), cancel)
    /\ NextRob(issuing, ended, r, new, cancel)

(* What the fetch queue and the issue buffer let through in one cycle.     *)
Dispatched == UNION {[1 .. n -> Insts] : n \in 0 .. INST_READ_CHANNEL}

(* No misprediction among the retiring: all that can retire do.            *)
Advances(lsu_rdy, ended) ==
  /\ ~cancel_edge_en_d
  /\ \E new \in Dispatched, r \in Retirable :
       /\ AllRetire(r) /\ Len(rob) + Len(new) <= IN_FLIGHT
       /\ Step(lsu_rdy, ended, r, new, FALSE)

IssueRun == \E lsu_rdy \in BOOLEAN : \E ended \in SUBSET Busy : Advances(lsu_rdy, ended)

(* The r-th of the retiring was mispredicted and is the last to retire.    *)
IssueCancel ==
  /\ ~cancel_edge_en_d
  /\ \E lsu_rdy \in BOOLEAN : \E ended \in SUBSET Busy, r \in Retirable \ {0} :
       Step(lsu_rdy, ended, r, <<>>, TRUE)

IssueRecover == cancel_edge_en_d /\ Step(FALSE, {}, 0, <<>>, FALSE)

IssueInit == Init /\ rob = <<>>
IssueNext == IssueRun \/ IssueCancel \/ IssueRecover
IssueSpec == IssueInit /\ [][IssueNext]_allvars

(* Units finish what they were given and the load/store unit has room      *)
(* again, in a cycle of their own choice.                                  *)
UnitsFinish == IssueRecover \/ Advances(TRUE, Busy)
IssueFairSpec == IssueSpec /\ WF_allvars(UnitsFinish)

-----------------------------------------------------------------------------
IssueTypeOK ==
  /\ Len(rob) <= IN_FLIGHT
  /\ \A k \in 1 .. Len(rob) :
       /\ Inst(k) \in Insts /\ rob[k].st \in {"waiting", "busy", "done"}
       /\ rob[k].phys \in Phys <=> (rob[k].st # "waiting" /\ Renames(Inst(k)))

(* Whatever issues reads, for each source, the register of the youngest    *)
(* older writer in program order, or the committed one: no read after      *)
(* write, write after read or write after write is seen out of order,      *)
(* although renaming itself happens out of order.                          *)
Writers(k, r) == {j \in 1 .. k - 1 : Renames(Inst(j)) /\ Inst(j).rd = r}
YoungestWriter(k, r) == CHOOSE j \in Writers(k, r) : \A i \in Writers(k, r) : i <= j
ReadsProgramOrder ==
  \A k \in UNION Issuing(TRUE) : \A r \in Sources(Inst(k)) :
    reg_phy_id[r] = IF Writers(k, r) = {} THEN backup_phy_id[r]
                    ELSE rob[YoungestWriter(k, r)].phys

(* Retirement hands destinations back in the order the register file saw   *)
(* them issued: per register, issue order is program order.                *)
PendingInProgramOrder ==
  \A a \in Arch :
    LET issued == {k \in 1 .. Len(rob) : Inst(k).rd = a /\ rob[k].phys \in Phys}
    IN /\ Len(pending[a]) = Cardinality(issued)
       /\ \A k \in issued : pending[a][Cardinality({j \in issued : j <= k})] = rob[k].phys

(* The issue stage and retirement keep the contract PhyRegfile is proved   *)
(* under: its cycles are cycles of PhyRegfile.                             *)
KeepsRegfileContract == [][Next]_vars

(* However many registers younger instructions hold, the oldest waiting    *)
(* instruction issues: the last free register is kept for slot 0.          *)
OldestWaits == rob # <<>> /\ Head(rob).st = "waiting"
OldestIssues == OldestWaits ~> ~OldestWaits
=============================================================================

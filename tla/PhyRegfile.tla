----------------------------- MODULE PhyRegfile -----------------------------
(***************************************************************************)
(* Register renaming of the out-of-order core: toy_regfile, which wires    *)
(* together the speculative rename table (toy_rename_regfile), the         *)
(* committed table kept for recovery (toy_backup_rename_regfile) and the   *)
(* physical registers with their free flags (toy_physicial_regfile).       *)
(*                                                                         *)
(* One step is one clock cycle.  In one and the same cycle the issue stage *)
(* takes pre-allocated registers, execution units write results, the       *)
(* commit stage retires up to COMMIT_REL_CHANNEL destinations and, when    *)
(* the last retired instruction was mispredicted, cancels the rest.        *)
(***************************************************************************)
EXTENDS Integers, FiniteSets, Sequences, Functions

CONSTANTS
  ARCH_ENTRY_NUM,      \* architectural registers (32)
  PHY_REG_NUM,         \* physical registers (64)
  INST_DECODE_NUM,     \* issue slots, each with one pre-allocated register (4)
  COMMIT_REL_CHANNEL,  \* destinations retired per cycle at most (4)
  MODE                 \* 0: integer file, register 0 is the constant zero; 1: FP

ASSUME RegfileAssumption ==
  /\ ARCH_ENTRY_NUM \in Nat \ {0}
  /\ PHY_REG_NUM \in Nat
  /\ ARCH_ENTRY_NUM <= PHY_REG_NUM
  /\ INST_DECODE_NUM \in Nat \ {0}
  /\ COMMIT_REL_CHANNEL \in Nat \ {0}
  /\ MODE \in {0, 1}

Arch  == 0 .. ARCH_ENTRY_NUM - 1
Phys  == 0 .. PHY_REG_NUM - 1
Slots == 0 .. INST_DECODE_NUM - 1

(* Architectural register 0 of the integer file is never renamed, and      *)
(* physical register 0 of the integer file is wired, not clocked.          *)
Wired(r) == MODE = 0 /\ r = 0

VARIABLES
  reg_phy_id,         \* speculative rename table
  backup_phy_id,      \* committed rename table
  release_en,         \* per physical register: entry_release_en_reg, free
  entry_backup,       \* per physical register: holds a committed value
  entry_commit,       \* per physical register: written (readable)
  pre_allocate_vld,   \* per slot: a register is reserved for next cycle
  pre_allocate_id,    \* per slot: which one
  cancel_edge_en_d,   \* cancel_edge_en, one cycle later
  pending             \* the back end's view: per architectural register, the
                      \* destinations issued and not retired, oldest first

files   == <<reg_phy_id, backup_phy_id>>
entries == <<release_en, entry_backup, entry_commit>>
preall  == <<pre_allocate_vld, pre_allocate_id>>
vars    == <<files, entries, preall, cancel_edge_en_d, pending>>

-----------------------------------------------------------------------------
InFlight  == UNION {Range(pending[a]) : a \in Arch}
Committed == Range(backup_phy_id)

Init ==
  /\ reg_phy_id = [a \in Arch |-> a]
  /\ backup_phy_id = [a \in Arch |-> a]
  /\ release_en = [p \in Phys |-> p >= ARCH_ENTRY_NUM]
  /\ entry_backup = [p \in Phys |-> p < ARCH_ENTRY_NUM]
  /\ entry_commit = [p \in Phys |-> TRUE]
  /\ pre_allocate_vld = [s \in Slots |-> FALSE]
  /\ pre_allocate_id = [s \in Slots |-> 0]
  /\ cancel_edge_en_d = FALSE
  /\ pending = [a \in Arch |-> <<>>]

(* Definitions named X_M are mutated forms of X, used to show that the      *)
(* properties below notice a plausible error in X.                         *)
-----------------------------------------------------------------------------
(* Inputs of a cycle.                                                      *)
(*   rd  : issuing slots (a set) to the architectural register they write. *)
(*   wr  : physical registers written by the execution units.              *)
(*   n   : how many of each register's pending destinations retire.        *)

(* The issue stage needs a reserved register in the slot, and never issues *)
(* two writers of the same register in one cycle (x0 is not a hazard).  In *)
(* the cycle after a cancel its window is empty.                           *)
LegalIssue(rd) ==
  /\ cancel_edge_en_d => DOMAIN rd = {}
  /\ \A s \in DOMAIN rd : pre_allocate_vld[s]
  /\ \A s, t \in DOMAIN rd : rd[s] = rd[t] /\ ~Wired(rd[s]) => s = t

(* Registers really taken: a slot whose destination is x0 takes none.      *)
Allocated(rd) == {pre_allocate_id[s] : s \in {t \in DOMAIN rd : ~Wired(rd[t])}}

(* A unit writes the destination of a live instruction, once; an ALU does  *)
(* so in the very cycle it is issued.                                      *)
Writable(rd) == {p \in InFlight : ~entry_commit[p]} \cup Allocated(rd)

(* Retirement is in program order and needs the result.                    *)
LegalCommit(n) ==
  \A a \in Arch : /\ n[a] <= Len(pending[a])
                  /\ \A i \in 1 .. n[a] : entry_commit[pending[a][i]]

(* v_backup_en: every retiring destination; v_release_en: the committed    *)
(* register it replaces, and the retiring destinations that a younger one  *)
(* of the same group replaces at once (v_phy_release_comb_en).             *)
BackupEn(n)  == UNION {{pending[a][i] : i \in 1 .. n[a]} : a \in Arch}
ReleaseEn_M(n) == {backup_phy_id[a] : a \in {b \in Arch : n[b] > 0}}
ReleaseEn(n) == {backup_phy_id[a] : a \in {b \in Arch : n[b] > 0}} \cup
                UNION {{pending[a][i] : i \in 1 .. n[a] - 1} : a \in Arch}

(* cmn_list_lead_one: slot s gets the idle entry that has s idle entries   *)
(* below it; without one the slot is invalid and its id reads zero.        *)
Idle_M(rd) == {p \in Phys : entry_commit[p] /\ release_en[p]}
Idle(rd) == {p \in Phys : entry_commit[p] /\ release_en[p] /\ p \notin Allocated(rd)}
LeadOne_M(idle, s) == {p \in idle : Cardinality({q \in idle : q < p}) <= s}
LeadOne(idle, s) == {p \in idle : Cardinality({q \in idle : q < p}) = s}

PreAllocate_M(rd) ==
  /\ pre_allocate_vld' = [s \in Slots |-> LeadOne(Idle(rd), s) # {}]
  /\ pre_allocate_id' = [s \in Slots |->
       IF LeadOne(Idle(rd), s) # {} THEN 1 + CHOOSE p \in LeadOne(Idle(rd), s) : TRUE ELSE 0]

(* Youngest slot first.                                                    *)
PreAllocate_M2(rd) ==
  LET Lead(s) == LeadOne(Idle(rd), INST_DECODE_NUM - 1 - s)
  IN /\ pre_allocate_vld' = [s \in Slots |-> Lead(s) # {}]
     /\ pre_allocate_id' = [s \in Slots |-> IF Lead(s) # {} THEN CHOOSE p \in Lead(s) : TRUE ELSE 0]

PreAllocate(rd) ==
  /\ pre_allocate_vld' = [s \in Slots |-> LeadOne(Idle(rd), s) # {}]
  /\ pre_allocate_id' = [s \in Slots |->
       IF LeadOne(Idle(rd), s) # {} THEN CHOOSE p \in LeadOne(Idle(rd), s) : TRUE ELSE 0]

-----------------------------------------------------------------------------
(* Physical registers: the three flags of every entry, with the priorities *)
(* of the clocked blocks.                                                  *)
Dropped(p, n, cancel) == cancel /\ ~entry_backup[p] /\ p \notin BackupEn(n)

NextRelease(rd, n, cancel) ==
  release_en' = [p \in Phys |->
    IF Wired(p) THEN release_en[p]
    ELSE \/ p \in ReleaseEn(n)
         \/ Dropped(p, n, cancel)
         \/ release_en[p] /\ p \notin Allocated(rd)]

NextBackup_M(n) ==
  entry_backup' = [p \in Phys |->
    IF Wired(p) THEN entry_backup[p]
    ELSE p \in BackupEn(n) \/ (entry_backup[p] /\ p \notin ReleaseEn(n))]

NextBackup(n) ==
  entry_backup' = [p \in Phys |->
    IF Wired(p) THEN entry_backup[p]
    ELSE p \notin ReleaseEn(n) /\ (p \in BackupEn(n) \/ entry_backup[p])]

NextCommit(rd, wr, n, cancel) ==
  entry_commit' = [p \in Phys |->
    IF Wired(p) THEN entry_commit[p]
    ELSE \/ Dropped(p, n, cancel)
         \/ p \in wr
         \/ entry_commit[p] /\ p \notin Allocated(rd)]

(* Committed table: the youngest retiring destination of each register.    *)
NextBackupTable(n) ==
  backup_phy_id' = [a \in Arch |->
    IF n[a] > 0 /\ ~Wired(a) THEN pending[a][n[a]] ELSE backup_phy_id[a]]

(* Rename table: recovery, one cycle after the cancel, overrides issue.    *)
Renamed_M(rd, a) == \E s \in DOMAIN rd : rd[s] = a
Renamed(rd, a) == ~Wired(a) /\ \E s \in DOMAIN rd : rd[s] = a
NewId(rd, a)   == pre_allocate_id[CHOOSE s \in DOMAIN rd : rd[s] = a]

NextRename_M(rd) ==
  reg_phy_id' = [a \in Arch |-> IF Renamed(rd, a) THEN NewId(rd, a) ELSE reg_phy_id[a]]

NextRename(rd) ==
  reg_phy_id' = [a \in Arch |->
    IF cancel_edge_en_d /\ ~Wired(a) THEN backup_phy_id[a]
    ELSE IF Renamed(rd, a) THEN NewId(rd, a)
    ELSE reg_phy_id[a]]

(* The back end: retired destinations leave at the front, issued ones join *)
(* at the back; a cancel drops everything younger than the retired.        *)
Remaining(n, a) == SubSeq(pending[a], n[a] + 1, Len(pending[a]))
NextPending(rd, n, cancel) ==
  pending' = [a \in Arch |->
    IF cancel THEN <<>>
    ELSE IF Renamed(rd, a) THEN Append(Remaining(n, a), NewId(rd, a))
    ELSE Remaining(n, a)]

Clock(rd, wr, n, cancel) ==
  /\ NextRename(rd)
  /\ NextBackupTable(n)
  /\ NextRelease(rd, n, cancel)
  /\ NextBackup(n)
  /\ NextCommit(rd, wr, n, cancel)
  /\ PreAllocate(rd)
  /\ NextPending(rd, n, cancel)
  /\ cancel_edge_en_d' = cancel

-----------------------------------------------------------------------------
Issues  == UNION {[S -> Arch] : S \in SUBSET Slots}
NoDest  == ARCH_ENTRY_NUM      \* a channel that retires no destination
Retires == {[a \in Arch |-> Cardinality({c \in DOMAIN g : g[c] = a})] :
              g \in [1 .. COMMIT_REL_CHANNEL -> Arch \cup {NoDest}]}

(* A cycle without a misprediction.                                        *)
Run ==
  /\ ~cancel_edge_en_d
  /\ \E rd \in Issues, n \in Retires :
       /\ LegalIssue(rd) /\ LegalCommit(n)
       /\ \E wr \in SUBSET Writable(rd) : Clock(rd, wr, n, FALSE)

(* The last retiring instruction was mispredicted: cancel_edge_en.         *)
Cancel ==
  /\ ~cancel_edge_en_d
  /\ \E rd \in Issues, n \in Retires :
       /\ LegalIssue(rd) /\ LegalCommit(n)
       /\ \E wr \in SUBSET Writable(rd) : Clock(rd, wr, n, TRUE)

(* The cycle after: the rename table is reloaded; every queue is empty.    *)
Recover ==
  /\ cancel_edge_en_d
  /\ Clock(<<>>, {}, [a \in Arch |-> 0], FALSE)

Next == Run \/ Cancel \/ Recover

Spec == Init /\ [][Next]_vars

-----------------------------------------------------------------------------
TypeOK ==
  /\ reg_phy_id \in [Arch -> Phys]
  /\ backup_phy_id \in [Arch -> Phys]
  /\ release_en \in [Phys -> BOOLEAN]
  /\ entry_backup \in [Phys -> BOOLEAN]
  /\ entry_commit \in [Phys -> BOOLEAN]
  /\ pre_allocate_vld \in [Slots -> BOOLEAN]
  /\ pre_allocate_id \in [Slots -> Phys]
  /\ cancel_edge_en_d \in BOOLEAN
  /\ pending \in [Arch -> Seq(Phys)]

(* Register 0 of the integer file stays mapped to the wired register 0,    *)
(* whatever writes of x0 are issued, retired or cancelled.                 *)
ZeroStays ==
  MODE = 0 => reg_phy_id[0] = 0 /\ backup_phy_id[0] = 0 /\ pending[0] = <<>>

(* No physical register is lost and none is in use twice: the free flags   *)
(* are down exactly for the registers that hold a committed value or are   *)
(* the destination of an instruction in flight, whatever mix of issue,     *)
(* retirement and cancel the past cycles held.                             *)
FreeListExact ==
  \A p \in Phys : release_en[p] <=> p \notin Committed \cup InFlight

(* Each register in use has one owner: two architectural registers never   *)
(* share a committed register, no destination in flight is handed out      *)
(* twice, and none in flight is also a committed one.                      *)
OneOwner ==
  /\ IsInjective(backup_phy_id)
  /\ \A a, b \in Arch : \A i \in 1 .. Len(pending[a]), j \in 1 .. Len(pending[b]) :
       pending[a][i] = pending[b][j] => a = b /\ i = j
  /\ Committed \cap InFlight = {}

(* entry_backup, the flag a cancel relies on to tell what to keep, marks   *)
(* exactly the committed registers; those and the free ones are readable.  *)
BackupFlagExact ==
  \A p \in Phys : /\ entry_backup[p] <=> p \in Committed
                  /\ entry_backup[p] \/ release_en[p] => entry_commit[p]

(* The registers reserved for the slots one cycle ahead are still free     *)
(* when they are taken, and differ.                                        *)
PreAllocateFree ==
  \A s, t \in Slots :
    pre_allocate_vld[s] =>
      /\ release_en[pre_allocate_id[s]]
      /\ ~Wired(pre_allocate_id[s])
      /\ pre_allocate_vld[t] /\ pre_allocate_id[s] = pre_allocate_id[t] => s = t

(* A reader finds the youngest older writer: the rename table names the    *)
(* last destination issued, else the committed register.  It may lag only  *)
(* in the one cycle after a cancel, in which nothing is in flight.         *)
RenameYoungest ==
  \A a \in Arch :
    IF cancel_edge_en_d THEN pending[a] = <<>>
    ELSE reg_phy_id[a] = IF pending[a] = <<>> THEN backup_phy_id[a]
                         ELSE pending[a][Len(pending[a])]

=============================================================================

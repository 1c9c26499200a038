-------------------------- MODULE IssueStage_proofs --------------------------
(***************************************************************************)
(* Out-of-order issue reads what program order demands, for every number   *)
(* of slots, registers and instructions in flight, and uses the register   *)
(* file only as PhyRegfile allows, so that what PhyRegfile_proofs shows of *)
(* the register file holds in the core.                                    *)
(*                                                                         *)
(* The argument: of each register, the writers that have issued are the    *)
(* first ones in program order, and pending lists them in that order; no   *)
(* writer younger than a waiting reader has issued.                        *)
(***************************************************************************)
EXTENDS IssueStage, PhyRegfile_proofs

Issued(k)    == rob[k].st # "waiting"
Writes(k, a) == Renames(Inst(k)) /\ Inst(k).rd = a

Entry == [inst : Insts, st : {"waiting", "busy", "done"}, phys : Phys \cup {NoReg}]

(* Per register, program order is issue order ...                          *)
WritersInOrder ==
  \A a \in Arch : \A j, k \in 1 .. Len(rob) :
    j < k /\ Writes(j, a) /\ Writes(k, a) /\ Issued(k) => Issued(j)

(* ... which pending keeps: f[i] is the position of its i-th destination.  *)
IsIndex(f, a) ==
  /\ f \in [1 .. Len(pending[a]) -> 1 .. Len(rob)]
  /\ \A i, j \in 1 .. Len(pending[a]) : i < j => f[i] < f[j]
  /\ \A i \in 1 .. Len(pending[a]) :
       Writes(f[i], a) /\ Issued(f[i]) /\ rob[f[i]].phys = pending[a][i]
  /\ \A k \in 1 .. Len(rob) :
       Writes(k, a) /\ Issued(k) => \E i \in 1 .. Len(pending[a]) : f[i] = k
PendingIndexed == \A a \in Arch : \E f : IsIndex(f, a)

(* A register is written when its instruction is done.                     *)
WrittenWhenDone ==
  \A k \in 1 .. Len(rob) :
    Renames(Inst(k)) /\ Issued(k) => (entry_commit[rob[k].phys] <=> rob[k].st = "done")

(* No younger writer overtakes a waiting reader.                           *)
ReadersFirst ==
  MODE = 0 =>
    \A k, m \in 1 .. Len(rob) : \A a \in Arch :
      k < m /\ ~Issued(k) /\ a \in Sources(Inst(k)) /\ Writes(m, a) => ~Issued(m)

RobInv ==
  /\ rob \in Seq(Entry)
  /\ IssueTypeOK
  /\ WritersInOrder
  /\ PendingIndexed
  /\ WrittenWhenDone
  /\ ReadersFirst
  /\ cancel_edge_en_d => rob = <<>>

StageInv == IInv /\ RobInv

-----------------------------------------------------------------------------
(* Counting with an increasing function.                                   *)
LEMMA Increasing ==
  ASSUME NEW n \in Nat, NEW f \in [1 .. n -> Int], \A i, j \in 1 .. n : i < j => f[i] < f[j],
         NEW m \in 0 .. n, NEW T, \A x : x \in T <=> \E i \in 1 .. m : x = f[i]
  PROVE  IsFiniteSet(T) /\ Cardinality(T) = m
<1> DEFINE g == [i \in 1 .. m |-> f[i]]
<1>1. g \in [1 .. m -> T]
  OBVIOUS
<1>2. \A t \in T : \E i \in 1 .. m : g[i] = t
  OBVIOUS
<1>3. \A i, j \in 1 .. m : g[i] = g[j] => i = j
  <2> TAKE i, j \in 1 .. m
  <2>1. i \in 1 .. n /\ j \in 1 .. n
    OBVIOUS
  <2> QED BY <2>1
<1>4. g \in Bijection(1 .. m, T)
  <2> HIDE DEF g
  <2> QED BY <1>1, <1>2, <1>3 DEF Bijection, Injection, Surjection, IsInjective
<1>5. IsFiniteSet(1 .. m) /\ Cardinality(1 .. m) = m
  BY FS_Interval
<1>6. ExistsBijection(1 .. m, T)
  BY <1>4, Zenon DEF ExistsBijection
<1> QED BY <1>5, <1>6, FS_Bijection

(* A set of the first numbers from 1 on is an interval.                    *)
LEMMA FirstOnes ==
  ASSUME NEW n \in Nat, NEW S \in SUBSET (1 .. n), \A j \in S : \A i \in 1 .. j : i \in S
  PROVE  Cardinality(S) \in 0 .. n /\ S = 1 .. Cardinality(S)
<1>1. IsFiniteSet(1 .. n) /\ Cardinality(1 .. n) = n
  BY FS_Interval
<1>2. IsFiniteSet(S) /\ Cardinality(S) <= n /\ Cardinality(S) \in Nat
  BY <1>1, FS_Subset, FS_CardinalityType
<1>3. \A j \in S : j <= Cardinality(S)
  <2> TAKE j \in S
  <2>1. j \in Nat /\ j >= 1 /\ 1 .. j \subseteq S
    OBVIOUS
  <2>2. Cardinality(1 .. j) = j
    BY <2>1, FS_Interval
  <2> QED BY <1>2, <2>1, <2>2, FS_Subset
<1> DEFINE c == Cardinality(S)
<1>4. c \in 0 .. n /\ S \subseteq 1 .. c
  BY <1>2, <1>3
<1>5. c = Cardinality(S)
  OBVIOUS
<1> HIDE DEF c
<1>6. IsFiniteSet(1 .. c) /\ Cardinality(1 .. c) = c
  BY <1>4, FS_Interval
<1>7. S = 1 .. c
  BY <1>4, <1>5, <1>6, FS_Subset
<1> QED BY <1>4, <1>5, <1>7

-----------------------------------------------------------------------------
(* Entries and their instructions.                                         *)
LEMMA EntryFacts ==
  ASSUME RobInv
  PROVE  /\ Len(rob) \in Nat
         /\ \A k \in 1 .. Len(rob) :
              /\ rob[k] \in Entry /\ Inst(k) \in Insts
              /\ Inst(k).rd \in Arch \cup {NoReg} /\ Sources(Inst(k)) \subseteq Arch
              /\ Renames(Inst(k)) => Inst(k).rd \in Arch /\ Inst(k).rd # NoReg
         /\ \A k : k \in Waiting <=> k \in 1 .. Len(rob) /\ ~Issued(k)
         /\ Window \subseteq Waiting
<1>1. Len(rob) \in Nat /\ \A k \in 1 .. Len(rob) : rob[k] \in Entry
  BY ElementOfSeq, LenProperties DEF RobInv
<1>2. \A k \in 1 .. Len(rob) : Inst(k) \in Insts
  BY <1>1 DEF Entry, Inst
<1>3. \A k \in 1 .. Len(rob) :
        Inst(k).rd \in Arch \cup {NoReg} /\ Sources(Inst(k)) \subseteq Arch
  BY <1>2, IssueAssumption DEF Sources
<1>4. Waiting \subseteq 1 .. Len(rob) /\ Window \subseteq Waiting
  BY DEF Waiting, Window
<1> QED BY <1>1, <1>2, <1>3, <1>4 DEF Waiting, Issued, Renames

(* Slots number the waiting instructions from the oldest on.               *)
LEMMA SlotFacts ==
  ASSUME RobInv
  PROVE  /\ \A k \in Waiting : SlotOf(k) \in Nat
         /\ \A j, k \in Waiting : j < k => SlotOf(j) < SlotOf(k)
         /\ \A j, k \in Waiting : SlotOf(j) = SlotOf(k) => j = k
         /\ \A k \in Window : SlotOf(k) \in Slots /\ Older(k) = {j \in Waiting : j < k}
<1>1. Len(rob) \in Nat /\ Waiting \in SUBSET (1 .. Len(rob))
  BY EntryFacts DEF Waiting
<1>2. IsFiniteSet(Waiting)
  <2>1. IsFiniteSet(1 .. Len(rob))
    BY <1>1, FS_Interval
  <2> QED BY <1>1, <2>1, FS_Subset
<1>3. ASSUME NEW k \in Waiting
      PROVE  /\ k \in Int /\ SlotOf(k) \in Nat
             /\ IsFiniteSet({j \in Waiting : j < k})
  <2>1. {j \in Waiting : j < k} \in SUBSET Waiting
    OBVIOUS
  <2>2. IsFiniteSet({j \in Waiting : j < k})
    BY <1>2, <2>1, FS_Subset
  <2>3. SlotOf(k) \in Nat
    BY <2>2, FS_CardinalityType DEF SlotOf
  <2> QED BY <1>1, <2>2, <2>3
<1>4. ASSUME NEW j \in Waiting, NEW k \in Waiting, j < k
      PROVE  SlotOf(j) < SlotOf(k)
  <2> DEFINE J == {i \in Waiting : i < j}
             S == {i \in Waiting : i < k}
  <2>0. \A i \in Waiting : i \in Int
    BY <1>3
  <2>1. J \in SUBSET S /\ j \in S /\ j \notin J
    BY <1>4, <2>0
  <2>2. /\ IsFiniteSet(S) /\ SlotOf(j) = Cardinality(J) /\ SlotOf(k) = Cardinality(S)
        /\ SlotOf(j) \in Nat /\ SlotOf(k) \in Nat
    BY <1>3 DEF SlotOf
  <2> HIDE DEF J, S
  <2>3. Cardinality(J) <= Cardinality(S) /\ (Cardinality(J) = Cardinality(S) => J = S)
    BY <2>1, <2>2, FS_Subset
  <2> QED BY <2>1, <2>2, <2>3
<1>5. ASSUME NEW j \in Waiting, NEW k \in Waiting, SlotOf(j) = SlotOf(k)
      PROVE  j = k
  <2>1. j \in Int /\ k \in Int /\ SlotOf(j) \in Nat /\ SlotOf(k) \in Nat
    BY <1>3, Zenon
  <2>2. (j < k => SlotOf(j) < SlotOf(k)) /\ (k < j => SlotOf(k) < SlotOf(j))
    BY <1>4
  <2> QED BY <1>5, <2>1, <2>2
<1>6. ASSUME NEW k \in Window
      PROVE  SlotOf(k) \in Slots /\ Older(k) = {j \in Waiting : j < k}
  <2>1. k \in Waiting /\ SlotOf(k) < INST_DECODE_NUM /\ SlotOf(k) \in Nat
    BY <1>3 DEF Window
  <2>2. ASSUME NEW j \in Waiting, j < k PROVE j \in Window
    <3>1. SlotOf(j) < SlotOf(k) /\ SlotOf(j) \in Nat
      BY <1>3, <1>4, <2>1, <2>2
    <3> QED BY <2>1, <3>1, RegfileAssumption DEF Window
  <2>3. Window \subseteq Waiting
    BY DEF Window
  <2>4. SlotOf(k) \in Slots
    BY <2>1, RegfileAssumption DEF Slots
  <2> QED BY <2>2, <2>3, <2>4 DEF Older
<1> QED BY <1>3, <1>4, <1>5, <1>6

-----------------------------------------------------------------------------
(* What the hazard checks promise of the instructions that issue together. *)
LEMMA GrantFacts ==
  ASSUME StageInv, NEW rdy, NEW I \in Issuing(rdy)
  PROVE  /\ I \subseteq Window
         /\ \A k \in I : /\ k \in Waiting /\ k \in 1 .. Len(rob) /\ ~Issued(k)
                         /\ SlotOf(k) \in Slots
                         /\ Inst(k).rd # NoReg => pre_allocate_vld[SlotOf(k)]
         /\ \A j, k \in I : SlotOf(j) = SlotOf(k) => j = k
         /\ \A k \in I : \A j \in Waiting : \A a \in Arch :
              j < k /\ Writes(j, a) => ~Writes(k, a) /\ a \notin Sources(Inst(k))
         /\ \A k \in I : \A j \in Waiting \ I : \A a \in Arch :
              MODE = 0 /\ j < k /\ Writes(k, a) => a \notin Sources(Inst(j))
         /\ \A j, k \in I : \A a \in Arch : Writes(j, a) /\ Writes(k, a) => j = k
<1>0. RobInv
  BY DEF StageInv
<1>1. I \in SUBSET Window /\ I = {k \in Window : Granted(k, I, rdy)}
  BY DEF Issuing
<1>2. ASSUME NEW k \in I
      PROVE  /\ k \in Window /\ k \in Waiting /\ k \in 1 .. Len(rob) /\ ~Issued(k)
             /\ SlotOf(k) \in Slots /\ Older(k) = {j \in Waiting : j < k}
             /\ ~RegLock(k) /\ ~RsLock(k, I) /\ RegNotLock(k)
  <2>1. k \in Window /\ Granted(k, I, rdy)
    BY <1>1
  <2>2. k \in Waiting /\ k \in 1 .. Len(rob) /\ ~Issued(k)
    BY <1>0, <2>1, EntryFacts
  <2>3. SlotOf(k) \in Slots /\ Older(k) = {j \in Waiting : j < k}
    BY <1>0, <2>1, SlotFacts
  <2> QED BY <2>1, <2>2, <2>3 DEF Granted
<1>3. \A j, k \in I : SlotOf(j) = SlotOf(k) => j = k
  BY <1>0, <1>2, SlotFacts
<1>4. ASSUME NEW k \in I, NEW j \in Waiting, NEW a \in Arch, j < k, Writes(j, a)
      PROVE  ~Writes(k, a) /\ a \notin Sources(Inst(k))
  <2>1. j \in Older(k) /\ ~RegLock(k)
    BY <1>2, <1>4
  <2> QED BY <1>4, <2>1 DEF RegLock, Writes
<1>5. ASSUME NEW k \in I, NEW j \in Waiting \ I, NEW a \in Arch,
             MODE = 0, j < k, Writes(k, a)
      PROVE  a \notin Sources(Inst(j))
  <2>1. j \in Older(k) \ I /\ ~RsLock(k, I)
    BY <1>2, <1>5
  <2> QED BY <1>5, <2>1 DEF RsLock, RsLocked, Writes
<1>6. ASSUME NEW j \in I, NEW k \in I, NEW a \in Arch, Writes(j, a), Writes(k, a)
      PROVE  j = k
  <2>1. j \in 1 .. Len(rob) /\ k \in 1 .. Len(rob) /\ Len(rob) \in Nat
    BY <1>0, <1>2, EntryFacts
  <2>2. j \in Waiting /\ k \in Waiting
    BY <1>2
  <2>3. ~(j < k) /\ ~(k < j)
    BY <1>4, <1>6, <2>2
  <2> QED BY <2>1, <2>3
<1>7. \A k \in I : Inst(k).rd # NoReg => pre_allocate_vld[SlotOf(k)]
  BY <1>2 DEF RegNotLock
<1> QED BY <1>1, <1>2, <1>3, <1>4, <1>5, <1>6, <1>7

(* The register file sees at most one writer of a register per cycle.      *)
LEMMA RdFacts ==
  ASSUME StageInv, NEW rdy, NEW I \in Issuing(rdy)
  PROVE  /\ RdOf(I) \in Issues /\ LegalIssue(RdOf(I))
         /\ \A a \in Arch : Renamed(RdOf(I), a) <=> \E k \in I : Writes(k, a)
         /\ \A a \in Arch : \A k \in I :
              Writes(k, a) => NewId(RdOf(I), a) = pre_allocate_id[SlotOf(k)]
         /\ \A p : p \in Allocated(RdOf(I)) <=>
              \E k \in I : Renames(Inst(k)) /\ p = pre_allocate_id[SlotOf(k)]
<1>0. RobInv /\ NoReg \notin Arch
  BY IssueAssumption DEF StageInv
<1> DEFINE K  == {k \in I : Inst(k).rd # NoReg}
           S  == {SlotOf(k) : k \in K}
           rd == RdOf(I)
<1>1. \A k \in K : /\ k \in I /\ k \in Waiting /\ k \in 1 .. Len(rob) /\ SlotOf(k) \in Slots
                   /\ pre_allocate_vld[SlotOf(k)] /\ Inst(k).rd \in Arch
  <2>1. \A k \in 1 .. Len(rob) : Inst(k).rd \in Arch \cup {NoReg}
    BY <1>0, EntryFacts
  <2> QED BY <2>1, GrantFacts
<1>2. \A j, k \in I : SlotOf(j) = SlotOf(k) => j = k
  BY GrantFacts
<1>3. DOMAIN rd = S /\ \A k \in K : rd[SlotOf(k)] = Inst(k).rd
  <2>1. rd = [s \in S |-> Inst(CHOOSE k \in I : SlotOf(k) = s).rd]
    BY DEF RdOf
  <2>2. ASSUME NEW k \in K
        PROVE  k = CHOOSE j \in I : SlotOf(j) = SlotOf(k)
    BY <1>2, <2>2
  <2> HIDE DEF rd
  <2>3. \A k \in K : SlotOf(k) \in S
    OBVIOUS
  <2> QED BY <2>1, <2>2, <2>3
<1>4. rd \in [S -> Arch] /\ S \in SUBSET Slots
  <2>1. rd = [s \in S |-> rd[s]]
    BY DEF RdOf
  <2> HIDE DEF rd
  <2>2. \A s \in S : rd[s] \in Arch
    BY <1>1, <1>3
  <2>3. S \in SUBSET Slots
    BY <1>1
  <2> QED BY <2>1, <2>2, <2>3
<1>5. rd \in Issues
  BY <1>4, Zenon DEF Issues
<1> HIDE DEF rd
<1>6. \A k \in I : \A a \in Arch : Writes(k, a) => k \in K /\ rd[SlotOf(k)] = a /\ ~Wired(a)
  BY <1>0, <1>3 DEF Writes, Renames
<1>7. \A k \in K : \A a \in Arch : rd[SlotOf(k)] = a /\ ~Wired(a) => Writes(k, a)
  BY <1>3 DEF Writes, Renames
<1>8. \A s \in DOMAIN rd : \E k \in K : s = SlotOf(k)
  BY <1>3
<1>9. \A k \in K : SlotOf(k) \in DOMAIN rd
  BY <1>3
<1> HIDE DEF K, S
<1>10. LegalIssue(rd)
  <2>1. cancel_edge_en_d => DOMAIN rd = {}
    <3>1. ASSUME cancel_edge_en_d, NEW k \in K PROVE FALSE
      <4>1. Len(rob) = 0 /\ k \in 1 .. Len(rob)
        BY <1>0, <1>1, <3>1, EmptySeq DEF RobInv
      <4> QED BY <4>1
    <3> QED BY <1>8, <3>1
  <2>2. \A s \in DOMAIN rd : pre_allocate_vld[s]
    BY <1>1, <1>8
  <2>3. ASSUME NEW s \in DOMAIN rd, NEW t \in DOMAIN rd, rd[s] = rd[t], ~Wired(rd[s])
        PROVE  s = t
    <3>1. PICK k \in K : s = SlotOf(k)
      BY <1>8
    <3>2. PICK j \in K : t = SlotOf(j)
      BY <1>8
    <3>3. rd[s] \in Arch /\ j \in I /\ k \in I
      BY <1>1, <1>3, <3>1, <3>2
    <3>4. Writes(k, rd[s]) /\ Writes(j, rd[s])
      BY <1>7, <2>3, <3>1, <3>2, <3>3
    <3>5. j = k
      BY <3>3, <3>4, GrantFacts
    <3> QED BY <3>1, <3>2, <3>5
  <2> QED BY <2>1, <2>2, <2>3 DEF LegalIssue
<1>11. ASSUME NEW a \in Arch
       PROVE  Renamed(rd, a) <=> \E k \in I : Writes(k, a)
  BY <1>1, <1>6, <1>7, <1>8, <1>9 DEF Renamed
<1>12. ASSUME NEW a \in Arch, NEW k \in I, Writes(k, a)
       PROVE  NewId(rd, a) = pre_allocate_id[SlotOf(k)]
  <2>1. SlotOf(k) \in DOMAIN rd /\ rd[SlotOf(k)] = a
    BY <1>6, <1>9, <1>12
  <2>2. PICK s \in DOMAIN rd : rd[s] = a /\ s = CHOOSE t \in DOMAIN rd : rd[t] = a
    BY <2>1
  <2>3. s = SlotOf(k)
    BY <1>6, <1>10, <1>12, <2>1, <2>2 DEF LegalIssue
  <2> QED BY <2>2, <2>3 DEF NewId
<1>13. ASSUME NEW p
       PROVE  p \in Allocated(rd) <=>
                \E k \in I : Renames(Inst(k)) /\ p = pre_allocate_id[SlotOf(k)]
  <2>1. p \in Allocated(rd) <=> \E k \in K : ~Wired(rd[SlotOf(k)]) /\ p = pre_allocate_id[SlotOf(k)]
    BY <1>8, <1>9 DEF Allocated
  <2>2. \A k \in K : k \in I /\ (~Wired(rd[SlotOf(k)]) <=> Renames(Inst(k)))
    BY <1>0, <1>1, <1>3 DEF Renames
  <2>3. \A k \in I : Renames(Inst(k)) => k \in K
    BY DEF Renames, K
  <2> QED BY <2>1, <2>2, <2>3
<1> QED BY <1>5, <1>10, <1>11, <1>12, <1>13 DEF rd

-----------------------------------------------------------------------------
(* An issued instruction's register is in flight, and is its own.          *)
LEMMA OwnerFacts ==
  ASSUME StageInv
  PROVE  /\ \A k \in 1 .. Len(rob) : Issued(k) /\ Renames(Inst(k)) =>
              /\ rob[k].phys \in InFlight /\ rob[k].phys \in Phys
              /\ ~release_en[rob[k].phys] /\ ~Wired(rob[k].phys)
         /\ \A j, k \in 1 .. Len(rob) :
              /\ Issued(j) /\ Renames(Inst(j)) /\ Issued(k) /\ Renames(Inst(k))
              /\ rob[j].phys = rob[k].phys
              => j = k
<1>0. RobInv /\ TypeOK /\ OneOwner /\ FreeListExact /\ ZeroStays
  BY DEF StageInv, IInv
<1>1. ASSUME NEW k \in 1 .. Len(rob), Issued(k), Renames(Inst(k))
      PROVE  /\ Inst(k).rd \in Arch /\ Writes(k, Inst(k).rd)
             /\ \A f : IsIndex(f, Inst(k).rd) =>
                  \E i \in 1 .. Len(pending[Inst(k).rd]) :
                    f[i] = k /\ rob[k].phys = pending[Inst(k).rd][i]
  <2>1. Inst(k).rd \in Arch
    BY <1>0, <1>1, EntryFacts
  <2>2. Writes(k, Inst(k).rd)
    BY <1>1 DEF Writes
  <2> QED BY <1>1, <2>1, <2>2 DEF IsIndex
<1>2. ASSUME NEW k \in 1 .. Len(rob), Issued(k), Renames(Inst(k))
      PROVE  /\ rob[k].phys \in InFlight /\ rob[k].phys \in Phys
             /\ ~release_en[rob[k].phys] /\ ~Wired(rob[k].phys)
  <2> DEFINE a == Inst(k).rd
             p == rob[k].phys
  <2>1. a \in Arch
    BY <1>1, <1>2
  <2>2. PICK f : IsIndex(f, a)
    BY <1>0, <2>1 DEF RobInv, PendingIndexed
  <2>3. PICK i \in 1 .. Len(pending[a]) : p = pending[a][i]
    BY <1>1, <1>2, <2>2
  <2>4. p \in InFlight
    BY <1>0, <2>1, <2>3, InUse
  <2>5. p \in Phys
    <3>1. pending[a] \in Seq(Phys)
      BY <1>0, <2>1 DEF TypeOK
    <3> QED BY <2>3, <3>1, ElementOfSeq
  <2>6. ~release_en[p]
    BY <1>0, <2>4, <2>5 DEF FreeListExact
  <2>7. ~Wired(p)
    <3>1. ASSUME Wired(p) PROVE FALSE
      <4>1. p \in Arch /\ backup_phy_id[p] = p
        BY <1>0, <3>1, RegfileAssumption DEF Wired, ZeroStays, Arch
      <4>2. p \in Committed
        BY <1>0, <4>1, InUse
      <4> QED BY <1>0, <2>4, <4>2 DEF OneOwner
    <3> QED BY <3>1
  <2> QED BY <2>4, <2>5, <2>6, <2>7
<1>3. ASSUME NEW j \in 1 .. Len(rob), NEW k \in 1 .. Len(rob),
             Issued(j), Renames(Inst(j)), Issued(k), Renames(Inst(k)),
             rob[j].phys = rob[k].phys
      PROVE  j = k
  <2> DEFINE a == Inst(j).rd
             b == Inst(k).rd
  <2>1. a \in Arch /\ b \in Arch
    BY <1>1, <1>3
  <2>2. PICK f : IsIndex(f, a)
    BY <1>0, <2>1 DEF RobInv, PendingIndexed
  <2>3. PICK g : IsIndex(g, b)
    BY <1>0, <2>1 DEF RobInv, PendingIndexed
  <2>4. PICK i \in 1 .. Len(pending[a]) : f[i] = j /\ rob[j].phys = pending[a][i]
    BY <1>1, <1>3, <2>2
  <2>5. PICK l \in 1 .. Len(pending[b]) : rob[k].phys = pending[b][l]
    BY <1>1, <1>3, <2>3
  <2>6. a = b
    BY <1>0, <1>3, <2>1, <2>4, <2>5 DEF OneOwner
  <2>7. PICK n \in 1 .. Len(pending[a]) : f[n] = k /\ rob[k].phys = pending[a][n]
    BY <1>1, <1>3, <2>2, <2>6
  <2>8. n = i
    <3>1. pending[a][n] = pending[a][i]
      BY <1>3, <2>4, <2>7
    <3> HIDE DEF a
    <3> QED BY <1>0, <2>1, <3>1 DEF OneOwner
  <2> QED BY <2>4, <2>7, <2>8
<1> QED BY <1>2, <1>3

(* Of each register, the destinations that retire are the oldest pending.  *)
LEMMA RetireFacts ==
  ASSUME StageInv, NEW r \in Retirable, NEW a \in Arch, NEW f, IsIndex(f, a)
  PROVE  /\ Retiring(r)[a] \in 0 .. Len(pending[a])
         /\ \A i \in 1 .. Len(pending[a]) : f[i] <= r <=> i <= Retiring(r)[a]
<1> DEFINE n == Len(pending[a])
           S == {i \in 1 .. n : f[i] <= r}
           c == Cardinality(S)
           T == {k \in 1 .. r : Renames(Inst(k)) /\ Inst(k).rd = a}
<1>0. RobInv /\ TypeOK
  BY DEF StageInv, IInv
<1>1. n \in Nat /\ Len(rob) \in Nat /\ r \in Nat /\ r <= Len(rob)
  <2>1. n \in Nat
    BY <1>0, LenProperties DEF TypeOK
  <2> QED BY <1>0, <2>1, EntryFacts DEF Retirable
<1>2. \A k \in 1 .. r : k \in 1 .. Len(rob) /\ Issued(k)
  <2>1. \A k \in 1 .. r : rob[k].st = "done"
    BY DEF Retirable, Done
  <2> QED BY <1>1, <2>1 DEF Issued
<1>3. f \in [1 .. n -> Int] /\ \A i, j \in 1 .. n : i < j => f[i] < f[j]
  <2>1. f \in [1 .. n -> 1 .. Len(rob)]
    BY DEF IsIndex
  <2> QED BY <1>1, <2>1 DEF IsIndex
<1>4. \A j \in S : \A i \in 1 .. j : i \in S
  <2> SUFFICES ASSUME NEW j \in S, NEW i \in 1 .. j PROVE i \in S
    OBVIOUS
  <2>1. i \in 1 .. n /\ j \in 1 .. n /\ i <= j /\ f[j] <= r
    BY <1>1
  <2>2. f[i] \in Int /\ f[j] \in Int /\ (i < j => f[i] < f[j])
    BY <1>3, <2>1
  <2> QED BY <1>1, <2>1, <2>2
<1>5. c \in 0 .. n /\ S = 1 .. c
  <2>1. S \in SUBSET (1 .. n)
    OBVIOUS
  <2> HIDE DEF S
  <2> QED BY <1>1, <1>4, <2>1, FirstOnes
<1>6. \A i \in 1 .. n : f[i] <= r <=> i <= c
  <2>1. \A i \in 1 .. n : i \in S <=> f[i] <= r
    OBVIOUS
  <2> HIDE DEF S, c
  <2> QED BY <1>1, <1>5, <2>1
<1> HIDE DEF S, c
<1>7. ASSUME NEW x
      PROVE  x \in T <=> \E i \in 1 .. c : x = f[i]
  <2>1. ASSUME x \in T PROVE \E i \in 1 .. c : x = f[i]
    <3>1. x \in 1 .. Len(rob) /\ Issued(x) /\ Writes(x, a) /\ x <= r
      BY <1>1, <1>2, <2>1 DEF Writes
    <3>2. PICK i \in 1 .. n : f[i] = x
      BY <3>1 DEF IsIndex
    <3> QED BY <1>5, <1>6, <3>1, <3>2
  <2>2. ASSUME NEW i \in 1 .. c PROVE f[i] \in T
    <3>1. i \in 1 .. n /\ i <= c
      BY <1>1, <1>5
    <3>2. f[i] <= r /\ f[i] \in 1 .. Len(rob) /\ Writes(f[i], a)
      BY <1>6, <3>1 DEF IsIndex
    <3> QED BY <1>1, <3>2 DEF Writes
  <2> QED BY <2>1, <2>2
<1>8. Cardinality(T) = c
  <2> HIDE DEF T, n
  <2> QED BY <1>1, <1>3, <1>5, <1>7, Increasing
<1>9. Retiring(r)[a] = Cardinality(T)
  BY DEF Retiring
<1> QED BY <1>5, <1>6, <1>8, <1>9

(* What retires and what is written is what PhyRegfile allows.             *)
LEMMA ContractFacts ==
  ASSUME StageInv, NEW rdy, NEW I \in Issuing(rdy), NEW E \in SUBSET Busy,
         NEW r \in Retirable
  PROVE  /\ Retiring(r) \in Retires /\ LegalCommit(Retiring(r))
         /\ Written(I, E) \in SUBSET Writable(RdOf(I))
<1>0. RobInv /\ r \in Nat /\ r <= Len(rob) /\ r <= COMMIT_REL_CHANNEL /\ Len(rob) \in Nat
  BY EntryFacts, RegfileAssumption DEF StageInv, Retirable
<1>1. Retiring(r) \in Retires
  <2> DEFINE g == [c \in 1 .. COMMIT_REL_CHANNEL |->
                     IF c <= r /\ Renames(Inst(c)) THEN Inst(c).rd ELSE NoDest]
  <2>1. g \in [1 .. COMMIT_REL_CHANNEL -> Arch \cup {NoDest}]
    <3>1. ASSUME NEW c \in 1 .. COMMIT_REL_CHANNEL, c <= r, Renames(Inst(c))
          PROVE  Inst(c).rd \in Arch
      <4>1. c \in 1 .. Len(rob)
        BY <1>0, <3>1, RegfileAssumption
      <4> QED BY <1>0, <3>1, <4>1, EntryFacts
    <3> QED BY <3>1
  <2>2. NoDest \notin Arch
    BY RegfileAssumption DEF NoDest, Arch
  <2>3. ASSUME NEW a \in Arch
        PROVE  {c \in DOMAIN g : g[c] = a} = {k \in 1 .. r : Renames(Inst(k)) /\ Inst(k).rd = a}
    <3>1. 1 .. r \subseteq 1 .. COMMIT_REL_CHANNEL
      BY <1>0, RegfileAssumption
    <3>2. \A c \in 1 .. COMMIT_REL_CHANNEL : c \in 1 .. r <=> c <= r
      BY <1>0, RegfileAssumption
    <3> QED BY <2>2, <3>1, <3>2
  <2>4. Retiring(r) = [a \in Arch |-> Cardinality({c \in DOMAIN g : g[c] = a})]
    BY <2>3 DEF Retiring
  <2> HIDE DEF g
  <2> QED BY <2>1, <2>4 DEF Retires
<1>2. ASSUME NEW a \in Arch
      PROVE  /\ Retiring(r)[a] <= Len(pending[a])
             /\ \A i \in 1 .. Retiring(r)[a] : entry_commit[pending[a][i]]
  <2>1. PICK f : IsIndex(f, a)
    BY <1>0 DEF RobInv, PendingIndexed
  <2>2. /\ Retiring(r)[a] \in 0 .. Len(pending[a]) /\ Len(pending[a]) \in Nat
        /\ \A i \in 1 .. Len(pending[a]) : f[i] <= r <=> i <= Retiring(r)[a]
    <3>1. Len(pending[a]) \in Nat
      BY LenProperties DEF StageInv, IInv, TypeOK
    <3> QED BY <2>1, <3>1, RetireFacts
  <2>3. ASSUME NEW i \in 1 .. Retiring(r)[a]
        PROVE  entry_commit[pending[a][i]]
    <3>1. i \in 1 .. Len(pending[a]) /\ i <= Retiring(r)[a]
      BY <2>2
    <3>2. /\ f[i] \in 1 .. Len(rob) /\ f[i] <= r
          /\ Writes(f[i], a) /\ Issued(f[i]) /\ rob[f[i]].phys = pending[a][i]
      BY <2>1, <2>2, <3>1 DEF IsIndex
    <3>3. f[i] \in 1 .. r
      BY <1>0, <3>2
    <3>4. rob[f[i]].st = "done"
      BY <3>3 DEF Retirable, Done
    <3> QED BY <1>0, <3>2, <3>4 DEF RobInv, WrittenWhenDone, Writes
  <2> QED BY <2>2, <2>3
<1>3. LegalCommit(Retiring(r))
  BY <1>2 DEF LegalCommit
<1>4. ASSUME NEW p \in Written(I, E)
      PROVE  p \in Writable(RdOf(I))
  <2>1. CASE \E k \in I : p \in PhysOf(k)
    <3>1. PICK k \in I : Renames(Inst(k)) /\ p = pre_allocate_id[SlotOf(k)]
      BY <2>1 DEF PhysOf
    <3>2. p \in Allocated(RdOf(I))
      BY <3>1, RdFacts
    <3> QED BY <3>2 DEF Writable
  <2>2. CASE \E k \in E : Renames(Inst(k)) /\ p = rob[k].phys
    <3>1. PICK k \in E : Renames(Inst(k)) /\ p = rob[k].phys
      BY <2>2
    <3>2. k \in 1 .. Len(rob) /\ rob[k].st = "busy" /\ Issued(k) /\ rob[k].st # "done"
      BY DEF Busy, Issued
    <3>3. p \in InFlight
      BY <3>1, <3>2, OwnerFacts
    <3>4. ~entry_commit[p]
      BY <1>0, <3>1, <3>2 DEF RobInv, WrittenWhenDone
    <3> QED BY <3>3, <3>4 DEF Writable
  <2>3. \/ p \in UNION {PhysOf(k) : k \in {j \in I : Immediate(j)}}
        \/ p \in {rob[k].phys : k \in {j \in E : Renames(Inst(j))}}
    BY <1>4 DEF Written
  <2>4. (\E k \in I : p \in PhysOf(k)) \/ (\E k \in E : Renames(Inst(k)) /\ p = rob[k].phys)
    BY <2>3
  <2> QED BY <2>1, <2>2, <2>4
<1> QED BY <1>1, <1>3, <1>4

(* One cycle's effect on pending, register by register.                    *)
LEMMA PendingStep ==
  ASSUME TypeOK, NEW rd, NEW n, NEW a \in Arch, n[a] \in 0 .. Len(pending[a]),
         Renamed(rd, a) => NewId(rd, a) \in Phys, NextPending(rd, n, FALSE)
  PROVE  /\ Len(pending'[a]) = Len(pending[a]) - n[a] + IF Renamed(rd, a) THEN 1 ELSE 0
         /\ \A i \in 1 .. Len(pending[a]) - n[a] : pending'[a][i] = pending[a][i + n[a]]
         /\ Renamed(rd, a) => pending'[a][Len(pending[a]) - n[a] + 1] = NewId(rd, a)
<1>1. pending[a] \in Seq(Phys) /\ Len(pending[a]) \in Nat
  BY LenProperties DEF TypeOK
<1>2. /\ Remaining(n, a) \in Seq(Phys) /\ Len(Remaining(n, a)) = Len(pending[a]) - n[a]
      /\ \A i \in 1 .. Len(pending[a]) - n[a] : Remaining(n, a)[i] = pending[a][i + n[a]]
  BY <1>1, RemainingFacts DEF Remaining
<1>3. pending'[a] = IF Renamed(rd, a) THEN Append(Remaining(n, a), NewId(rd, a))
                    ELSE Remaining(n, a)
  BY DEF NextPending
<1>4. CASE Renamed(rd, a)
  <2>1. /\ Len(Append(Remaining(n, a), NewId(rd, a))) = Len(Remaining(n, a)) + 1
        /\ \A i \in 1 .. Len(Remaining(n, a)) :
             Append(Remaining(n, a), NewId(rd, a))[i] = Remaining(n, a)[i]
        /\ Append(Remaining(n, a), NewId(rd, a))[Len(Remaining(n, a)) + 1] = NewId(rd, a)
    BY <1>2, <1>4, AppendProperties
  <2> QED BY <1>1, <1>2, <1>3, <1>4, <2>1
<1>5. CASE ~Renamed(rd, a)
  BY <1>1, <1>2, <1>3, <1>5
<1> QED BY <1>4, <1>5

-----------------------------------------------------------------------------
LEMMA IsSeq ==
  ASSUME NEW S, NEW n \in Nat, NEW f \in [1 .. n -> S]
  PROVE  f \in Seq(S) /\ Len(f) = n
OBVIOUS

(* One cycle's effect on rob: the r oldest leave, those that issue or end  *)
(* change in place, the new ones wait.                                     *)
RobAfter(I, E, r, new) ==
  /\ rob' \in Seq(Entry) /\ Len(rob') = Len(rob) - r + Len(new)
  /\ \A k \in 1 .. Len(rob) - r :
       /\ rob'[k].inst = Inst(k + r)
       /\ rob'[k].st # "waiting" <=> Issued(k + r) \/ k + r \in I
       /\ rob'[k].st = "done" <=> \/ rob[k + r].st = "done" \/ k + r \in E
                                  \/ k + r \in I /\ Immediate(k + r)
       /\ rob'[k].phys =
            IF k + r \notin I THEN rob[k + r].phys
            ELSE IF Renames(Inst(k + r)) THEN pre_allocate_id[SlotOf(k + r)]
            ELSE NoReg
  /\ \A k \in 1 .. Len(rob') : k \notin 1 .. Len(rob) - r =>
       rob'[k].st = "waiting" /\ rob'[k].phys = NoReg

LEMMA RobStep ==
  ASSUME StageInv, NEW rdy, NEW I \in Issuing(rdy), NEW E \in SUBSET Busy,
         NEW r \in Retirable, NEW new \in Seq(Insts), NextRob(I, E, r, new, FALSE)
  PROVE  RobAfter(I, E, r, new)
<1> DEFINE N == Len(rob)
           A == Advance(I, E)
           W == [i \in DOMAIN new |-> [inst |-> new[i], st |-> "waiting", phys |-> NoReg]]
           B == SubSeq(A, r + 1, N)
<1>1. /\ RobInv /\ N \in Nat /\ r \in 0 .. N /\ Len(new) \in Nat
      /\ DOMAIN new = 1 .. Len(new) /\ \A k \in 1 .. N : rob[k] \in Entry
  BY EntryFacts, LenProperties DEF StageInv, Retirable
<1>2. \A k \in I : /\ k \in 1 .. N /\ ~Issued(k) /\ k \notin E
                   /\ pre_allocate_id[SlotOf(k)] \in Phys
  <2>1. \A k \in I : k \in 1 .. N /\ ~Issued(k) /\ SlotOf(k) \in Slots
    BY GrantFacts
  <2>2. \A s \in Slots : pre_allocate_id[s] \in Phys
    BY DEF StageInv, IInv, TypeOK
  <2>3. \A k \in E : Issued(k)
    BY DEF Busy, Issued
  <2> QED BY <2>1, <2>2, <2>3
<1>3. ASSUME NEW k \in 1 .. N
      PROVE  /\ A[k] \in Entry /\ A[k].inst = Inst(k)
             /\ A[k].st # "waiting" <=> Issued(k) \/ k \in I
             /\ A[k].st = "done" <=> \/ rob[k].st = "done" \/ k \in E
                                     \/ k \in I /\ Immediate(k)
             /\ A[k].phys = IF k \notin I THEN rob[k].phys
                            ELSE IF Renames(Inst(k)) THEN pre_allocate_id[SlotOf(k)]
                            ELSE NoReg
  <2>0. rob[k] \in Entry
    BY <1>1
  <2>1. CASE k \in I
    <3>1. A[k] = [inst |-> Inst(k), st |-> IF Immediate(k) THEN "done" ELSE "busy",
                  phys |-> IF Renames(Inst(k)) THEN pre_allocate_id[SlotOf(k)] ELSE NoReg]
      BY <2>1 DEF Advance
    <3>2. Inst(k) \in Insts
      BY <2>0 DEF Entry, Inst
    <3>3. rob[k].st # "done" /\ k \notin E /\ pre_allocate_id[SlotOf(k)] \in Phys
      BY <1>2, <2>1 DEF Issued
    <3> HIDE DEF A
    <3> QED BY <2>1, <3>1, <3>2, <3>3 DEF Entry
  <2>2. CASE k \notin I
    <3>1. A[k] = [rob[k] EXCEPT !.st = IF k \in E THEN "done" ELSE @]
      BY <2>2 DEF Advance
    <3>2. k \in E => Issued(k)
      BY DEF Busy, Issued
    <3> HIDE DEF A
    <3>3. A[k] \in Entry /\ A[k].inst = rob[k].inst /\ A[k].phys = rob[k].phys
      BY <2>0, <3>1 DEF Entry
    <3>4. A[k].st = IF k \in E THEN "done" ELSE rob[k].st
      BY <2>0, <3>1 DEF Entry
    <3> QED BY <2>2, <3>2, <3>3, <3>4 DEF Issued, Inst
  <2> QED BY <2>1, <2>2
<1>4. A \in Seq(Entry) /\ Len(A) = N
  <2>1. A = [k \in 1 .. N |-> A[k]]
    BY DEF Advance
  <2> HIDE DEF A
  <2>2. A \in [1 .. N -> Entry]
    BY <1>3, <2>1
  <2> QED BY <1>1, <2>2, IsSeq
<1>5. /\ W \in Seq(Entry) /\ Len(W) = Len(new)
      /\ \A i \in 1 .. Len(new) : W[i].st = "waiting" /\ W[i].phys = NoReg
  <2>1. \A i \in 1 .. Len(new) : new[i] \in Insts
    BY ElementOfSeq
  <2>2. W \in [1 .. Len(new) -> Entry]
    BY <1>1, <2>1 DEF Entry
  <2>3. \A i \in 1 .. Len(new) : W[i].st = "waiting" /\ W[i].phys = NoReg
    BY <1>1
  <2> HIDE DEF W
  <2> QED BY <1>1, <2>2, <2>3, IsSeq
<1>6. rob' = B \o W
  BY DEF NextRob
<1> HIDE DEF A, W
<1>7. /\ B \in Seq(Entry) /\ Len(B) = N - r
      /\ \A k \in 1 .. N - r : B[k] = A[k + r]
  BY <1>1, <1>4, RemainingFacts
<1> HIDE DEF B
<1>8. /\ B \o W \in Seq(Entry) /\ Len(B \o W) = N - r + Len(new)
      /\ \A i \in 1 .. N - r + Len(new) :
           (B \o W)[i] = IF i <= N - r THEN B[i] ELSE W[i - (N - r)]
  <2>1. /\ B \o W \in Seq(Entry) /\ Len(B \o W) = Len(B) + Len(W)
        /\ \A i \in 1 .. Len(B) + Len(W) :
             (B \o W)[i] = IF i <= Len(B) THEN B[i] ELSE W[i - Len(B)]
    <3>1. B \in Seq(Entry) /\ W \in Seq(Entry)
      BY <1>5, <1>7
    <3> QED BY <3>1, ConcatProperties, Zenon
  <2> QED BY <1>5, <1>7, <2>1
<1>9. ASSUME NEW k \in 1 .. N - r
      PROVE  k + r \in 1 .. N /\ rob'[k] = A[k + r]
  <2>1. k + r \in 1 .. N /\ k \in 1 .. N - r + Len(new) /\ k <= N - r
    BY <1>1
  <2> QED BY <1>6, <1>7, <1>8, <2>1
<1>10. ASSUME NEW k \in 1 .. Len(rob'), k \notin 1 .. N - r
       PROVE  rob'[k].st = "waiting" /\ rob'[k].phys = NoReg
  <2>1. /\ k \in 1 .. N - r + Len(new) /\ ~(k <= N - r)
        /\ k - (N - r) \in 1 .. Len(new)
    BY <1>1, <1>6, <1>8, <1>10
  <2> QED BY <1>5, <1>6, <1>8, <2>1
<1> QED BY <1>3, <1>6, <1>8, <1>9, <1>10 DEF RobAfter

(* RobInv survives a cycle without a misprediction ...                     *)
LEMMA RunKeeps ==
  ASSUME StageInv, NEW rdy, NEW I \in Issuing(rdy), NEW E \in SUBSET Busy,
         NEW r \in Retirable, NEW new \in Seq(Insts), Len(rob) + Len(new) <= IN_FLIGHT,
         NextRob(I, E, r, new, FALSE),
         Clock(RdOf(I), Written(I, E), Retiring(r), FALSE)
  PROVE  RobInv'
<1> DEFINE M == Len(rob) - r
           rd == RdOf(I)
           n == Retiring(r)
<1>0. /\ RobInv /\ Len(rob) \in Nat /\ r \in 0 .. Len(rob) /\ Len(new) \in Nat
      /\ IN_FLIGHT \in Nat /\ NoReg \notin Phys /\ TypeOK /\ M \in Nat
  BY EntryFacts, LenProperties, IssueAssumption DEF StageInv, Retirable, IInv
<1>a. RobAfter(I, E, r, new)
  BY RobStep
<1>1. /\ rob' \in Seq(Entry) /\ Len(rob') = Len(rob) - r + Len(new)
      /\ \A k \in 1 .. Len(rob') : k \notin 1 .. M =>
           rob'[k].st = "waiting" /\ rob'[k].phys = NoReg
  BY <1>a DEF RobAfter
<1>2. \A k \in 1 .. M : k + r \in 1 .. Len(rob) /\ k \in 1 .. Len(rob')
  BY <1>0, <1>1
<1>3. ASSUME NEW k \in 1 .. M
      PROVE  /\ Inst(k)' = Inst(k + r)
             /\ Issued(k)' <=> Issued(k + r) \/ k + r \in I
             /\ \A a : Writes(k, a)' <=> Writes(k + r, a)
  <2>1. rob'[k].inst = Inst(k + r) /\ (rob'[k].st # "waiting" <=> Issued(k + r) \/ k + r \in I)
    BY <1>a DEF RobAfter
  <2> QED BY <2>1 DEF Inst, Issued, Writes, Renames
<1>4. \A k \in 1 .. Len(rob') : Issued(k)' => k \in 1 .. M
  BY <1>1 DEF Issued
<1>5. \A k \in I : k \in Waiting /\ k \in 1 .. Len(rob) /\ ~Issued(k) /\ SlotOf(k) \in Slots
  BY GrantFacts
<1>6. \A k \in 1 .. Len(rob) : k \in Waiting <=> ~Issued(k)
  BY <1>0, EntryFacts
<1>7. IssueTypeOK'
  <2>1. Len(rob') <= IN_FLIGHT
    BY <1>0, <1>1
  <2>2. ASSUME NEW k \in 1 .. Len(rob')
        PROVE  rob'[k].inst \in Insts /\ rob'[k].st \in {"waiting", "busy", "done"}
    <3>1. rob'[k] \in Entry
      BY <1>1, <2>2, ElementOfSeq
    <3> QED BY <3>1 DEF Entry
  <2>3. ASSUME NEW k \in 1 .. Len(rob')
        PROVE  rob'[k].phys \in Phys <=> (rob'[k].st # "waiting" /\ Renames(rob'[k].inst))
    <3>1. CASE k \notin 1 .. M
      BY <1>0, <1>1, <2>3, <3>1
    <3>2. CASE k \in 1 .. M
      <4>1. /\ rob'[k].inst = Inst(k + r)
            /\ rob'[k].st # "waiting" <=> Issued(k + r) \/ k + r \in I
            /\ rob'[k].phys =
                 IF k + r \notin I THEN rob[k + r].phys
                 ELSE IF Renames(Inst(k + r)) THEN pre_allocate_id[SlotOf(k + r)]
                 ELSE NoReg
        BY <1>a, <3>2 DEF RobAfter
      <4>2. k + r \in I => pre_allocate_id[SlotOf(k + r)] \in Phys
        BY <1>0, <1>5 DEF TypeOK
      <4>3. rob[k + r].phys \in Phys <=> (Issued(k + r) /\ Renames(Inst(k + r)))
        BY <1>0, <1>2, <3>2 DEF RobInv, IssueTypeOK, Issued
      <4> QED BY <1>0, <1>5, <4>1, <4>2, <4>3
    <3> QED BY <3>1, <3>2
  <2> QED BY <2>1, <2>2, <2>3 DEF IssueTypeOK, Inst
<1>8. WritersInOrder'
  <2> SUFFICES ASSUME NEW a \in Arch, NEW j \in 1 .. Len(rob'), NEW k \in 1 .. Len(rob'),
                      j < k, Writes(j, a)', Writes(k, a)', Issued(k)'
               PROVE  Issued(j)'
    BY DEF WritersInOrder
  <2>1. k \in 1 .. M /\ j \in 1 .. M
    BY <1>0, <1>4
  <2>2. /\ Writes(j + r, a) /\ Writes(k + r, a) /\ j + r < k + r
        /\ j + r \in 1 .. Len(rob) /\ k + r \in 1 .. Len(rob)
        /\ Issued(k + r) \/ k + r \in I
    BY <1>0, <1>2, <1>3, <2>1
  <2>3. CASE Issued(k + r)
    BY <1>0, <1>3, <2>1, <2>2, <2>3 DEF RobInv, WritersInOrder
  <2>4. CASE k + r \in I
    <3>1. j + r \notin Waiting
      BY <2>2, <2>4, GrantFacts
    <3> QED BY <1>3, <1>6, <2>1, <2>2, <3>1
  <2> QED BY <2>2, <2>3, <2>4
<1>9. ReadersFirst'
  <2> SUFFICES ASSUME MODE = 0, NEW k \in 1 .. Len(rob'), NEW m \in 1 .. Len(rob'),
                      NEW a \in Arch, k < m, ~Issued(k)', a \in Sources(Inst(k))',
                      Writes(m, a)', Issued(m)'
               PROVE  FALSE
    BY DEF ReadersFirst
  <2>1. k \in 1 .. M /\ m \in 1 .. M
    BY <1>0, <1>4
  <2>2. /\ Writes(m + r, a) /\ k + r < m + r /\ ~Issued(k + r) /\ k + r \notin I
        /\ k + r \in 1 .. Len(rob) /\ m + r \in 1 .. Len(rob)
        /\ Issued(m + r) \/ m + r \in I
    BY <1>0, <1>2, <1>3, <2>1
  <2>3. a \in Sources(Inst(k + r))
    <3>1. rob'[k].inst = Inst(k + r)
      BY <1>a, <2>1 DEF RobAfter
    <3> QED BY <3>1 DEF Sources, Inst
  <2>4. ~Issued(m + r)
    BY <1>0, <2>2, <2>3 DEF RobInv, ReadersFirst
  <2>5. k + r \in Waiting \ I
    BY <1>6, <2>2
  <2> QED BY <2>2, <2>3, <2>4, <2>5, GrantFacts
<1>10. ~cancel_edge_en_d'
  BY DEF Clock
<1>11. WrittenWhenDone'
  <2> SUFFICES ASSUME NEW k \in 1 .. Len(rob'), Renames(rob'[k].inst), Issued(k)'
               PROVE  entry_commit'[rob'[k].phys] <=> rob'[k].st = "done"
    BY DEF WrittenWhenDone, Inst, Renames
  <2> DEFINE K == k + r
             p == rob'[k].phys
  <2>1. /\ k \in 1 .. M /\ K \in 1 .. Len(rob) /\ Renames(Inst(K))
        /\ Issued(K) \/ K \in I
        /\ rob'[k].st = "done" <=> rob[K].st = "done" \/ K \in E \/ (K \in I /\ Immediate(K))
        /\ p = IF K \notin I THEN rob[K].phys ELSE pre_allocate_id[SlotOf(K)]
    <3>1. k \in 1 .. M
      BY <1>4
    <3>2. rob'[k].inst = Inst(K)
      BY <1>a, <3>1 DEF RobAfter
    <3> QED BY <1>a, <1>2, <1>3, <3>1, <3>2 DEF RobAfter
  <2>2. ASSUME NEW q \in Phys, ~Wired(q)
        PROVE  entry_commit'[q] <=>
                 q \in Written(I, E) \/ (entry_commit[q] /\ q \notin Allocated(rd))
    BY <2>2 DEF Clock, NextCommit, Dropped
  <2>3. ASSUME NEW q
        PROVE  q \in Written(I, E) <=>
                 \/ \E j \in I : Immediate(j) /\ Renames(Inst(j)) /\ q = pre_allocate_id[SlotOf(j)]
                 \/ \E j \in E : Renames(Inst(j)) /\ q = rob[j].phys
    BY DEF Written, PhysOf
  <2>4. \A q : q \in Allocated(rd) <=>
          \E j \in I : Renames(Inst(j)) /\ q = pre_allocate_id[SlotOf(j)]
    BY RdFacts
  <2>5. \A j \in E : j \in 1 .. Len(rob) /\ Issued(j)
    BY DEF Busy, Issued
  (* A register given out in this cycle is a free one, each another.       *)
  <2>6. ASSUME NEW j \in I, Renames(Inst(j))
        PROVE  LET q == pre_allocate_id[SlotOf(j)]
               IN /\ q \in Phys /\ release_en[q] /\ ~Wired(q)
                  /\ \A i \in I : Renames(Inst(i)) /\ q = pre_allocate_id[SlotOf(i)] => i = j
    <3>1. \A i \in I : Renames(Inst(i)) => SlotOf(i) \in Slots /\ pre_allocate_vld[SlotOf(i)]
      BY GrantFacts DEF Renames
    <3>2. PreAllocateFree
      BY DEF StageInv, IInv
    <3>3. \A i \in I : Renames(Inst(i)) /\ pre_allocate_id[SlotOf(j)] = pre_allocate_id[SlotOf(i)]
                         => SlotOf(j) = SlotOf(i)
      BY <2>6, <3>1, <3>2 DEF PreAllocateFree
    <3>4. \A i \in I : SlotOf(j) = SlotOf(i) => i = j
      BY GrantFacts
    <3> QED BY <1>0, <2>6, <3>1, <3>2, <3>3, <3>4 DEF PreAllocateFree, TypeOK
  <2>7. \A j \in E : Renames(Inst(j)) => ~release_en[rob[j].phys]
    BY <2>5, OwnerFacts
  <2>8. CASE K \in I
    <3>1. p \in Phys /\ ~Wired(p) /\ release_en[p] /\ p \in Allocated(rd)
      BY <2>1, <2>4, <2>6, <2>8
    <3>2. p \in Written(I, E) <=> Immediate(K)
      BY <2>1, <2>3, <2>6, <2>7, <2>8, <3>1
    <3>3. rob[K].st # "done" /\ K \notin E
      BY <1>5, <2>5, <2>8 DEF Issued
    <3>4. entry_commit'[p] <=> p \in Written(I, E) \/ (entry_commit[p] /\ p \notin Allocated(rd))
      BY <2>2, <3>1
    <3> HIDE DEF K
    <3> QED BY <2>1, <2>8, <3>1, <3>2, <3>3, <3>4
  <2>9. CASE K \notin I
    <3>1. p = rob[K].phys /\ Issued(K)
      BY <2>1, <2>9
    <3>2. p \in Phys /\ ~Wired(p) /\ ~release_en[p]
      BY <2>1, <3>1, OwnerFacts
    <3>3. p \notin Allocated(rd)
      BY <2>4, <2>6, <3>2
    <3>4. \A j \in E : Renames(Inst(j)) /\ p = rob[j].phys => j = K
      BY <2>1, <2>5, <3>1, OwnerFacts
    <3>5. p \in Written(I, E) <=> K \in E
      BY <2>1, <2>3, <2>6, <3>1, <3>2, <3>4
    <3>6. entry_commit[p] <=> rob[K].st = "done"
      BY <1>0, <2>1, <3>1 DEF RobInv, WrittenWhenDone
    <3>7. entry_commit'[p] <=> p \in Written(I, E) \/ (entry_commit[p] /\ p \notin Allocated(rd))
      BY <2>2, <3>2
    <3> HIDE DEF K
    <3> QED BY <2>1, <2>9, <3>3, <3>5, <3>6, <3>7
  <2> QED BY <2>8, <2>9
<1>12. PendingIndexed'
  <2> SUFFICES ASSUME NEW a \in Arch
               PROVE  \E g : IsIndex(g, a)'
    BY DEF PendingIndexed
  <2>1. PICK f : IsIndex(f, a)
    BY <1>0 DEF RobInv, PendingIndexed
  <2> DEFINE L == Len(pending[a])
             m == n[a]
             X == L - m
  <2>2. /\ L \in Nat /\ m \in 0 .. L /\ X \in Nat
        /\ \A i \in 1 .. L : f[i] <= r <=> i <= m
    <3>1. L \in Nat
      BY <1>0, LenProperties DEF TypeOK
    <3>2. m \in 0 .. L /\ \A i \in 1 .. L : f[i] <= r <=> i <= m
      BY <2>1, RetireFacts
    <3> QED BY <3>1, <3>2
  <2> HIDE DEF n
  <2>3. /\ f \in [1 .. L -> 1 .. Len(rob)]
        /\ \A i, j \in 1 .. L : i < j => f[i] < f[j]
        /\ \A i \in 1 .. L : Writes(f[i], a) /\ Issued(f[i]) /\ rob[f[i]].phys = pending[a][i]
        /\ \A k \in 1 .. Len(rob) : Writes(k, a) /\ Issued(k) => \E i \in 1 .. L : f[i] = k
    BY <2>1 DEF IsIndex
  <2>4. /\ Renamed(rd, a) <=> \E k \in I : Writes(k, a)
        /\ \A k \in I : Writes(k, a) => NewId(rd, a) = pre_allocate_id[SlotOf(k)]
        /\ \A j, k \in I : Writes(j, a) /\ Writes(k, a) => j = k
    BY RdFacts, GrantFacts
  <2>5. /\ Len(pending'[a]) = X + (IF Renamed(rd, a) THEN 1 ELSE 0)
        /\ \A i \in 1 .. X : pending'[a][i] = pending[a][i + m]
        /\ Renamed(rd, a) => pending'[a][X + 1] = NewId(rd, a)
    <3>1. Renamed(rd, a) => NewId(rd, a) \in Phys
      BY <1>0, <1>5, <2>4 DEF TypeOK
    <3>2. NextPending(rd, n, FALSE)
      BY DEF Clock, n
    <3> HIDE DEF rd
    <3> QED BY <1>0, <2>2, <3>1, <3>2, PendingStep
  (* A destination pending before, by its new place.                       *)
  <2>6. ASSUME NEW i \in 1 .. X
        PROVE  /\ i + m \in 1 .. L /\ f[i + m] \in Int
               /\ \E k \in 1 .. M : /\ k = f[i + m] - r
                                    /\ Writes(k, a)' /\ Issued(k)'
                                    /\ rob'[k].phys = pending'[a][i]
    <3>1. i + m \in 1 .. L /\ ~(i + m <= m)
      BY <2>2
    <3>2. f[i + m] \in 1 .. Len(rob) /\ ~(f[i + m] <= r)
      BY <2>2, <2>3, <3>1
    <3>3. PICK k \in 1 .. M : k + r = f[i + m] /\ k = f[i + m] - r
      BY <1>0, <3>2
    <3>4. /\ Writes(k + r, a) /\ Issued(k + r) /\ k + r \notin I
          /\ rob[k + r].phys = pending'[a][i]
      BY <1>5, <2>3, <2>5, <3>1, <3>3
    <3>5. rob'[k].phys = rob[k + r].phys
      BY <1>a, <3>3, <3>4 DEF RobAfter
    <3>6. Writes(k, a)' /\ Issued(k)'
      BY <1>3, <3>3, <3>4
    <3> QED BY <3>1, <3>2, <3>3, <3>4, <3>5, <3>6
  <2>7. ASSUME NEW k \in I, Writes(k, a)
        PROVE  /\ \E h \in 1 .. M : /\ h = k - r
                                    /\ Writes(h, a)' /\ Issued(h)'
                                    /\ rob'[h].phys = NewId(rd, a)
               /\ \A i \in 1 .. L : f[i] < k
    <3>1. k \in 1 .. Len(rob) /\ k \in Waiting /\ ~Issued(k) /\ Renames(Inst(k))
      BY <1>5, <2>7 DEF Writes
    <3>2. \A j \in 1 .. r : Issued(j)
      BY DEF Retirable, Done, Issued
    <3>3. PICK h \in 1 .. M : h + r = k /\ h = k - r
      BY <1>0, <3>1, <3>2
    <3>4. rob'[h].phys = NewId(rd, a)
      BY <1>a, <2>4, <2>7, <3>1, <3>3 DEF RobAfter
    <3>5. Writes(h, a)' /\ Issued(h)'
      BY <1>3, <2>7, <3>3
    <3>6. ASSUME NEW i \in 1 .. L PROVE f[i] < k
      <4>1. f[i] \in 1 .. Len(rob) /\ Writes(f[i], a) /\ Issued(f[i])
        BY <2>3
      <4>2. ~(k < f[i])
        BY <1>0, <2>7, <3>1, <4>1 DEF RobInv, WritersInOrder
      <4> QED BY <1>0, <3>1, <4>1, <4>2
    <3> QED BY <3>3, <3>4, <3>5, <3>6
  <2>8. ASSUME NEW k \in 1 .. Len(rob'), Writes(k, a)', Issued(k)'
        PROVE  \/ \E i \in 1 .. X : k = f[i + m] - r
               \/ k + r \in I /\ Writes(k + r, a)
    <3>1. k \in 1 .. M /\ k + r \in 1 .. Len(rob) /\ Writes(k + r, a)
      BY <1>2, <1>3, <1>4, <2>8
    <3>2. CASE Issued(k + r)
      <4>1. PICK l \in 1 .. L : f[l] = k + r
        BY <2>3, <3>1, <3>2
      <4>2. ~(l <= m)
        BY <1>0, <2>2, <3>1, <4>1
      <4>3. l - m \in 1 .. X /\ l - m + m = l
        BY <2>2, <4>2
      <4>4. k = f[l - m + m] - r
        BY <1>0, <3>1, <4>1, <4>3
      <4> QED BY <4>3, <4>4
    <3>3. CASE k + r \in I
      BY <3>1, <3>3
    <3> QED BY <1>3, <2>8, <3>1, <3>2, <3>3
  <2>a. \A i, j \in 1 .. X : i < j => f[i + m] - r < f[j + m] - r
    <3> SUFFICES ASSUME NEW i \in 1 .. X, NEW j \in 1 .. X, i < j
                 PROVE  f[i + m] - r < f[j + m] - r
      OBVIOUS
    <3>1. i + m \in 1 .. L /\ j + m \in 1 .. L /\ i + m < j + m
      BY <2>2
    <3>2. f[i + m] \in 1 .. Len(rob) /\ f[j + m] \in 1 .. Len(rob) /\ f[i + m] < f[j + m]
      BY <2>3, <3>1
    <3> QED BY <1>0, <3>2
  <2>b. M \in Nat /\ M <= Len(rob') /\ \A k \in 1 .. M : k \in 1 .. Len(rob')
    BY <1>0, <1>1
  <2>9. CASE ~Renamed(rd, a)
    <3>1. PICK g : g = [i \in 1 .. X |-> f[i + m] - r]
      OBVIOUS
    <3>2. Len(pending'[a]) = X
      BY <2>2, <2>5, <2>9
    <3>3. \A i \in 1 .. X : /\ g[i] = f[i + m] - r /\ g[i] \in 1 .. Len(rob')
                            /\ Writes(g[i], a)' /\ Issued(g[i])'
                            /\ rob'[g[i]].phys = pending'[a][i]
      <4> TAKE i \in 1 .. X
      <4>1. PICK k \in 1 .. M : /\ k = f[i + m] - r
                                /\ Writes(k, a)' /\ Issued(k)'
                                /\ rob'[k].phys = pending'[a][i]
        BY <2>6
      <4>2. g[i] = k
        BY <3>1, <4>1
      <4> QED BY <2>b, <4>1, <4>2
    <3>4. g \in [1 .. X -> 1 .. Len(rob')]
      BY <3>1, <3>3
    <3>5. \A i, j \in 1 .. X : i < j => g[i] < g[j]
      BY <2>a, <3>3
    <3>6. \A k \in 1 .. Len(rob') : Writes(k, a)' /\ Issued(k)' => \E i \in 1 .. X : g[i] = k
      BY <2>4, <2>8, <2>9, <3>3
    <3>7. IsIndex(g, a)'
      BY <3>2, <3>3, <3>4, <3>5, <3>6 DEF IsIndex
    <3> QED BY <3>7
  <2>10. CASE Renamed(rd, a)
    <3>0. PICK h \in I : Writes(h, a)
      BY <2>4, <2>10
    <3>1. PICK g : g = [i \in 1 .. X + 1 |-> IF i = X + 1 THEN h - r ELSE f[i + m] - r]
      OBVIOUS
    <3>2. Len(pending'[a]) = X + 1
      BY <2>5, <2>10
    <3>3. \A i \in 1 .. X + 1 : i \in 1 .. X \/ i = X + 1
      BY <2>2
    <3>4. /\ \A i \in 1 .. X : g[i] = f[i + m] - r
          /\ g[X + 1] = h - r
      BY <2>2, <3>1
    <3>5. \A i \in 1 .. X + 1 : /\ g[i] \in 1 .. Len(rob')
                                /\ Writes(g[i], a)' /\ Issued(g[i])'
                                /\ rob'[g[i]].phys = pending'[a][i]
      <4> TAKE i \in 1 .. X + 1
      <4>1. CASE i \in 1 .. X
        <5>1. PICK k \in 1 .. M : /\ k = f[i + m] - r
                                  /\ Writes(k, a)' /\ Issued(k)'
                                  /\ rob'[k].phys = pending'[a][i]
          BY <2>6, <4>1
        <5>2. g[i] = k
          BY <3>4, <4>1, <5>1
        <5> QED BY <2>b, <5>1, <5>2
      <4>2. CASE i = X + 1
        <5>1. PICK k \in 1 .. M : /\ k = h - r
                                  /\ Writes(k, a)' /\ Issued(k)'
                                  /\ rob'[k].phys = NewId(rd, a)
          BY <2>7, <3>0
        <5>2. g[i] = k
          BY <3>4, <4>2, <5>1
        <5>3. pending'[a][i] = NewId(rd, a)
          BY <2>5, <2>10, <4>2
        <5> QED BY <2>b, <5>1, <5>2, <5>3
      <4> QED BY <3>3, <4>1, <4>2
    <3>6. g \in [1 .. X + 1 -> 1 .. Len(rob')]
      BY <3>1, <3>5
    <3>7. \A i, j \in 1 .. X + 1 : i < j => g[i] < g[j]
      <4> SUFFICES ASSUME NEW i \in 1 .. X + 1, NEW j \in 1 .. X + 1, i < j
                   PROVE  g[i] < g[j]
        OBVIOUS
      <4>1. CASE j \in 1 .. X
        <5>1. i \in 1 .. X
          BY <2>2, <4>1
        <5> QED BY <2>a, <3>4, <4>1, <5>1
      <4>2. CASE j = X + 1
        <5>1. i \in 1 .. X
          BY <2>2, <4>2
        <5>2. f[i + m] < h /\ f[i + m] \in Int /\ h \in Int
          BY <1>5, <2>6, <2>7, <3>0, <5>1
        <5>3. f[i + m] - r < h - r
          BY <1>0, <5>2
        <5> QED BY <3>4, <4>2, <5>1, <5>3
      <4> QED BY <3>3, <4>1, <4>2
    <3>8. \A k \in 1 .. Len(rob') :
            Writes(k, a)' /\ Issued(k)' => \E i \in 1 .. X + 1 : g[i] = k
      <4> SUFFICES ASSUME NEW k \in 1 .. Len(rob'), Writes(k, a)', Issued(k)'
                   PROVE  \E i \in 1 .. X + 1 : g[i] = k
        OBVIOUS
      <4>1. X + 1 \in 1 .. X + 1 /\ 1 .. X \subseteq 1 .. X + 1
        BY <2>2
      <4>2. CASE \E i \in 1 .. X : k = f[i + m] - r
        BY <3>4, <4>1, <4>2
      <4>3. CASE k + r \in I /\ Writes(k + r, a)
        <5>1. k + r = h
          BY <2>4, <3>0, <4>3
        <5>2. k = h - r
          BY <1>0, <1>1, <5>1
        <5> QED BY <3>4, <4>1, <5>2
      <4> QED BY <2>8, <4>2, <4>3
    <3>9. IsIndex(g, a)'
      BY <3>2, <3>5, <3>6, <3>7, <3>8 DEF IsIndex
    <3> QED BY <3>9
  <2> QED BY <2>9, <2>10
<1> QED BY <1>1, <1>7, <1>8, <1>9, <1>10, <1>11, <1>12 DEF RobInv

(* ... and is regained when a misprediction empties rob and pending.       *)
LEMMA EmptyKeeps ==
  (rob = <<>> /\ \A a \in Arch : pending[a] = <<>>) => RobInv
<1> SUFFICES ASSUME rob = <<>>, \A a \in Arch : pending[a] = <<>>
             PROVE  RobInv
  OBVIOUS
<1>1. rob \in Seq(Entry) /\ Len(rob) = 0 /\ 1 .. Len(rob) = {}
  BY EmptySeq
<1>2. PendingIndexed
  <2> SUFFICES ASSUME NEW a \in Arch PROVE \E f : IsIndex(f, a)
    BY DEF PendingIndexed
  <2>1. Len(pending[a]) = 0 /\ 1 .. Len(pending[a]) = {}
    BY EmptySeq
  <2>2. PICK f : f = [i \in {} |-> 0]
    OBVIOUS
  <2>3. IsIndex(f, a)
    BY <1>1, <2>1, <2>2 DEF IsIndex
  <2> QED BY <2>3
<1>3. Len(rob) <= IN_FLIGHT
  BY <1>1, IssueAssumption
<1> QED BY <1>1, <1>2, <1>3
        DEF RobInv, IssueTypeOK, WritersInOrder, WrittenWhenDone, ReadersFirst

LEMMA InitStageInv == IssueInit => StageInv
<1> SUFFICES ASSUME IssueInit PROVE StageInv
  OBVIOUS
<1>1. rob = <<>> /\ \A a \in Arch : pending[a] = <<>>
  BY DEF IssueInit, Init
<1>2. IInv
  BY InitIInv DEF IssueInit
<1> QED BY <1>1, <1>2, EmptyKeeps DEF StageInv

(* Every cycle of the issue stage is one of PhyRegfile, and keeps StageInv.*)
LEMMA StageStep == StageInv /\ [IssueNext]_allvars => [Next]_vars /\ StageInv'
<1> SUFFICES ASSUME StageInv, [IssueNext]_allvars PROVE [Next]_vars /\ RobInv'
  BY StepIInv DEF StageInv
<1>0. RobInv /\ Len(rob) \in Nat /\ Len(rob) <= IN_FLIGHT
  BY EntryFacts DEF StageInv, RobInv, IssueTypeOK
<1>1. CASE IssueRun
  <2>0. PICK rdy \in BOOLEAN, E \in SUBSET Busy, new \in Dispatched, r \in Retirable :
          /\ ~cancel_edge_en_d /\ Len(rob) + Len(new) <= IN_FLIGHT
          /\ Step(rdy, E, r, new, FALSE)
    BY <1>1 DEF IssueRun, Advances
  <2>1. PICK I \in Issuing(rdy) :
          /\ Clock(RdOf(I), Written(I, E), Retiring(r), FALSE)
          /\ NextRob(I, E, r, new, FALSE)
    BY <2>0 DEF Step
  <2>2. new \in Seq(Insts)
    <3>1. PICK n \in 0 .. INST_READ_CHANNEL : new \in [1 .. n -> Insts]
      BY DEF Dispatched
    <3>2. n \in Nat
      BY IssueAssumption
    <3> QED BY <3>1, <3>2
  <2>3. RobInv'
    BY <2>0, <2>1, <2>2, RunKeeps
  <2>4. /\ RdOf(I) \in Issues /\ LegalIssue(RdOf(I))
        /\ Retiring(r) \in Retires /\ LegalCommit(Retiring(r))
        /\ Written(I, E) \in SUBSET Writable(RdOf(I))
    BY RdFacts, ContractFacts
  <2>5. Run
    BY <2>0, <2>1, <2>4 DEF Run
  <2> QED BY <2>3, <2>5 DEF Next
<1>2. CASE IssueCancel
  <2>0. PICK rdy \in BOOLEAN, E \in SUBSET Busy, r \in Retirable \ {0} :
          ~cancel_edge_en_d /\ Step(rdy, E, r, <<>>, TRUE)
    BY <1>2 DEF IssueCancel
  <2>1. PICK I \in Issuing(rdy) :
          /\ Clock(RdOf(I), Written(I, E), Retiring(r), TRUE)
          /\ NextRob(I, E, r, <<>>, TRUE)
    BY <2>0 DEF Step
  <2>2. (rob = <<>> /\ \A a \in Arch : pending[a] = <<>>)'
    BY <2>1 DEF NextRob, Clock, NextPending
  <2>3. RobInv'
    BY <2>2, EmptyKeeps, PTL
  <2>4. /\ RdOf(I) \in Issues /\ LegalIssue(RdOf(I))
        /\ Retiring(r) \in Retires /\ LegalCommit(Retiring(r))
        /\ Written(I, E) \in SUBSET Writable(RdOf(I))
    BY RdFacts, ContractFacts
  <2>5. Cancel
    BY <2>0, <2>1, <2>4 DEF Cancel
  <2> QED BY <2>3, <2>5 DEF Next
<1>3. CASE IssueRecover
  <2>1. PICK I \in Issuing(FALSE) :
          /\ cancel_edge_en_d
          /\ Clock(RdOf(I), Written(I, {}), Retiring(0), FALSE)
          /\ NextRob(I, {}, 0, <<>>, FALSE)
    BY <1>3 DEF IssueRecover, Step
  <2>2. {} \in SUBSET Busy /\ <<>> \in Seq(Insts) /\ Len(rob) + Len(<<>>) <= IN_FLIGHT
    BY <1>0, EmptySeq
  <2>3. 0 \in Retirable
    BY <1>0, RegfileAssumption DEF Retirable, Done
  <2>4. RobInv'
    BY <2>1, <2>2, <2>3, RunKeeps
  <2>5. I = {}
    <3>1. rob = <<>> /\ Len(rob) = 0
      BY <1>0, <2>1, EmptySeq DEF RobInv
    <3>2. \A k \in I : k \in 1 .. Len(rob)
      BY GrantFacts
    <3>3. 1 .. Len(rob) = {}
      BY <3>1
    <3> QED BY <3>2, <3>3
  <2>6. RdOf(I) = <<>>
    BY <2>5 DEF RdOf
  <2>7. Written(I, {}) = {}
    BY <2>5 DEF Written
  <2>8. Retiring(0) = [a \in Arch |-> 0]
    <3>1. ASSUME NEW a \in Arch
          PROVE  {k \in 1 .. 0 : Renames(Inst(k)) /\ Inst(k).rd = a} = {}
      OBVIOUS
    <3>2. Cardinality({}) = 0
      BY FS_EmptySet
    <3> QED BY <3>1, <3>2 DEF Retiring
  <2>9. Recover
    BY <2>1, <2>6, <2>7, <2>8 DEF Recover
  <2> QED BY <2>4, <2>9 DEF Next
<1>4. CASE UNCHANGED allvars
  <2>1. UNCHANGED vars /\ rob' = rob
    BY <1>4 DEF allvars
  <2>2. pending' = pending /\ entry_commit' = entry_commit /\ cancel_edge_en_d' = cancel_edge_en_d
    BY <2>1 DEF vars, entries
  <2>3. RobInv'
    BY <1>0, <2>1, <2>2
       DEF RobInv, IssueTypeOK, WritersInOrder, PendingIndexed, WrittenWhenDone, ReadersFirst,
           IsIndex, Writes, Issued, Inst
  <2> QED BY <2>1, <2>3
<1> QED BY <1>1, <1>2, <1>3, <1>4 DEF IssueNext

-----------------------------------------------------------------------------
THEOREM StageInvariant == IssueSpec => []StageInv
<1>1. IssueInit => StageInv
  BY InitStageInv
<1>2. StageInv /\ [IssueNext]_allvars => StageInv'
  BY StageStep
<1> QED BY <1>1, <1>2, PTL DEF IssueSpec

(* Issue and retirement never step outside what the register file's proofs *)
(* assume of them: the core's register file behaves as PhyRegfile.         *)
THEOREM ContractKept == IssueSpec => KeepsRegfileContract
<1>1. StageInv /\ [IssueNext]_allvars => [Next]_vars
  BY StageStep
<1> QED BY <1>1, StageInvariant, PTL DEF IssueSpec, KeepsRegfileContract

THEOREM IssueTypeCorrect == IssueSpec => []IssueTypeOK
<1>1. StageInv => IssueTypeOK
  BY DEF StageInv, RobInv
<1> QED BY <1>1, StageInvariant, PTL

-----------------------------------------------------------------------------
(* What readers and retirement need, from the invariant.                   *)
LEMMA OrderOfPending == StageInv => PendingInProgramOrder
<1> SUFFICES ASSUME StageInv, NEW a \in Arch
             PROVE  LET issued == {k \in 1 .. Len(rob) : Inst(k).rd = a /\ rob[k].phys \in Phys}
                    IN /\ Len(pending[a]) = Cardinality(issued)
                       /\ \A k \in issued :
                            pending[a][Cardinality({j \in issued : j <= k})] = rob[k].phys
  BY DEF PendingInProgramOrder
<1> DEFINE S == {k \in 1 .. Len(rob) : Inst(k).rd = a /\ rob[k].phys \in Phys}
           L == Len(pending[a])
<1>1. RobInv /\ Len(rob) \in Nat /\ L \in Nat
  BY EntryFacts, LenProperties DEF StageInv, IInv, TypeOK
<1>2. PICK f : IsIndex(f, a)
  BY <1>1 DEF RobInv, PendingIndexed
<1>3. /\ f \in [1 .. L -> Int] /\ \A i \in 1 .. L : f[i] \in 1 .. Len(rob)
      /\ \A i, j \in 1 .. L : i < j => f[i] < f[j]
      /\ \A i \in 1 .. L : rob[f[i]].phys = pending[a][i]
  <2>1. f \in [1 .. L -> 1 .. Len(rob)]
    BY <1>2 DEF IsIndex
  <2> QED BY <1>2, <2>1 DEF IsIndex
<1>4. \A k \in 1 .. Len(rob) : k \in S <=> Writes(k, a) /\ Issued(k)
  BY <1>1 DEF RobInv, IssueTypeOK, Writes, Issued, Renames
<1>5. \A k : k \in S <=> \E i \in 1 .. L : k = f[i]
  <2>1. \A k \in 1 .. Len(rob) : Writes(k, a) /\ Issued(k) => \E i \in 1 .. L : f[i] = k
    BY <1>2 DEF IsIndex
  <2>2. \A i \in 1 .. L : Writes(f[i], a) /\ Issued(f[i])
    BY <1>2 DEF IsIndex
  <2>3. \A k \in S : k \in 1 .. Len(rob)
    OBVIOUS
  <2> HIDE DEF S
  <2> QED BY <1>3, <1>4, <2>1, <2>2, <2>3
<1> HIDE DEF S, L
<1>6. Cardinality(S) = L
  <2>1. L \in 0 .. L
    BY <1>1
  <2> QED BY <1>1, <1>3, <1>5, <2>1, Increasing
<1>7. ASSUME NEW k \in S
      PROVE  pending[a][Cardinality({j \in S : j <= k})] = rob[k].phys
  <2>1. PICK i \in 1 .. L : k = f[i]
    BY <1>5
  <2> DEFINE T == {j \in S : j <= k}
  <2>2. \A l \in 1 .. L : f[l] <= f[i] <=> l <= i
    <3> TAKE l \in 1 .. L
    <3>1. f[l] \in Int /\ f[i] \in Int /\ (l < i => f[l] < f[i]) /\ (i < l => f[i] < f[l])
      BY <1>3
    <3> QED BY <1>1, <3>1
  <2>3. i \in 0 .. L /\ \A l : l \in 1 .. i <=> l \in 1 .. L /\ l <= i
    BY <1>1
  <2>4. \A x : x \in T <=> \E l \in 1 .. i : x = f[l]
    BY <1>5, <2>1, <2>2, <2>3
  <2> HIDE DEF T
  <2>5. Cardinality(T) = i
    BY <1>1, <1>3, <2>3, <2>4, Increasing
  <2> QED BY <1>3, <2>1, <2>5 DEF T
<1> QED BY <1>6, <1>7 DEF S, L

LEMMA OrderOfReads == StageInv /\ MODE = 0 => ReadsProgramOrder
<1> SUFFICES ASSUME StageInv, MODE = 0, NEW I \in Issuing(TRUE), NEW k \in I,
                    NEW a \in Sources(Inst(k))
             PROVE  reg_phy_id[a] = IF Writers(k, a) = {} THEN backup_phy_id[a]
                                    ELSE rob[YoungestWriter(k, a)].phys
  BY DEF ReadsProgramOrder
<1> DEFINE W == Writers(k, a)
           L == Len(pending[a])
<1>1. /\ RobInv /\ TypeOK /\ Len(rob) \in Nat
      /\ k \in 1 .. Len(rob) /\ k \in Waiting /\ ~Issued(k)
  BY EntryFacts, GrantFacts DEF StageInv, IInv
<1>2. a \in Arch
  BY <1>1, EntryFacts
<1>3. L \in Nat /\ pending[a] \in Seq(Phys)
  BY <1>1, <1>2, LenProperties DEF TypeOK
<1>4. PICK f : IsIndex(f, a)
  BY <1>1, <1>2 DEF RobInv, PendingIndexed
(* Older writers have issued, no younger one has.                          *)
<1>5. ASSUME NEW j
      PROVE  j \in W <=> j \in 1 .. Len(rob) /\ Writes(j, a) /\ Issued(j)
  <2>1. ASSUME j \in W PROVE j \in 1 .. Len(rob) /\ Writes(j, a) /\ Issued(j)
    <3>1. j \in 1 .. Len(rob) /\ j < k /\ Writes(j, a)
      BY <1>1, <2>1 DEF Writers, Writes
    <3>2. j \notin Waiting
      BY <1>2, <3>1, GrantFacts
    <3> QED BY <1>1, <3>1, <3>2, EntryFacts
  <2>2. ASSUME j \in 1 .. Len(rob), Writes(j, a), Issued(j) PROVE j \in W
    <3>1. ~(k < j) /\ j # k
      BY <1>1, <1>2, <2>2 DEF RobInv, ReadersFirst
    <3> QED BY <1>1, <2>2, <3>1 DEF Writers, Writes
  <2> QED BY <2>1, <2>2
<1>6. ~cancel_edge_en_d
  <2>1. rob # <<>>
    BY <1>1, EmptySeq
  <2> QED BY <1>1, <2>1 DEF RobInv
<1>7. reg_phy_id[a] = IF pending[a] = <<>> THEN backup_phy_id[a] ELSE pending[a][L]
  BY <1>2, <1>6 DEF StageInv, IInv, RenameYoungest
<1>8. \A i \in 1 .. L : f[i] \in W /\ f[i] \in 1 .. Len(rob) /\ rob[f[i]].phys = pending[a][i]
  BY <1>4, <1>5 DEF IsIndex
<1>9. \A j \in W : \E i \in 1 .. L : f[i] = j
  BY <1>4, <1>5 DEF IsIndex
<1> HIDE DEF W
<1>10. CASE L = 0
  <2>1. W = {}
    BY <1>9, <1>10
  <2>2. pending[a] = <<>>
    BY <1>3, <1>10, EmptySeq
  <2> QED BY <1>7, <2>1, <2>2 DEF W
<1>11. CASE L # 0
  <2>1. L \in 1 .. L /\ pending[a] # <<>>
    BY <1>3, <1>11, EmptySeq
  <2>2. f[L] \in W /\ f[L] \in 1 .. Len(rob) /\ rob[f[L]].phys = pending[a][L]
    BY <1>8, <2>1
  <2>3. ASSUME NEW j \in W PROVE j <= f[L] /\ j \in Int
    <3>1. PICK i \in 1 .. L : f[i] = j
      BY <1>9
    <3>2. i = L \/ i < L
      BY <1>3
    <3>3. j \in 1 .. Len(rob) /\ (i < L => f[i] < f[L])
      BY <1>4, <1>8, <2>1, <3>1 DEF IsIndex
    <3> QED BY <1>1, <2>2, <3>1, <3>2, <3>3
  <2>4. ASSUME NEW j \in W, \A i \in W : i <= j PROVE j = f[L]
    <3>1. f[L] <= j /\ j <= f[L] /\ j \in Int /\ f[L] \in Int
      BY <2>2, <2>3, <2>4
    <3> QED BY <3>1
  <2>5. YoungestWriter(k, a) = f[L]
    BY <2>2, <2>3, <2>4 DEF YoungestWriter, W
  <2>6. Writers(k, a) # {}
    BY <2>2 DEF W
  <2> QED BY <1>7, <2>1, <2>2, <2>5, <2>6
<1> QED BY <1>10, <1>11

(* The destinations retirement hands back are, register by register, in    *)
(* the order the register file recorded them.                              *)
THEOREM PendingIsInProgramOrder == IssueSpec => []PendingInProgramOrder
BY StageInvariant, OrderOfPending, PTL

(* In the integer file, whatever issues reads for each source the register *)
(* of the youngest older writer, however out of order the rest has issued. *)
(* (The floating-point file checks only rs1 against younger writers, and   *)
(* there it fails.)                                                        *)
THEOREM ReadsAreInProgramOrder ==
  ASSUME MODE = 0
  PROVE  IssueSpec => []ReadsProgramOrder
<1>1. MODE = 0
  OBVIOUS
<1>2. StageInv => ReadsProgramOrder
  BY <1>1, OrderOfReads
<1> QED BY <1>2, StageInvariant, PTL
=============================================================================

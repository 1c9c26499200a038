-------------------------- MODULE PhyRegfile_proofs --------------------------
(***************************************************************************)
(* The renaming invariants of PhyRegfile hold for every number of          *)
(* architectural and physical registers, issue slots and commit channels.  *)
(* They are proved together: each one needs the others one cycle earlier.  *)
(***************************************************************************)
EXTENDS PhyRegfile, SequenceTheorems, FiniteSetTheorems, TLAPS

IInv ==
  /\ TypeOK
  /\ ZeroStays
  /\ FreeListExact
  /\ OneOwner
  /\ BackupFlagExact
  /\ PreAllocateFree
  /\ RenameYoungest

(* Dropping the n oldest elements of a sequence.                           *)
LEMMA RemainingFacts ==
  ASSUME NEW S, NEW s \in Seq(S), NEW k \in 0 .. Len(s)
  PROVE  /\ SubSeq(s, k + 1, Len(s)) \in Seq(S)
         /\ Len(SubSeq(s, k + 1, Len(s))) = Len(s) - k
         /\ \A i \in 1 .. Len(s) - k : SubSeq(s, k + 1, Len(s))[i] = s[i + k]
<1>1. Len(s) \in Nat /\ k + 1 \in Int
  BY LenProperties
<1>2. \A i \in (k + 1) .. Len(s) : s[i] \in S
  BY <1>1, ElementOfSeq
<1>3. /\ SubSeq(s, k + 1, Len(s)) \in Seq(S)
      /\ Len(SubSeq(s, k + 1, Len(s))) = IF k + 1 <= Len(s) THEN Len(s) - (k + 1) + 1 ELSE 0
      /\ \A i \in 1 .. Len(s) - (k + 1) + 1 :
            SubSeq(s, k + 1, Len(s))[i] = s[k + 1 + i - 1]
  BY <1>1, <1>2, SubSeqProperties
<1> QED BY <1>1, <1>3

(* After reset: the first ARCH_ENTRY_NUM registers hold the architectural  *)
(* ones, the rest are free and nothing is in flight.                       *)
LEMMA InitIInv == Init => IInv
<1> SUFFICES ASSUME Init PROVE IInv
  OBVIOUS
<1> USE DEF Init, Arch, Phys, Slots
<1>1. \A a \in Arch : pending[a] = <<>> /\ Len(pending[a]) = 0
  BY DEF Init
<1>2. Arch \subseteq Phys
  BY RegfileAssumption
<1>3. InFlight = {}
  BY <1>1 DEF InFlight, Range
<1>4. Committed = Arch
  BY DEF Committed, Range
<1>5. TypeOK
  <2>1. pending \in [Arch -> Seq(Phys)]
    BY EmptySeq
  <2>2. 0 \in Phys
    BY RegfileAssumption
  <2>3. release_en \in [Phys -> BOOLEAN] /\ entry_backup \in [Phys -> BOOLEAN]
    OBVIOUS
  <2>4. entry_commit \in [Phys -> BOOLEAN] /\ pre_allocate_vld \in [Slots -> BOOLEAN]
    OBVIOUS
  <2>5. reg_phy_id \in [Arch -> Phys] /\ backup_phy_id \in [Arch -> Phys]
    BY <1>2
  <2>6. pre_allocate_id \in [Slots -> Phys]
    BY <2>2
  <2> HIDE DEF Init, Arch, Phys, Slots
  <2>7. cancel_edge_en_d \in BOOLEAN
    BY DEF Init
  <2> QED BY <2>1, <2>3, <2>4, <2>5, <2>6, <2>7, Zenon DEF TypeOK
<1>6. ZeroStays
  BY RegfileAssumption DEF ZeroStays
<1>12. \A p \in Phys : p \in Arch <=> p < ARCH_ENTRY_NUM
  BY RegfileAssumption
<1>13. \A p \in Phys : p >= ARCH_ENTRY_NUM <=> p \notin Arch
  BY RegfileAssumption
<1> HIDE DEF Arch, Phys, Slots
<1>14. \A p \in Phys : release_en[p] = (p >= ARCH_ENTRY_NUM)
  BY Zenon
<1>15. \A p \in Phys : entry_backup[p] = (p < ARCH_ENTRY_NUM)
  BY Zenon
<1>16. \A p \in Phys : entry_commit[p] = TRUE
  BY Zenon
<1> HIDE DEF Init
<1>7. FreeListExact
  BY <1>3, <1>4, <1>13, <1>14, Zenon DEF FreeListExact
<1>8. OneOwner
  <2>1. /\ \A a \in Arch : backup_phy_id[a] = a
        /\ DOMAIN backup_phy_id = Arch
    BY DEF Init
  <2>2. IsInjective(backup_phy_id)
    BY <2>1 DEF IsInjective
  <2>3. \A a \in Arch : 1 .. Len(pending[a]) = {}
    BY <1>1
  <2> QED BY <1>3, <2>2, <2>3 DEF OneOwner
<1>9. BackupFlagExact
  BY <1>4, <1>12, <1>15, <1>16, Zenon DEF BackupFlagExact
<1>10. PreAllocateFree
  BY DEF PreAllocateFree, Init
<1>11. RenameYoungest
  BY <1>1 DEF RenameYoungest, Init
<1> QED BY <1>5, <1>6, <1>7, <1>8, <1>9, <1>10, <1>11 DEF IInv

-----------------------------------------------------------------------------
(* Membership in the two sets of registers in use, spelled out.            *)
LEMMA InUse ==
  ASSUME TypeOK
  PROVE  /\ \A p : p \in Committed <=> \E a \in Arch : p = backup_phy_id[a]
         /\ \A p : p \in InFlight <=>
              \E a \in Arch : \E i \in 1 .. Len(pending[a]) : p = pending[a][i]
<1>1. DOMAIN backup_phy_id = Arch
  BY DEF TypeOK
<1>2. \A a \in Arch : DOMAIN pending[a] = 1 .. Len(pending[a])
  BY LenProperties DEF TypeOK
<1> QED BY <1>1, <1>2 DEF Committed, InFlight, Range

(* The same in the next state.                                             *)
LEMMA InUsePrime ==
  ASSUME TypeOK'
  PROVE  /\ \A p : p \in Committed' <=> \E a \in Arch : p = backup_phy_id'[a]
         /\ \A p : p \in InFlight' <=>
              \E a \in Arch : \E i \in 1 .. Len(pending'[a]) : p = pending'[a][i]
<1>1. DOMAIN backup_phy_id' = Arch
  BY DEF TypeOK
<1>2. \A a \in Arch : DOMAIN pending'[a] = 1 .. Len(pending'[a])
  BY LenProperties DEF TypeOK
<1> QED BY <1>1, <1>2 DEF Committed, InFlight, Range

(* One clock cycle with legal inputs, whatever they are, keeps IInv.       *)
LEMMA ClockIInv ==
  ASSUME IInv,
         NEW S \in SUBSET Slots, NEW rd \in [S -> Arch],
         NEW wr, NEW n \in [Arch -> Nat], NEW cancel \in BOOLEAN,
         LegalIssue(rd), LegalCommit(n), Clock(rd, wr, n, cancel),
         cancel => ~cancel_edge_en_d
  PROVE  IInv'
<1> DEFINE L(a) == Len(pending[a])
           Al == Allocated(rd)
<1> USE DEF IInv
<1>1. \A a \in Arch : /\ pending[a] \in Seq(Phys) /\ L(a) \in Nat /\ n[a] \in 0 .. L(a)
                      /\ \A i \in 1 .. L(a) : pending[a][i] \in Phys
                      /\ backup_phy_id[a] \in Phys /\ reg_phy_id[a] \in Phys
  <2> SUFFICES ASSUME NEW a \in Arch
               PROVE /\ pending[a] \in Seq(Phys) /\ L(a) \in Nat /\ n[a] \in 0 .. L(a)
                     /\ \A i \in 1 .. L(a) : pending[a][i] \in Phys
                     /\ backup_phy_id[a] \in Phys /\ reg_phy_id[a] \in Phys
    OBVIOUS
  <2>1. pending[a] \in Seq(Phys) /\ backup_phy_id[a] \in Phys /\ reg_phy_id[a] \in Phys
    BY DEF TypeOK
  <2>2. L(a) \in Nat /\ \A i \in 1 .. L(a) : pending[a][i] \in Phys
    BY <2>1, LenProperties, ElementOfSeq
  <2> QED BY <2>1, <2>2 DEF LegalCommit
(* Registers taken this cycle are free ones.                               *)
<1>2. \A s \in S : /\ s \in Slots /\ rd[s] \in Arch /\ pre_allocate_vld[s]
                   /\ pre_allocate_id[s] \in Phys
                   /\ release_en[pre_allocate_id[s]] /\ ~Wired(pre_allocate_id[s])
  BY DEF LegalIssue, PreAllocateFree, TypeOK
<1>3. \A p : p \in Al <=> \E s \in S : ~Wired(rd[s]) /\ p = pre_allocate_id[s]
  BY DEF Allocated
<1>4. \A p \in Al : /\ p \in Phys /\ release_en[p] /\ ~Wired(p)
                    /\ p \notin Committed /\ p \notin InFlight
  BY <1>2, <1>3 DEF FreeListExact
<1>5. \A a \in Arch : Renamed(rd, a) => /\ ~Wired(a) /\ NewId(rd, a) \in Al
                                        /\ ~cancel_edge_en_d
  <2> SUFFICES ASSUME NEW a \in Arch, Renamed(rd, a)
               PROVE ~Wired(a) /\ NewId(rd, a) \in Al /\ ~cancel_edge_en_d
    OBVIOUS
  <2>1. PICK s \in S : s = (CHOOSE t \in DOMAIN rd : rd[t] = a) /\ rd[s] = a
    BY DEF Renamed
  <2> QED BY <2>1, <1>3 DEF Renamed, NewId, LegalIssue
<1>6. \A p \in Al : \E a \in Arch : Renamed(rd, a) /\ p = NewId(rd, a)
  <2> SUFFICES ASSUME NEW s \in S, ~Wired(rd[s])
               PROVE Renamed(rd, rd[s]) /\ pre_allocate_id[s] = NewId(rd, rd[s])
    BY <1>2, <1>3
  <2>1. PICK t \in S : t = (CHOOSE u \in DOMAIN rd : rd[u] = rd[s]) /\ rd[t] = rd[s]
    OBVIOUS
  <2>2. t = s
    BY <2>1 DEF LegalIssue
  <2> QED BY <2>1, <2>2 DEF Renamed, NewId
<1>7. \A a, b \in Arch : Renamed(rd, a) /\ Renamed(rd, b) /\ NewId(rd, a) = NewId(rd, b)
                           => a = b
  <2> SUFFICES ASSUME NEW a \in Arch, NEW b \in Arch, Renamed(rd, a), Renamed(rd, b),
                      NewId(rd, a) = NewId(rd, b)
               PROVE a = b
    OBVIOUS
  <2>1. PICK s \in S : s = (CHOOSE u \in DOMAIN rd : rd[u] = a) /\ rd[s] = a
    BY DEF Renamed
  <2>2. PICK t \in S : t = (CHOOSE u \in DOMAIN rd : rd[u] = b) /\ rd[t] = b
    BY DEF Renamed
  <2>3. s = t
    BY <1>2, <2>1, <2>2 DEF NewId, PreAllocateFree
  <2> QED BY <2>1, <2>2, <2>3
(* The pending destinations after the cycle.                               *)
<1>8. ASSUME NEW a \in Arch
      PROVE  /\ pending'[a] \in Seq(Phys)
             /\ cancel => pending'[a] = <<>> /\ Len(pending'[a]) = 0
             /\ ~cancel => Len(pending'[a]) = L(a) - n[a] + (IF Renamed(rd, a) THEN 1 ELSE 0)
             /\ ~cancel => \A i \in 1 .. L(a) - n[a] : pending'[a][i] = pending[a][i + n[a]]
             /\ ~cancel /\ Renamed(rd, a) =>
                   pending'[a][L(a) - n[a] + 1] = NewId(rd, a)
  <2>1. pending'[a] = IF cancel THEN <<>>
                      ELSE IF Renamed(rd, a) THEN Append(Remaining(n, a), NewId(rd, a))
                      ELSE Remaining(n, a)
    BY DEF Clock, NextPending
  <2>2. /\ Remaining(n, a) \in Seq(Phys) /\ Len(Remaining(n, a)) = L(a) - n[a]
        /\ \A i \in 1 .. L(a) - n[a] : Remaining(n, a)[i] = pending[a][i + n[a]]
    BY <1>1, RemainingFacts DEF Remaining
  <2>3. CASE cancel
    BY <2>1, <2>3, EmptySeq
  <2>4. CASE ~cancel /\ ~Renamed(rd, a)
    BY <1>1, <2>1, <2>2, <2>4
  <2>5. CASE ~cancel /\ Renamed(rd, a)
    <3>1. NewId(rd, a) \in Phys
      BY <1>4, <1>5, <2>5
    <3>2. /\ Append(Remaining(n, a), NewId(rd, a)) \in Seq(Phys)
          /\ Len(Append(Remaining(n, a), NewId(rd, a))) = Len(Remaining(n, a)) + 1
          /\ \A i \in 1 .. Len(Remaining(n, a)) :
               Append(Remaining(n, a), NewId(rd, a))[i] = Remaining(n, a)[i]
          /\ Append(Remaining(n, a), NewId(rd, a))[Len(Remaining(n, a)) + 1] = NewId(rd, a)
      BY <2>2, <3>1, AppendProperties
    <3> QED BY <1>1, <2>1, <2>2, <2>5, <3>2
  <2> QED BY <2>3, <2>4, <2>5
(* The sets on the release and backup wires.                               *)
<1>9. \A p : p \in BackupEn(n) <=> \E a \in Arch : \E i \in 1 .. n[a] : p = pending[a][i]
  BY DEF BackupEn
<1>10. \A p : p \in ReleaseEn(n) <=>
          \/ \E a \in Arch : n[a] > 0 /\ p = backup_phy_id[a]
          \/ \E a \in Arch : \E i \in 1 .. n[a] - 1 : p = pending[a][i]
  BY DEF ReleaseEn
<1>11. \A a \in Arch : Wired(a) => n[a] = 0 /\ L(a) = 0
  <2>1. ASSUME NEW a \in Arch, Wired(a) PROVE n[a] = 0 /\ L(a) = 0
    BY <1>1, <2>1, EmptySeq DEF Wired, ZeroStays
  <2> QED BY <2>1
<1>12. \A a \in Arch : backup_phy_id'[a] = IF n[a] > 0 THEN pending[a][n[a]]
                                           ELSE backup_phy_id[a]
  BY <1>11 DEF Clock, NextBackupTable
<1>13. TypeOK'
  <2>1. reg_phy_id' \in [Arch -> Phys]
    <3>1. reg_phy_id' = [a \in Arch |->
             IF cancel_edge_en_d /\ ~Wired(a) THEN backup_phy_id[a]
             ELSE IF Renamed(rd, a) THEN NewId(rd, a) ELSE reg_phy_id[a]]
      BY DEF Clock, NextRename
    <3> QED BY <1>1, <1>4, <1>5, <3>1
  <2>2. backup_phy_id' \in [Arch -> Phys]
    <3>1. \A a \in Arch : n[a] > 0 => pending[a][n[a]] \in Phys
      BY <1>1
    <3> QED BY <1>1, <3>1 DEF Clock, NextBackupTable
  <2>3. release_en' \in [Phys -> BOOLEAN]
    BY DEF Clock, NextRelease, TypeOK
  <2>4. entry_backup' \in [Phys -> BOOLEAN]
    BY DEF Clock, NextBackup, TypeOK
  <2>5. entry_commit' \in [Phys -> BOOLEAN]
    BY DEF Clock, NextCommit, TypeOK
  <2>6. pre_allocate_vld' \in [Slots -> BOOLEAN]
    BY DEF Clock, PreAllocate
  <2>7. pre_allocate_id' \in [Slots -> Phys]
    <3>1. 0 \in Phys
      BY RegfileAssumption DEF Phys
    <3>2. \A s \in Slots : LeadOne(Idle(rd), s) \subseteq Phys
      BY DEF LeadOne, Idle
    <3> QED BY <3>1, <3>2 DEF Clock, PreAllocate
  <2>8. cancel_edge_en_d' \in BOOLEAN
    BY DEF Clock
  <2>9. pending' \in [Arch -> Seq(Phys)]
    <3>1. pending' = [a \in Arch |-> pending'[a]]
      BY DEF Clock, NextPending
    <3> QED BY <1>8, <3>1
  <2> QED BY <2>1, <2>2, <2>3, <2>4, <2>5, <2>6, <2>7, <2>8, <2>9 DEF TypeOK
(* What the wires do to the two sets of registers in use.                  *)
<1>14. \A p : p \in Committed' <=>
          p \notin ReleaseEn(n) /\ (p \in BackupEn(n) \/ p \in Committed)
  <2>1. ASSUME NEW a \in Arch, n[a] > 0
        PROVE  /\ pending[a][n[a]] \in BackupEn(n)
               /\ pending[a][n[a]] \notin ReleaseEn(n)
    <3>1. n[a] \in 1 .. L(a) /\ n[a] \in 1 .. n[a]
      BY <1>1, <2>1
    <3>2. pending[a][n[a]] \in BackupEn(n) /\ pending[a][n[a]] \in InFlight
      BY <1>9, <3>1, InUse
    <3>3. \A b \in Arch : pending[a][n[a]] # backup_phy_id[b]
      BY <3>2, InUse DEF OneOwner
    <3>4. ASSUME NEW b \in Arch, NEW i \in 1 .. n[b] - 1
          PROVE  pending[a][n[a]] # pending[b][i]
      <4>1. i \in 1 .. L(b) /\ (a = b => i # n[a])
        BY <1>1
      <4> QED BY <3>1, <4>1 DEF OneOwner
    <3> QED BY <1>10, <3>2, <3>3, <3>4
  <2>2. ASSUME NEW a \in Arch, n[a] = 0
        PROVE  backup_phy_id[a] \notin ReleaseEn(n)
    <3>1. backup_phy_id[a] \in Committed /\ backup_phy_id[a] \notin InFlight
      BY InUse DEF OneOwner
    <3>2. \A b \in Arch : n[b] > 0 => backup_phy_id[a] # backup_phy_id[b]
      BY <2>2 DEF OneOwner, IsInjective, TypeOK
    <3>3. ASSUME NEW b \in Arch, NEW i \in 1 .. n[b] - 1
          PROVE  backup_phy_id[a] # pending[b][i]
      <4>1. i \in 1 .. L(b)
        BY <1>1
      <4> QED BY <3>1, <4>1, InUse
    <3> QED BY <1>10, <3>2, <3>3
  <2>3. \A a \in Arch : n[a] \in Nat
    OBVIOUS
  <2>4. ASSUME NEW p, p \in Committed'
        PROVE  p \notin ReleaseEn(n) /\ (p \in BackupEn(n) \/ p \in Committed)
    <3>1. PICK a \in Arch : p = backup_phy_id'[a]
      BY <1>13, <2>4, InUsePrime
    <3>2. CASE n[a] > 0
      BY <1>12, <2>1, <3>1, <3>2
    <3>3. CASE n[a] = 0
      BY <1>12, <2>2, <3>1, <3>3, InUse
    <3> QED BY <2>3, <3>2, <3>3
  <2>5. ASSUME NEW p \in BackupEn(n), p \notin ReleaseEn(n)
        PROVE  p \in Committed'
    <3>1. PICK a \in Arch : \E i \in 1 .. n[a] : p = pending[a][i]
      BY <1>9, <2>5
    <3>2. PICK i \in 1 .. n[a] : p = pending[a][i]
      BY <3>1
    <3>3. i = n[a] /\ n[a] > 0
      BY <1>10, <2>3, <2>5, <3>2
    <3> QED BY <1>12, <1>13, <3>2, <3>3, InUsePrime
  <2>6. ASSUME NEW p \in Committed, p \notin ReleaseEn(n)
        PROVE  p \in Committed'
    <3>1. PICK a \in Arch : p = backup_phy_id[a]
      BY <2>6, InUse
    <3>2. n[a] = 0
      BY <1>10, <2>3, <2>6, <3>1
    <3> QED BY <1>12, <1>13, <3>1, <3>2, InUsePrime
  <2> QED BY <2>4, <2>5, <2>6
<1>15. \A p : p \in InFlight' <=>
          ~cancel /\ (p \in Al \/ (p \in InFlight /\ p \notin BackupEn(n)))
  <2>1. \A a \in Arch : L(a) \in Nat /\ n[a] \in 0 .. L(a)
    BY <1>1
  <2>2. ASSUME NEW p, p \in InFlight'
        PROVE  ~cancel /\ (p \in Al \/ (p \in InFlight /\ p \notin BackupEn(n)))
    <3>1. PICK a \in Arch : \E i \in 1 .. Len(pending'[a]) : p = pending'[a][i]
      BY <1>13, <2>2, InUsePrime
    <3>2. PICK i \in 1 .. Len(pending'[a]) : p = pending'[a][i]
      BY <3>1
    <3>3. ~cancel
      BY <1>8, <3>2
    <3>4. CASE i \in 1 .. L(a) - n[a]
      <4>0. p = pending[a][i + n[a]] /\ i + n[a] \in 1 .. L(a) /\ i + n[a] > n[a]
        BY <1>8, <2>1, <3>2, <3>3, <3>4
      <4>1. PICK k \in 1 .. L(a) : p = pending[a][k] /\ k > n[a]
        BY <4>0
      <4>2. p \in InFlight
        BY <4>1, InUse
      <4>3. ASSUME NEW b \in Arch, NEW j \in 1 .. n[b], p = pending[b][j] PROVE FALSE
        <5>1. j \in 1 .. L(b)
          BY <2>1
        <5>2. pending[a][k] = pending[b][j]
          BY <4>1, <4>3
        <5>3. a = b /\ k = j
          BY <5>1, <5>2 DEF OneOwner
        <5> QED BY <2>1, <4>1, <5>3
      <4> QED BY <1>9, <3>3, <4>2, <4>3
    <3>5. CASE i = L(a) - n[a] + 1 /\ Renamed(rd, a)
      BY <1>5, <1>8, <3>2, <3>3, <3>5
    <3> QED BY <1>8, <2>1, <3>2, <3>3, <3>4, <3>5
  <2>3. ASSUME NEW p \in Al, ~cancel
        PROVE  p \in InFlight'
    <3>1. PICK a \in Arch : Renamed(rd, a) /\ p = NewId(rd, a)
      BY <1>6
    <3>2. /\ L(a) - n[a] + 1 \in 1 .. Len(pending'[a])
          /\ p = pending'[a][L(a) - n[a] + 1]
      BY <1>8, <2>1, <2>3, <3>1
    <3> QED BY <1>13, <3>2, InUsePrime
  <2>4. ASSUME NEW p \in InFlight, p \notin BackupEn(n), ~cancel
        PROVE  p \in InFlight'
    <3>1. PICK a \in Arch : \E i \in 1 .. L(a) : p = pending[a][i]
      BY InUse
    <3>2. PICK i \in 1 .. L(a) : p = pending[a][i]
      BY <3>1
    <3>3. i > n[a]
      BY <1>9, <2>1, <2>4, <3>2
    <3>4. /\ i - n[a] \in 1 .. Len(pending'[a])
          /\ i - n[a] \in 1 .. L(a) - n[a]
          /\ pending'[a][i - n[a]] = pending[a][i - n[a] + n[a]]
          /\ i - n[a] + n[a] = i
      BY <1>8, <2>1, <2>4, <3>3
    <3> QED BY <1>13, <3>2, <3>4, InUsePrime
  <2> QED BY <2>2, <2>3, <2>4
(* The flags of the registers, from the two sets.                          *)
<1>16. /\ ReleaseEn(n) \subseteq Committed \cup BackupEn(n)
       /\ BackupEn(n) \subseteq InFlight
  <2>1. ASSUME NEW a \in Arch, NEW i \in 1 .. n[a] PROVE pending[a][i] \in InFlight
    <3>1. i \in 1 .. L(a)
      BY <1>1
    <3> QED BY <3>1, InUse
  <2>2. ASSUME NEW a \in Arch, NEW i \in 1 .. n[a] - 1 PROVE i \in 1 .. n[a]
    BY <1>1
  <2> QED BY <1>9, <1>10, <2>1, <2>2, InUse
<1>17. ZeroStays'
  <2>1. SUFFICES ASSUME MODE = 0
                 PROVE reg_phy_id'[0] = 0 /\ backup_phy_id'[0] = 0 /\ pending'[0] = <<>>
    BY DEF ZeroStays
  <2>2. 0 \in Arch /\ Wired(0)
    BY <2>1, RegfileAssumption DEF Arch, Wired
  <2>3. ~Renamed(rd, 0) /\ n[0] = 0 /\ L(0) = 0
    BY <1>11, <2>2 DEF Renamed
  <2>4. Len(pending'[0]) = 0 /\ pending'[0] \in Seq(Phys)
    BY <1>8, <2>2, <2>3
  <2>5. pending'[0] = <<>>
    BY <2>4, EmptySeq
  <2>6. reg_phy_id'[0] = 0
    BY <2>1, <2>2, <2>3 DEF Clock, NextRename, ZeroStays
  <2> QED BY <1>12, <2>1, <2>2, <2>3, <2>5, <2>6 DEF ZeroStays
<1>18. ASSUME NEW p \in Phys, Wired(p)
       PROVE  /\ ~release_en'[p] /\ entry_backup'[p] /\ entry_commit'[p]
              /\ p \in Committed' 
  <2>1. p \in Arch /\ backup_phy_id[p] = p /\ backup_phy_id'[p] = p
    BY <1>17, <1>18, RegfileAssumption DEF Wired, ZeroStays, Arch
  <2>2. p \in Committed /\ p \in Committed'
    BY <1>13, <2>1, InUse, InUsePrime
  <2>3. ~release_en[p] /\ entry_backup[p] /\ entry_commit[p]
    BY <2>2 DEF FreeListExact, BackupFlagExact
  <2> QED BY <1>18, <2>2, <2>3 DEF Clock, NextRelease, NextBackup, NextCommit
<1>19. FreeListExact'
  <2> SUFFICES ASSUME NEW p \in Phys, ~Wired(p)
               PROVE release_en'[p] <=> p \notin Committed' \cup InFlight'
    BY <1>18 DEF FreeListExact
  <2>1. release_en'[p] <=> \/ p \in ReleaseEn(n)
                           \/ cancel /\ ~entry_backup[p] /\ p \notin BackupEn(n)
                           \/ release_en[p] /\ p \notin Al
    BY DEF Clock, NextRelease, Dropped
  <2>2. /\ release_en[p] <=> p \notin Committed \cup InFlight
        /\ entry_backup[p] <=> p \in Committed
    BY DEF FreeListExact, BackupFlagExact
  <2>3. Committed \cap InFlight = {}
    BY DEF OneOwner
  <2> QED BY <1>4, <1>14, <1>15, <1>16, <2>1, <2>2, <2>3
<1>20. BackupFlagExact'
  <2> SUFFICES ASSUME NEW p \in Phys, ~Wired(p)
               PROVE /\ entry_backup'[p] <=> p \in Committed'
                     /\ entry_backup'[p] \/ release_en'[p] => entry_commit'[p]
    BY <1>18 DEF BackupFlagExact
  <2>1. entry_backup'[p] <=> p \notin ReleaseEn(n) /\ (p \in BackupEn(n) \/ entry_backup[p])
    BY DEF Clock, NextBackup
  <2>2. entry_backup'[p] <=> p \in Committed'
    BY <1>14, <2>1 DEF BackupFlagExact
  <2>3. entry_commit'[p] <=> \/ cancel /\ ~entry_backup[p] /\ p \notin BackupEn(n)
                             \/ p \in wr
                             \/ entry_commit[p] /\ p \notin Al
    BY DEF Clock, NextCommit, Dropped
  <2>4. release_en'[p] <=> \/ p \in ReleaseEn(n)
                           \/ cancel /\ ~entry_backup[p] /\ p \notin BackupEn(n)
                           \/ release_en[p] /\ p \notin Al
    BY DEF Clock, NextRelease, Dropped
  <2>5. p \in BackupEn(n) => entry_commit[p]
    BY <1>9 DEF LegalCommit
  <2>6. p \in Committed \/ release_en[p] => entry_commit[p]
    BY DEF BackupFlagExact
  <2>7. p \in BackupEn(n) \cup Committed => p \notin Al
    BY <1>4, <1>16
  <2> QED BY <1>14, <1>16, <2>2, <2>3, <2>4, <2>5, <2>6, <2>7
<1>21. OneOwner'
  <2>1. IsInjective(backup_phy_id')
    <3>1. SUFFICES ASSUME NEW a \in Arch, NEW b \in Arch, a # b,
                          backup_phy_id'[a] = backup_phy_id'[b]
                   PROVE FALSE
      BY <1>13 DEF IsInjective, TypeOK
    <3>2. ASSUME NEW c \in Arch, n[c] > 0
          PROVE  n[c] \in 1 .. L(c) /\ pending[c][n[c]] \in InFlight
      <4>1. n[c] \in 1 .. L(c)
        BY <1>1, <3>2
      <4> QED BY <4>1, InUse
    <3>3. \A c \in Arch : backup_phy_id[c] \in Committed /\ backup_phy_id[c] \notin InFlight
      BY InUse DEF OneOwner
    <3>4. \A c \in Arch : n[c] > 0 \/ n[c] = 0
      OBVIOUS
    <3>5. CASE n[a] > 0 /\ n[b] > 0
      BY <1>12, <3>1, <3>2, <3>5 DEF OneOwner
    <3>6. CASE n[a] = 0 /\ n[b] = 0
      BY <1>12, <3>1, <3>6 DEF OneOwner, IsInjective, TypeOK
    <3>7. CASE (n[a] > 0 /\ n[b] = 0) \/ (n[a] = 0 /\ n[b] > 0)
      BY <1>12, <3>1, <3>2, <3>3, <3>7
    <3> QED BY <3>4, <3>5, <3>6, <3>7
  <2>2. ASSUME NEW a \in Arch, NEW b \in Arch,
               NEW i \in 1 .. Len(pending'[a]), NEW j \in 1 .. Len(pending'[b]),
               pending'[a][i] = pending'[b][j]
        PROVE  a = b /\ i = j
    <3>1. ~cancel
      BY <1>8
    (* An element is an old one, further from the head, or the new id.     *)
    <3>2. ASSUME NEW c \in Arch, NEW k \in 1 .. Len(pending'[c])
          PROVE  \/ /\ k \in 1 .. L(c) - n[c] /\ k + n[c] \in 1 .. L(c)
                    /\ pending'[c][k] = pending[c][k + n[c]]
                    /\ pending'[c][k] \in InFlight
                 \/ /\ k = L(c) - n[c] + 1 /\ Renamed(rd, c)
                    /\ pending'[c][k] = NewId(rd, c)
                    /\ pending'[c][k] \in Al
      <4>1. L(c) \in Nat /\ n[c] \in 0 .. L(c)
        BY <1>1
      <4>2. CASE k \in 1 .. L(c) - n[c]
        <5>1. k + n[c] \in 1 .. L(c) /\ pending'[c][k] = pending[c][k + n[c]]
          BY <1>8, <3>1, <4>1, <4>2
        <5> QED BY <4>2, <5>1, InUse
      <4>3. CASE k = L(c) - n[c] + 1 /\ Renamed(rd, c)
        BY <1>5, <1>8, <3>1, <4>3
      <4> QED BY <1>8, <3>1, <4>1, <4>2, <4>3
    <3>3. \A p \in Al : p \notin InFlight
      BY <1>4
    <3>4. CASE pending'[a][i] \in InFlight
      <4>1. /\ i + n[a] \in 1 .. L(a) /\ j + n[b] \in 1 .. L(b)
            /\ pending[a][i + n[a]] = pending[b][j + n[b]]
        BY <2>2, <3>2, <3>3, <3>4
      <4>2. a = b /\ i + n[a] = j + n[b]
        BY <4>1 DEF OneOwner
      <4>3. n[a] \in Nat /\ i \in Int /\ j \in Int
        OBVIOUS
      <4> QED BY <4>2, <4>3
    <3>5. CASE pending'[a][i] \in Al
      <4>1. /\ Renamed(rd, a) /\ Renamed(rd, b) /\ NewId(rd, a) = NewId(rd, b)
            /\ i = L(a) - n[a] + 1 /\ j = L(b) - n[b] + 1
        BY <2>2, <3>2, <3>3, <3>5
      <4> QED BY <1>7, <4>1
    <3> QED BY <3>2, <3>4, <3>5
  <2>3. Committed' \cap InFlight' = {}
    <3>1. \A p : p \in Committed' => p \in BackupEn(n) \/ p \in Committed
      BY <1>14
    <3>2. \A p : p \in InFlight' => p \in Al \/ (p \in InFlight /\ p \notin BackupEn(n))
      BY <1>15
    <3> QED BY <1>4, <1>16, <3>1, <3>2 DEF OneOwner
  <2> QED BY <2>1, <2>2, <2>3 DEF OneOwner
<1>22. PreAllocateFree'
  <2>1. ASSUME NEW s \in Slots, pre_allocate_vld'[s]
        PROVE  pre_allocate_id'[s] \in LeadOne(Idle(rd), s)
    BY <2>1 DEF Clock, PreAllocate
  <2>2. ASSUME NEW s \in Slots, NEW p \in LeadOne(Idle(rd), s)
        PROVE  /\ p \in Phys /\ release_en[p] /\ p \notin Al
               /\ Cardinality({q \in Idle(rd) : q < p}) = s
    BY DEF LeadOne, Idle
  <2>3. ASSUME NEW p \in Phys, release_en[p], p \notin Al
        PROVE  release_en'[p] /\ ~Wired(p)
    <3>1. ASSUME Wired(p) PROVE FALSE
      <4>1. p \in Arch /\ backup_phy_id[p] = p
        BY <3>1, RegfileAssumption DEF Wired, ZeroStays, Arch
      <4> QED BY <2>3, <4>1, InUse DEF FreeListExact
    <3>2. release_en[p] /\ p \notin Allocated(rd) /\ ~Wired(p) => release_en'[p]
      BY DEF Clock, NextRelease
    <3> QED BY <2>3, <3>1, <3>2
  <2>4. ASSUME NEW s \in Slots, NEW t \in Slots, pre_allocate_vld'[s], pre_allocate_vld'[t],
               pre_allocate_id'[s] = pre_allocate_id'[t]
        PROVE  s = t
    <3>1. Cardinality({q \in Idle(rd) : q < pre_allocate_id'[s]}) = s
      BY <2>1, <2>2, <2>4
    <3>2. Cardinality({q \in Idle(rd) : q < pre_allocate_id'[t]}) = t
      BY <2>1, <2>2, <2>4
    <3> QED BY <2>4, <3>1, <3>2
  <2>5. ASSUME NEW s \in Slots, pre_allocate_vld'[s]
        PROVE  release_en'[pre_allocate_id'[s]] /\ ~Wired(pre_allocate_id'[s])
    BY <2>1, <2>2, <2>3, <2>5
  <2> QED BY <2>4, <2>5, Zenon DEF PreAllocateFree, Wired
<1>23. RenameYoungest'
  <2> SUFFICES ASSUME NEW a \in Arch
               PROVE IF cancel_edge_en_d' THEN pending'[a] = <<>>
                     ELSE reg_phy_id'[a] = IF pending'[a] = <<>> THEN backup_phy_id'[a]
                                           ELSE pending'[a][Len(pending'[a])]
    BY DEF RenameYoungest
  <2>1. cancel_edge_en_d' = cancel
    BY DEF Clock
  <2>2. CASE cancel
    BY <1>8, <2>1, <2>2
  <2>3. CASE ~cancel /\ Renamed(rd, a)
    <3>1. ~cancel_edge_en_d /\ reg_phy_id'[a] = NewId(rd, a)
      BY <1>5, <2>3 DEF Clock, NextRename
    <3>2. /\ Len(pending'[a]) = L(a) - n[a] + 1 /\ Len(pending'[a]) > 0
          /\ pending'[a][Len(pending'[a])] = NewId(rd, a)
      BY <1>1, <1>8, <2>3
    <3>3. pending'[a] # <<>>
      BY <3>2, EmptySeq
    <3> QED BY <2>1, <2>3, <3>1, <3>2, <3>3
  <2>4. CASE ~cancel /\ ~Renamed(rd, a)
    <3>1. Len(pending'[a]) = L(a) - n[a] /\ L(a) \in Nat /\ n[a] \in 0 .. L(a)
      BY <1>1, <1>8, <2>4
    <3>2. pending'[a] = <<>> <=> L(a) = n[a]
      BY <1>8, <3>1, EmptySeq
    <3>3. pending[a] = <<>> <=> L(a) = 0
      BY <1>1, EmptySeq
    <3>4. CASE L(a) # n[a]
      <4>1. pending'[a][Len(pending'[a])] = pending[a][L(a)]
        BY <1>8, <2>4, <3>1, <3>4
      <4>2. ~cancel_edge_en_d /\ reg_phy_id[a] = pending[a][L(a)]
        BY <3>1, <3>3, <3>4 DEF RenameYoungest
      <4> QED BY <2>1, <2>4, <3>2, <3>4, <4>1, <4>2 DEF Clock, NextRename
    <3>5. CASE L(a) = n[a] /\ n[a] > 0
      <4>1. ~cancel_edge_en_d /\ reg_phy_id[a] = pending[a][L(a)]
        BY <3>1, <3>3, <3>5 DEF RenameYoungest
      <4>2. backup_phy_id'[a] = pending[a][n[a]]
        BY <1>12, <3>5
      <4> QED BY <2>1, <2>4, <3>2, <3>5, <4>1, <4>2 DEF Clock, NextRename
    <3>6. CASE L(a) = n[a] /\ n[a] = 0
      <4>1. backup_phy_id'[a] = backup_phy_id[a]
        BY <1>12, <3>6
      <4>2. reg_phy_id'[a] = backup_phy_id[a]
        BY <2>4, <3>3, <3>6, RegfileAssumption
           DEF Clock, NextRename, RenameYoungest, Wired, ZeroStays
      <4> QED BY <2>1, <2>4, <3>2, <3>6, <4>1, <4>2
    <3> QED BY <3>1, <3>4, <3>5, <3>6
  <2> QED BY <2>2, <2>3, <2>4
<1> QED BY <1>13, <1>17, <1>19, <1>20, <1>21, <1>22, <1>23

(* Every step of the specification is such a cycle.                        *)
LEMMA StepIInv == IInv /\ [Next]_vars => IInv'
<1> SUFFICES ASSUME IInv, [Next]_vars PROVE IInv'
  OBVIOUS
<1>1. ASSUME NEW rd \in Issues, NEW n \in Retires, NEW wr,
             NEW cancel \in BOOLEAN, LegalIssue(rd), LegalCommit(n),
             Clock(rd, wr, n, cancel), cancel => ~cancel_edge_en_d
      PROVE  IInv'
  <2>1. PICK S \in SUBSET Slots : rd \in [S -> Arch]
    BY DEF Issues
  <2>2. n \in [Arch -> Nat]
    <3>1. PICK g \in [1 .. COMMIT_REL_CHANNEL -> Arch \cup {NoDest}] :
            n = [a \in Arch |-> Cardinality({c \in DOMAIN g : g[c] = a})]
      BY DEF Retires
    <3>2. \A a \in Arch : Cardinality({c \in DOMAIN g : g[c] = a}) \in Nat
      <4> TAKE a \in Arch
      <4>1. IsFiniteSet(1 .. COMMIT_REL_CHANNEL)
        BY RegfileAssumption, FS_Interval
      <4>2. {c \in DOMAIN g : g[c] = a} \subseteq 1 .. COMMIT_REL_CHANNEL
        OBVIOUS
      <4> QED BY <4>1, <4>2, FS_Subset, FS_CardinalityType
    <3> QED BY <3>1, <3>2
  <2> QED BY <1>1, <2>1, <2>2, ClockIInv
<1>2. CASE Run
  BY <1>1, <1>2 DEF Run
<1>3. CASE Cancel
  BY <1>1, <1>3 DEF Cancel
<1>4. CASE Recover
  <2> DEFINE none == [a \in Arch |-> 0]
  <2>1. cancel_edge_en_d /\ Clock(<<>>, {}, none, FALSE)
    BY <1>4 DEF Recover
  <2>2. <<>> \in [{} -> Arch] /\ DOMAIN <<>> = {}
    OBVIOUS
  <2>3. LegalIssue(<<>>)
    BY <2>2 DEF LegalIssue
  <2>4. none \in [Arch -> Nat] /\ \A a \in Arch : none[a] = 0
    OBVIOUS
  <2>5. \A a \in Arch : Len(pending[a]) \in Nat
    BY LenProperties DEF IInv, TypeOK
  <2> HIDE DEF none
  <2>6. LegalCommit(none)
    BY <2>4, <2>5 DEF LegalCommit
  <2>7. {} \in SUBSET Slots /\ FALSE \in BOOLEAN
    OBVIOUS
  <2> QED BY <2>1, <2>2, <2>3, <2>4, <2>6, <2>7, ClockIInv
<1>5. CASE UNCHANGED vars
  BY <1>5 DEF IInv, TypeOK, ZeroStays, FreeListExact, OneOwner, BackupFlagExact,
              PreAllocateFree, RenameYoungest, Committed, InFlight,
              vars, files, entries, preall
<1> QED BY <1>2, <1>3, <1>4, <1>5 DEF Next

(* The inductive invariant: the register file's tables and flags agree     *)
(* with what is committed and in flight after every cycle.                 *)
THEOREM RegfileInvariant == Spec => []IInv
<1>1. Init => IInv
  BY InitIInv
<1>2. IInv /\ [Next]_vars => IInv'
  BY StepIInv
<1> QED BY <1>1, <1>2, PTL DEF Spec

(* The variables keep their types for every size of the file.              *)
THEOREM TypeCorrect == Spec => []TypeOK
BY RegfileInvariant, PTL DEF IInv

(* No physical register is ever leaked or used twice: the free flags of    *)
(* toy_physicial_regfile_entry tell exactly the registers in use.          *)
THEOREM FreeListIsExact == Spec => []FreeListExact
BY RegfileInvariant, PTL DEF IInv

(* Two live destinations, or a live and a committed one, never share a     *)
(* physical register.                                                      *)
THEOREM RegistersHaveOneOwner == Spec => []OneOwner
BY RegfileInvariant, PTL DEF IInv

(* The rename table always leads a reader to the youngest older writer,    *)
(* across commits and across the reload after a misprediction.             *)
THEOREM RenameLeadsToYoungest == Spec => []RenameYoungest
BY RegfileInvariant, PTL DEF IInv

(* A register handed to a slot one cycle ahead is still free when taken.   *)
THEOREM PreAllocatedAreFree == Spec => []PreAllocateFree
BY RegfileInvariant, PTL DEF IInv

(* The flag that decides what a cancel keeps marks the committed registers.*)
THEOREM BackupFlagsAreExact == Spec => []BackupFlagExact
BY RegfileInvariant, PTL DEF IInv

(* Register x0 keeps the physical register it has at reset, whatever       *)
(* instructions name it as their destination.                              *)
THEOREM ZeroIsNeverRenamed == Spec => []ZeroStays
BY RegfileInvariant, PTL DEF IInv

=============================================================================

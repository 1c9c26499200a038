-------------------------- MODULE CommitQueue_proofs --------------------------
(***************************************************************************)
(* The commit queue is correct for every depth, width and program.         *)
(***************************************************************************)
EXTENDS CommitQueue, FiniteSetTheorems, TLAPS

D == COMMIT_QUEUE_DEPTH

LEMMA Depth == /\ D \in Nat \ {0} /\ COMMIT_REL_CHANNEL \in 1 .. D
               /\ INST_READ_CHANNEL \in 1 .. D - 1
BY CommitAssumption DEF D

-----------------------------------------------------------------------------
(* Ids in a circle: the k-th id from r on.                                 *)
Slot(r, k) == (r + k) % D

LEMMA ModRange ==
  ASSUME NEW d \in Nat \ {0}, NEW q \in Int, NEW x \in Int, NEW r \in 0 .. d - 1, x = d * q + r
  PROVE  x % d = r
OBVIOUS

LEMMA SlotValue ==
  ASSUME NEW r \in Ids, NEW k \in 0 .. D
  PROVE  /\ Slot(r, k) \in Ids
         /\ Slot(r, k) = IF r + k < D THEN r + k ELSE r + k - D
<1>1. D \in Nat \ {0} /\ r \in 0 .. D - 1
  BY Depth DEF Ids, D
<1> HIDE DEF D
<1>2. CASE r + k < D
  <2>1. Slot(r, k) = r + k
    BY <1>1, <1>2 DEF Slot
  <2> QED BY <1>1, <1>2, <2>1 DEF Ids, D
<1>3. CASE r + k >= D
  <2>1. Slot(r, k) = r + k - D
    BY <1>1, <1>3 DEF Slot
  <2> QED BY <1>1, <1>3, <2>1 DEF Ids, D
<1> QED BY <1>1, <1>2, <1>3

LEMMA SlotInjective ==
  ASSUME NEW r \in Ids, NEW k \in 0 .. D - 1, NEW j \in 0 .. D - 1, Slot(r, k) = Slot(r, j)
  PROVE  k = j
<1>1. /\ D \in Nat \ {0} /\ r \in 0 .. D - 1 /\ k \in 0 .. D /\ j \in 0 .. D
      /\ k < D /\ j < D
  BY Depth DEF Ids, D
<1>2. Slot(r, k) = IF r + k < D THEN r + k ELSE r + k - D
  BY <1>1, SlotValue
<1>3. Slot(r, j) = IF r + j < D THEN r + j ELSE r + j - D
  BY <1>1, SlotValue
<1>4. (IF r + k < D THEN r + k ELSE r + k - D) = (IF r + j < D THEN r + j ELSE r + j - D)
  BY <1>2, <1>3
<1>5. r \in Int /\ k \in Int /\ j \in Int /\ D \in Int
  BY <1>1
<1> QED BY <1>1, <1>4, <1>5

LEMMA SlotShift ==
  ASSUME NEW r \in Ids, NEW a \in 0 .. D, NEW k \in 0 .. D, a + k <= D
  PROVE  Slot(Slot(r, a), k) = Slot(r, a + k)
<1> DEFINE s == Slot(r, a)
<1>1. D \in Nat \ {0} /\ r \in 0 .. D - 1 /\ a + k \in 0 .. D
  BY Depth DEF Ids, D
<1>2. s \in Ids /\ s = IF r + a < D THEN r + a ELSE r + a - D
  BY SlotValue
<1>3. Slot(r, a + k) = IF r + (a + k) < D THEN r + (a + k) ELSE r + (a + k) - D
  BY <1>1, SlotValue
<1> HIDE DEF s
<1>4. Slot(s, k) = IF s + k < D THEN s + k ELSE s + k - D
  BY <1>2, SlotValue
<1>5. Slot(s, k) = Slot(r, a + k)
  BY <1>1, <1>2, <1>3, <1>4
<1> QED BY <1>5 DEF s

(* The instruction_idx_reg that belongs to r and u ids in use.             *)
LEMMA LastSlot ==
  ASSUME NEW r \in Ids, NEW u \in 0 .. D, NEW x \in Ids
  PROVE  x = (r + u + D - 1) % D <=> Slot(x, 1) = Slot(r, u)
<1>1. D \in Nat \ {0} /\ r \in 0 .. D - 1 /\ x \in 0 .. D - 1
  BY Depth DEF Ids, D
<1>2. Slot(x, 1) = IF x + 1 < D THEN x + 1 ELSE x + 1 - D
  BY <1>1, SlotValue
<1>3. Slot(r, u) = IF r + u < D THEN r + u ELSE r + u - D
  BY <1>1, SlotValue
<1>4. (r + u + D - 1) % D = IF r + u = 0 THEN D - 1
                            ELSE IF r + u <= D THEN r + u - 1 ELSE r + u - 1 - D
  <2> DEFINE y == r + u + D - 1
  <2>1. y \in Int
    BY <1>1
  <2>2. CASE r + u = 0
    <3>1. y = D * 0 + (D - 1) /\ D - 1 \in 0 .. D - 1
      BY <1>1, <2>2
    <3> HIDE DEF y
    <3>2. y % D = D - 1
      BY <1>1, <2>1, <3>1, ModRange
    <3> QED BY <2>2, <3>2 DEF y
  <2>3. CASE 0 < r + u /\ r + u <= D
    <3>1. y = D * 1 + (r + u - 1) /\ r + u - 1 \in 0 .. D - 1
      BY <1>1, <2>3
    <3> HIDE DEF y
    <3>2. y % D = r + u - 1
      BY <1>1, <2>1, <3>1, ModRange
    <3> QED BY <1>1, <2>3, <3>2 DEF y
  <2>4. CASE D < r + u
    <3>1. y = D * 2 + (r + u - 1 - D) /\ r + u - 1 - D \in 0 .. D - 1
      BY <1>1, <2>4
    <3> HIDE DEF y
    <3>2. y % D = r + u - 1 - D
      BY <1>1, <2>1, <3>1, ModRange
    <3> QED BY <1>1, <2>4, <3>2 DEF y
  <2> QED BY <1>1, <2>2, <2>3, <2>4
<1> QED BY <1>1, <1>2, <1>3, <1>4

-----------------------------------------------------------------------------
(* Pointers and credits.                                                   *)
CreditInv ==
  /\ v_be_pld \in [Ids -> Pc \cup {NONE}]
  /\ rd_ptr \in Ids /\ instruction_idx_reg \in Ids
  /\ commit_credit_cnt \in 0 .. COMMIT_QUEUE_DEPTH
  /\ cancel_cnt \in 0 .. CANCEL_CNT_NUM
  /\ cancel_cnt < CANCEL_CNT_NUM => rd_ptr = 0 /\ Used = 0
  /\ CreditExact

(* CreditExact, id by id.                                                  *)
InUse(i, r, u) == \E k \in 0 .. u - 1 : i = Slot(r, k)

LEMMA CircleExact ==
  ASSUME NEW r \in Ids, NEW u \in 0 .. COMMIT_QUEUE_DEPTH, NEW x \in Ids, NEW f
  PROVE  /\ {i \in Ids : f[i] # NONE} = {(r + k) % COMMIT_QUEUE_DEPTH : k \in 0 .. u - 1}
         /\ x = (r + u + COMMIT_QUEUE_DEPTH - 1) % COMMIT_QUEUE_DEPTH
         <=>
         /\ \A i \in Ids : f[i] # NONE <=> InUse(i, r, u)
         /\ Slot(x, 1) = Slot(r, u)
<1>1. u \in 0 .. D /\ D \in Nat \ {0}
  BY Depth DEF D
<1>2. x = (r + u + D - 1) % D <=> Slot(x, 1) = Slot(r, u)
  BY <1>1, LastSlot
<1>3. \A k \in 0 .. u - 1 : (r + k) % D = Slot(r, k) /\ Slot(r, k) \in Ids
  <2> TAKE k \in 0 .. u - 1
  <2>1. k \in 0 .. D
    BY <1>1
  <2> QED BY <2>1, SlotValue DEF Slot
<1>4. {(r + k) % D : k \in 0 .. u - 1} = {i \in Ids : InUse(i, r, u)}
  BY <1>3 DEF InUse
<1>5. {i \in Ids : f[i] # NONE} = {i \in Ids : InUse(i, r, u)}
        <=> \A i \in Ids : f[i] # NONE <=> InUse(i, r, u)
  OBVIOUS
<1> QED BY <1>2, <1>4, <1>5 DEF D

LEMMA CreditExactSlots ==
  ASSUME CreditInv
  PROVE  /\ Used \in 0 .. D
         /\ \A i \in Ids : v_be_pld[i] # NONE <=> InUse(i, rd_ptr, Used)
         /\ Slot(instruction_idx_reg, 1) = Slot(rd_ptr, Used)
<1>1. Used \in 0 .. COMMIT_QUEUE_DEPTH
  BY Depth DEF CreditInv, Used, D
<1>2. rd_ptr \in Ids /\ instruction_idx_reg \in Ids
  BY DEF CreditInv
<1>3. CreditExact <=> /\ \A i \in Ids : v_be_pld[i] # NONE <=> InUse(i, rd_ptr, Used)
                      /\ Slot(instruction_idx_reg, 1) = Slot(rd_ptr, Used)
  BY <1>1, <1>2, CircleExact DEF CreditExact, Head, D
<1> QED BY <1>1, <1>3 DEF CreditInv, D

(* What retires is a prefix of the channels, and in use.                   *)
LEMMA RetiringPrefix ==
  /\ rd_ptr_add \in 0 .. COMMIT_REL_CHANNEL
  /\ {j \in Channels : RfCommit(j)} = 0 .. rd_ptr_add - 1
<1> DEFINE S == {j \in Channels : RfCommit(j)}
<1>1. COMMIT_REL_CHANNEL \in Nat \ {0}
  BY CommitAssumption
<1>2. IsFiniteSet(Channels) /\ Cardinality(Channels) = COMMIT_REL_CHANNEL
  BY <1>1, FS_Interval DEF Channels
<1>3. S \subseteq Channels
  OBVIOUS
<1>4. IsFiniteSet(S) /\ Cardinality(S) <= COMMIT_REL_CHANNEL /\ Cardinality(S) \in Nat
  BY <1>2, <1>3, FS_Subset, FS_CardinalityType
<1>5. \A j \in S : \A i \in 0 .. j : i \in S
  <2> TAKE j \in S
  <2> TAKE i \in 0 .. j
  <2>1. j \in Channels /\ Series(j) /\ \A k \in 0 .. j - 1 : Correct(k)
    BY DEF RfCommit
  <2>2. j \in Nat /\ i \in Channels /\ 0 .. i \subseteq 0 .. j /\ 0 .. i - 1 \subseteq 0 .. j - 1
    BY <1>1, <2>1 DEF Channels
  <2>3. Series(i)
    BY <2>1, <2>2 DEF Series
  <2> QED BY <2>1, <2>2, <2>3 DEF RfCommit
<1>6. \A j \in S : j < Cardinality(S)
  <2> TAKE j \in S
  <2>1. j \in Nat
    BY DEF Channels
  <2>2. 0 .. j \subseteq S
    BY <1>5
  <2>3. Cardinality(0 .. j) = j + 1
    BY <2>1, FS_Interval
  <2>4. Cardinality(0 .. j) <= Cardinality(S)
    BY <1>4, <2>2, FS_Subset
  <2> HIDE DEF S
  <2> QED BY <1>4, <2>1, <2>3, <2>4
<1>7. S \subseteq 0 .. Cardinality(S) - 1
  BY <1>4, <1>6 DEF Channels
<1>8. /\ IsFiniteSet(0 .. Cardinality(S) - 1)
      /\ Cardinality(0 .. Cardinality(S) - 1) = Cardinality(S)
  BY <1>4, FS_Interval
<1>9. S = 0 .. Cardinality(S) - 1
  BY <1>7, <1>8, FS_Subset
<1>10. rd_ptr_add = Cardinality(S)
  BY DEF rd_ptr_add
<1>11. Cardinality(S) \in 0 .. COMMIT_REL_CHANNEL
  <2> HIDE DEF S
  <2> QED BY <1>1, <1>4
<1> QED BY <1>9, <1>10, <1>11, Zenon

(* A cancel retires at least the mispredicted instruction.                 *)
LEMMA CancelRetires == CancelEdge => rd_ptr_add > 0
<1> SUFFICES ASSUME CancelEdge PROVE rd_ptr_add > 0
  OBVIOUS
<1>1. PICK j \in Channels : Series(j)
  BY DEF CancelEdge
<1>2. 0 \in Channels /\ 0 .. 0 \subseteq 0 .. j /\ 0 .. 0 - 1 = {}
  BY <1>1, CommitAssumption DEF Channels
<1>3. RfCommit(0)
  BY <1>1, <1>2 DEF RfCommit, Series
<1>4. 0 \in 0 .. rd_ptr_add - 1
  BY <1>2, <1>3, RetiringPrefix
<1> QED BY <1>4, RetiringPrefix

LEMMA RetiringUsed ==
  ASSUME CreditInv
  PROVE  /\ rd_ptr_add \in 0 .. Used
         /\ RetiringIds = {Slot(rd_ptr, k) : k \in 0 .. rd_ptr_add - 1}
         /\ \A k \in 0 .. rd_ptr_add - 1 : RfCommit(k) /\ v_commit_queue[Slot(rd_ptr, k)] # NONE
<1>1. /\ rd_ptr_add \in 0 .. COMMIT_REL_CHANNEL
      /\ {j \in Channels : RfCommit(j)} = 0 .. rd_ptr_add - 1
  BY RetiringPrefix
<1>2. \A k : Head(k) = Slot(rd_ptr, k)
  BY DEF Head, Slot, D
<1>3. RetiringIds = {Slot(rd_ptr, k) : k \in 0 .. rd_ptr_add - 1}
  BY <1>1, <1>2, Zenon DEF RetiringIds
<1>4. \A k \in 0 .. rd_ptr_add - 1 : RfCommit(k)
  BY <1>1, Zenon
<1>5. \A k \in 0 .. rd_ptr_add - 1 :
        v_commit_queue[Slot(rd_ptr, k)] # NONE /\ v_be_pld[Slot(rd_ptr, k)] # NONE
  <2> TAKE k \in 0 .. rd_ptr_add - 1
  <2>1. Series(k) /\ k \in 0 .. k
    BY <1>1, <1>4 DEF RfCommit
  <2> QED BY <1>2, <2>1 DEF Series
<1>6. rd_ptr_add <= Used
  <2> SUFFICES ASSUME rd_ptr_add > Used PROVE FALSE
    BY <1>1, Depth DEF CreditInv, Used, D
  <2>1. Used \in 0 .. rd_ptr_add - 1 /\ Used \in 0 .. D - 1 /\ Used \in 0 .. D /\ D \in Nat
    BY <1>1, Depth DEF CreditInv, Used, D
  <2>2. Slot(rd_ptr, Used) \in Ids
    BY <2>1, SlotValue DEF CreditInv
  <2>3. InUse(Slot(rd_ptr, Used), rd_ptr, Used)
    BY <1>5, <2>1, <2>2, CreditExactSlots
  <2>4. PICK k \in 0 .. Used - 1 : Slot(rd_ptr, Used) = Slot(rd_ptr, k)
    BY <2>3 DEF InUse
  <2>5. k \in 0 .. D - 1
    BY <2>1
  <2>6. Used = k
    BY <2>1, <2>4, <2>5, SlotInjective DEF CreditInv
  <2> QED BY <2>1, <2>6
<1>7. Used \in Int
  BY Depth DEF CreditInv, Used, D
<1> QED BY <1>1, <1>3, <1>4, <1>5, <1>6, <1>7
(* A cycle without a cancel moves the window of used ids: the first        *)
(* rd_ptr_add leave it, n arrive behind it, the rest keep their payload.   *)
LEMMA WindowStep ==
  ASSUME CreditInv, NEW n \in 0 .. INST_READ_CHANNEL, NEW tgt \in [1 .. n -> Pc],
         LegalDispatch(n), NextBePld(n, tgt), ~CancelEn
  PROVE  /\ n > 0 => Used + n < D
         /\ \A k \in 1 .. n : Idx(k) = Slot(rd_ptr, Used + k - 1)
         /\ \A k \in 1 .. n : v_be_pld'[Slot(rd_ptr, Used + k - 1)] = tgt[k]
         /\ \A k \in rd_ptr_add .. Used - 1 :
              v_be_pld'[Slot(rd_ptr, k)] = v_be_pld[Slot(rd_ptr, k)]
         /\ \A i \in Ids : v_be_pld'[i] # NONE =>
              \E k \in rd_ptr_add .. Used + n - 1 : i = Slot(rd_ptr, k)
<1>1. /\ D \in Nat \ {0} /\ Used \in 0 .. D /\ n \in Nat /\ n < D
      /\ rd_ptr \in Ids /\ instruction_idx_reg \in Ids
  BY Depth DEF CreditInv, Used, D
<1>2. n > 0 => Used + n < D
  BY <1>1, Depth DEF LegalDispatch, CanUse, CreditInv, Used, D
<1>3. /\ Slot(instruction_idx_reg, 1) = Slot(rd_ptr, Used)
      /\ \A i \in Ids : v_be_pld[i] # NONE <=> InUse(i, rd_ptr, Used)
  BY CreditExactSlots
<1>4. \A k \in 1 .. n : Idx(k) = Slot(rd_ptr, Used + k - 1)
  <2> TAKE k \in 1 .. n
  <2>1. /\ k - 1 \in 0 .. D /\ 1 \in 0 .. D /\ 1 + (k - 1) <= D /\ 1 + (k - 1) = k
        /\ Used + (k - 1) <= D /\ Used + (k - 1) = Used + k - 1
    BY <1>1, <1>2
  <2>2. Slot(Slot(instruction_idx_reg, 1), k - 1) = Slot(instruction_idx_reg, k)
    BY <1>1, <2>1, SlotShift
  <2>3. Slot(Slot(rd_ptr, Used), k - 1) = Slot(rd_ptr, Used + k - 1)
    BY <1>1, <2>1, SlotShift
  <2>4. Idx(k) = Slot(instruction_idx_reg, k)
    BY DEF Idx, Slot, D
  <2> QED BY <1>3, <2>2, <2>3, <2>4
<1>5. \A k, j \in 0 .. Used + n - 1 : Slot(rd_ptr, k) = Slot(rd_ptr, j) => k = j
  <2> TAKE k, j \in 0 .. Used + n - 1
  <2>1. k \in 0 .. D - 1 /\ j \in 0 .. D - 1
    BY <1>1, <1>2
  <2> QED BY <1>1, <2>1, SlotInjective
<1>6. \A k \in 0 .. Used + n - 1 : Slot(rd_ptr, k) \in Ids
  <2> TAKE k \in 0 .. Used + n - 1
  <2>1. k \in 0 .. D
    BY <1>1, <1>2
  <2> QED BY <1>1, <2>1, SlotValue
<1>7. /\ rd_ptr_add \in 0 .. Used
      /\ RetiringIds = {Slot(rd_ptr, k) : k \in 0 .. rd_ptr_add - 1}
  BY RetiringUsed
<1>8. \A i \in Ids : v_be_pld'[i] =
        IF \E k \in 1 .. n : Idx(k) = i THEN tgt[CHOOSE k \in 1 .. n : Idx(k) = i]
        ELSE IF i \in RetiringIds THEN NONE ELSE v_be_pld[i]
  BY DEF NextBePld
<1>9. \A k \in 1 .. n : v_be_pld'[Slot(rd_ptr, Used + k - 1)] = tgt[k]
  <2> TAKE k \in 1 .. n
  <2> DEFINE i == Slot(rd_ptr, Used + k - 1)
  <2>1. Used + k - 1 \in 0 .. Used + n - 1
    BY <1>1
  <2>2. i \in Ids /\ Idx(k) = i
    BY <1>4, <1>6, <2>1
  <2>3. \A j \in 1 .. n : Idx(j) = i => j = k
    <3> TAKE j \in 1 .. n
    <3>1. Used + j - 1 \in 0 .. Used + n - 1
      BY <1>1
    <3>2. Idx(j) = i => Used + j - 1 = Used + k - 1
      BY <1>4, <1>5, <2>1, <3>1
    <3> QED BY <1>1, <3>2
  <2> HIDE DEF i
  <2>4. (CHOOSE j \in 1 .. n : Idx(j) = i) = k
    BY <2>2, <2>3
  <2>5. v_be_pld'[i] = tgt[k]
    BY <1>8, <2>2, <2>4
  <2> QED BY <2>5 DEF i
<1>10. \A k \in 0 .. Used - 1 : \A j \in 1 .. n : Idx(j) # Slot(rd_ptr, k)
  <2> TAKE k \in 0 .. Used - 1
  <2> TAKE j \in 1 .. n
  <2>1. /\ Used + j - 1 \in 0 .. Used + n - 1 /\ k \in 0 .. Used + n - 1
        /\ Used + j - 1 # k
    BY <1>1
  <2> QED BY <1>4, <1>5, <2>1
<1>11. \A k \in rd_ptr_add .. Used - 1 : Slot(rd_ptr, k) \notin RetiringIds
  <2> TAKE k \in rd_ptr_add .. Used - 1
  <2>1. k \in 0 .. Used + n - 1
    BY <1>1, <1>7
  <2>2. \A j \in 0 .. rd_ptr_add - 1 : j \in 0 .. Used + n - 1 /\ j # k
    BY <1>1, <1>7
  <2> QED BY <1>5, <1>7, <2>1, <2>2
<1>12. \A k \in rd_ptr_add .. Used - 1 :
         v_be_pld'[Slot(rd_ptr, k)] = v_be_pld[Slot(rd_ptr, k)]
  <2> TAKE k \in rd_ptr_add .. Used - 1
  <2>1. k \in 0 .. Used - 1 /\ k \in 0 .. Used + n - 1
    BY <1>1, <1>7
  <2> QED BY <1>6, <1>8, <1>10, <1>11, <2>1
<1>13. \A i \in Ids : v_be_pld'[i] # NONE =>
         \E k \in rd_ptr_add .. Used + n - 1 : i = Slot(rd_ptr, k)
  <2> TAKE i \in Ids
  <2> SUFFICES ASSUME v_be_pld'[i] # NONE
               PROVE  \E k \in rd_ptr_add .. Used + n - 1 : i = Slot(rd_ptr, k)
    OBVIOUS
  <2>1. CASE \E j \in 1 .. n : Idx(j) = i
    <3>1. PICK j \in 1 .. n : Idx(j) = i
      BY <2>1
    <3>2. Used + j - 1 \in rd_ptr_add .. Used + n - 1
      BY <1>1, <1>7
    <3> QED BY <1>4, <3>1, <3>2
  <2>2. CASE ~ \E j \in 1 .. n : Idx(j) = i
    <3>1. v_be_pld[i] # NONE /\ i \notin RetiringIds
      BY <1>8, <2>2
    <3>2. PICK k \in 0 .. Used - 1 : i = Slot(rd_ptr, k)
      BY <1>3, <3>1 DEF InUse
    <3>3. k \notin 0 .. rd_ptr_add - 1
      BY <1>7, <3>1, <3>2
    <3>4. k \in rd_ptr_add .. Used + n - 1
      BY <1>1, <1>7, <3>3
    <3> QED BY <3>2, <3>4
  <2> QED BY <2>1, <2>2
<1> QED BY <1>2, <1>4, <1>9, <1>12, <1>13
(* Every cycle keeps the pointers and credits in step.                     *)
LEMMA CreditStep ==
  ASSUME CreditInv, NEW n \in 0 .. INST_READ_CHANNEL, NEW tgt \in [1 .. n -> Pc],
         LegalDispatch(n), NextPtr, NextFront(n, tgt), NextBePld(n, tgt)
  PROVE  CreditInv'
<1>1. /\ D \in Nat \ {0} /\ Used \in 0 .. D /\ n \in Nat /\ n < D
      /\ rd_ptr \in Ids /\ instruction_idx_reg \in Ids /\ 0 \in Ids /\ D - 1 \in Ids
      /\ commit_credit_cnt \in 0 .. D /\ cancel_cnt \in 0 .. 1
  BY Depth DEF CreditInv, Used, Ids, D, CANCEL_CNT_NUM
<1>2. /\ Used' = D - commit_credit_cnt' /\ Used = D - commit_credit_cnt
      /\ rd_ptr_add \in 0 .. Used
      /\ NONE \notin Pc
  BY RetiringUsed, CommitAssumption DEF Used, D
<1>3. v_be_pld' \in [Ids -> Pc \cup {NONE}]
  <2>1. v_be_pld \in [Ids -> Pc \cup {NONE}]
    BY DEF CreditInv
  <2>2. ASSUME NEW i \in Ids, \E k \in 1 .. n : Idx(k) = i
        PROVE  tgt[CHOOSE k \in 1 .. n : Idx(k) = i] \in Pc
    BY <2>2
  <2> QED BY <2>1, <2>2 DEF NextBePld
<1>4. SUFFICES /\ rd_ptr' \in Ids /\ instruction_idx_reg' \in Ids
               /\ Used' \in 0 .. D /\ commit_credit_cnt' \in 0 .. D
               /\ cancel_cnt' \in 0 .. 1
               /\ cancel_cnt' < 1 => rd_ptr' = 0 /\ Used' = 0
               /\ \A i \in Ids : v_be_pld'[i] # NONE <=> InUse(i, rd_ptr', Used')
               /\ Slot(instruction_idx_reg', 1) = Slot(rd_ptr', Used')
  <2>1. CreditExact' <=>
          /\ \A i \in Ids : v_be_pld'[i] # NONE <=> InUse(i, rd_ptr', Used')
          /\ Slot(instruction_idx_reg', 1) = Slot(rd_ptr', Used')
    BY <1>4, CircleExact DEF CreditExact, Head, D
  <2> QED BY <1>3, <1>4, <2>1 DEF CreditInv, D, CANCEL_CNT_NUM
<1>5. Slot(D - 1, 1) = 0 /\ Slot(0, 0) = 0
  BY <1>1, SlotValue
<1>6. \A i : ~InUse(i, 0, 0)
  BY DEF InUse
<1>7. CancelEn => \A i \in Ids : v_be_pld'[i] = NONE
  BY DEF NextBePld
<1>8. CASE CancelEdge
  <2>1. /\ rd_ptr' = 0 /\ instruction_idx_reg' = D - 1 /\ commit_credit_cnt' = D
        /\ cancel_cnt' = 0 /\ CancelEn
    BY <1>8 DEF NextPtr, NextFront, CancelEn, D
  <2>2. Used' = 0
    BY <1>1, <1>2, <2>1
  <2> QED BY <1>1, <1>5, <1>6, <1>7, <2>1, <2>2
<1>9. CASE ~CancelEdge /\ cancel_cnt < CANCEL_CNT_NUM
  <2>1. rd_ptr = 0 /\ Used = 0 /\ rd_ptr_add = 0 /\ n = 0 /\ CancelEn
    BY <1>1, <1>2, <1>9 DEF CreditInv, LegalDispatch, CancelEn
  <2>2. Idx(0) = instruction_idx_reg
    <3>1. /\ 0 \in 0 .. D /\ instruction_idx_reg \in 0 .. D - 1
          /\ instruction_idx_reg + 0 = instruction_idx_reg
      BY <1>1 DEF Ids, D
    <3>2. Slot(instruction_idx_reg, 0) = instruction_idx_reg
      BY <1>1, <3>1, SlotValue
    <3> QED BY <3>2 DEF Idx, Slot, D
  <2>3. /\ rd_ptr' = 0 /\ instruction_idx_reg' = instruction_idx_reg
        /\ commit_credit_cnt' = commit_credit_cnt /\ cancel_cnt' = 1
    BY <1>1, <1>9, <2>1, <2>2 DEF NextPtr, NextFront, D, CANCEL_CNT_NUM
  <2>4. Used' = 0
    BY <1>2, <2>1, <2>3
  <2>5. Slot(instruction_idx_reg, 1) = Slot(0, 0)
    BY <2>1, CreditExactSlots
  <2> QED BY <1>1, <1>6, <1>7, <2>1, <2>3, <2>4, <2>5
<1>10. CASE ~CancelEdge /\ ~(cancel_cnt < CANCEL_CNT_NUM)
  <2> DEFINE a == rd_ptr_add
  <2>1. ~CancelEn /\ cancel_cnt = 1
    BY <1>1, <1>10 DEF CancelEn, CANCEL_CNT_NUM
  <2>2. /\ rd_ptr' = Slot(rd_ptr, a) /\ instruction_idx_reg' = Slot(instruction_idx_reg, n)
        /\ cancel_cnt' = 1 /\ Used' = Used - a + n
    <3>1. /\ rd_ptr' = Slot(rd_ptr, a) /\ instruction_idx_reg' = Slot(instruction_idx_reg, n)
          /\ cancel_cnt' = cancel_cnt /\ commit_credit_cnt' = commit_credit_cnt + a - n
      BY <1>10, <2>1 DEF NextPtr, NextFront, Head, Idx, Slot, D
    <3> QED BY <1>1, <1>2, <2>1, <3>1
  <2>3. /\ n > 0 => Used + n < D
        /\ \A k \in 1 .. n : v_be_pld'[Slot(rd_ptr, Used + k - 1)] = tgt[k]
        /\ \A k \in a .. Used - 1 : v_be_pld'[Slot(rd_ptr, k)] = v_be_pld[Slot(rd_ptr, k)]
        /\ \A i \in Ids : v_be_pld'[i] # NONE =>
             \E k \in a .. Used + n - 1 : i = Slot(rd_ptr, k)
    BY <2>1, WindowStep
  <2>4. /\ a \in 0 .. D /\ n \in 0 .. D /\ Used + n <= D /\ Used - a + n \in 0 .. D
        /\ a + (Used - a + n) = Used + n
    BY <1>1, <1>2, <2>3
  <2>5. rd_ptr' \in Ids /\ instruction_idx_reg' \in Ids
    BY <1>1, <2>2, <2>4, SlotValue
  <2>6. Slot(instruction_idx_reg', 1) = Slot(rd_ptr', Used')
    <3>1. Slot(Slot(instruction_idx_reg, n), 1) = Slot(instruction_idx_reg, n + 1)
      BY <1>1, <2>4, SlotShift
    <3>2. Slot(Slot(instruction_idx_reg, 1), n) = Slot(instruction_idx_reg, 1 + n)
      BY <1>1, <2>4, SlotShift
    <3>3. Slot(Slot(rd_ptr, Used), n) = Slot(rd_ptr, Used + n)
      BY <1>1, <2>4, SlotShift
    <3>4. Slot(Slot(rd_ptr, a), Used - a + n) = Slot(rd_ptr, Used + n)
      BY <1>1, <2>4, SlotShift
    <3>5. n + 1 = 1 + n
      BY <1>1
    <3> QED BY <2>2, <3>1, <3>2, <3>3, <3>4, <3>5, CreditExactSlots
  <2>7. \A k \in 0 .. Used' - 1 : Slot(rd_ptr', k) = Slot(rd_ptr, a + k)
    <3> TAKE k \in 0 .. Used' - 1
    <3>1. k \in 0 .. D /\ a + k <= D
      BY <1>1, <2>2, <2>4
    <3> QED BY <1>1, <2>2, <2>4, <3>1, SlotShift
  <2>8. ASSUME NEW i \in Ids, v_be_pld'[i] # NONE PROVE InUse(i, rd_ptr', Used')
    <3>1. PICK k \in a .. Used + n - 1 : i = Slot(rd_ptr, k)
      BY <2>3, <2>8
    <3>2. k - a \in 0 .. Used' - 1 /\ a + (k - a) = k
      BY <1>1, <1>2, <2>2, <2>4
    <3> QED BY <2>7, <3>1, <3>2 DEF InUse
  <2>9. ASSUME NEW i \in Ids, InUse(i, rd_ptr', Used') PROVE v_be_pld'[i] # NONE
    <3>1. PICK k \in 0 .. Used' - 1 : i = Slot(rd_ptr', k)
      BY <2>9 DEF InUse
    <3>2. i = Slot(rd_ptr, a + k)
      BY <2>7, <3>1
    <3>3. CASE a + k < Used
      <4>1. a + k \in a .. Used - 1 /\ a + k \in 0 .. Used - 1
        BY <1>1, <1>2, <2>4, <3>3
      <4>2. v_be_pld[i] # NONE
        BY <3>2, <4>1, CreditExactSlots DEF InUse
      <4> QED BY <2>3, <3>2, <4>1, <4>2
    <3>4. CASE Used <= a + k
      <4> DEFINE m == a + k - Used + 1
      <4>1. m \in 1 .. n /\ Used + m - 1 = a + k
        BY <1>1, <1>2, <2>2, <2>4, <3>4
      <4> HIDE DEF m
      <4>2. v_be_pld'[i] = tgt[m] /\ tgt[m] \in Pc
        BY <2>3, <3>2, <4>1
      <4> QED BY <1>2, <4>2
    <3> QED BY <1>1, <1>2, <2>4, <3>3, <3>4
  <2>10. Used' \in 0 .. D /\ commit_credit_cnt' \in 0 .. D
    <3>1. commit_credit_cnt' = commit_credit_cnt + a - n
      BY <1>10 DEF NextFront
    <3> QED BY <1>1, <1>2, <2>2, <2>4, <3>1
  <2>11. cancel_cnt' \in 0 .. 1 /\ ~(cancel_cnt' < 1)
    BY <2>2
  <2> QED BY <2>5, <2>6, <2>8, <2>9, <2>10, <2>11
<1> QED BY <1>8, <1>9, <1>10

LEMMA InitCreditInv == Init => CreditInv
<1> SUFFICES ASSUME Init PROVE CreditInv
  OBVIOUS
<1>1. /\ v_be_pld = [i \in Ids |-> NONE] /\ rd_ptr = 0 /\ cancel_cnt = 1
      /\ commit_credit_cnt = D /\ instruction_idx_reg = D - 1
  BY DEF Init, CANCEL_CNT_NUM, D
<1>2. D \in Nat \ {0} /\ 0 \in Ids /\ D - 1 \in Ids /\ Used = 0
  BY <1>1, Depth DEF Ids, Used, D
<1>3. Slot(D - 1, 1) = Slot(0, 0)
  BY <1>2, SlotValue
<1>4. \A i \in Ids : v_be_pld[i] # NONE <=> InUse(i, 0, 0)
  BY <1>1 DEF InUse
<1>5. CreditExact
  BY <1>1, <1>2, <1>3, <1>4, CircleExact DEF CreditExact, Head, D
<1> QED BY <1>1, <1>2, <1>5 DEF CreditInv, CANCEL_CNT_NUM, D

LEMMA NextCreditInv == CreditInv /\ [Next]_vars => CreditInv'
<1> SUFFICES ASSUME CreditInv, [Next]_vars PROVE CreditInv'
  OBVIOUS
<1>1. CASE UNCHANGED vars
  BY <1>1 DEF vars, queue, front, CreditInv, CreditExact, Used, Head
<1>2. CASE Next
  <2>1. PICK now, mx, fx : Cycle(now, mx, fx)
    BY <1>2 DEF Next, Run, Cancel
  <2>2. PICK n \in 0 .. INST_READ_CHANNEL :
          /\ LegalDispatch(n)
          /\ \E tgt \in Predictions(n), res \in Results(now) : Clock(n, tgt, now, mx, fx, res)
    BY <2>1 DEF Cycle
  <2>3. PICK tgt \in Predictions(n), res \in Results(now) : Clock(n, tgt, now, mx, fx, res)
    BY <2>2
  <2>4. tgt \in [1 .. n -> Pc]
    BY DEF Predictions
  <2> QED BY <2>2, <2>3, <2>4, CreditStep DEF Clock
<1> QED BY <1>1, <1>2

(* Credits and pointers always agree, for every depth and width of the     *)
(* queue and every program: toy_fetch_queue2 never hands out an id that is *)
(* still held, however retirement, dispatch and cancels coincide.          *)
THEOREM CreditsExact == Spec => []CreditExact
<1>1. CreditInv => CreditExact
  BY DEF CreditInv
<1> QED BY <1>1, InitCreditInv, NextCreditInv, PTL DEF Spec

-----------------------------------------------------------------------------
(* Types, with floating-point instructions.  What the wrapper's counter    *)
(* and valid bits announce is there.                                       *)
FloatLoaded ==
  /\ multi_cycle_cnt < FP_STAGES => multi_cycle_pld # NONE
  /\ instruction_en_o_d \/ instruction_en_o => fp_commit_pld_multi # NONE

TypeInv == TypeOK /\ CreditInv /\ FloatLoaded

LEMMA TypeStep ==
  ASSUME TypeInv, CreditInv', NEW n \in 0 .. INST_READ_CHANNEL, NEW tgt \in Predictions(n),
         NEW now \in SUBSET waiting, NEW mx \in waiting \cup {NONE},
         NEW fx \in waiting \cup {NONE}, NEW res \in Results(now), LegalIssue(now, mx, fx),
         LegalDispatch(n), Clock(n, tgt, now, mx, fx, res)
  PROVE  TypeInv'
<1>1. /\ NONE \notin Pc /\ NONE \notin Inst /\ NONE \notin Result
      /\ Succ \in [Pc -> SUBSET Pc] /\ FP_STAGES \in Nat \ {0}
  BY CommitAssumption
<1>2. tgt \in [1 .. n -> Pc]
  BY DEF Predictions
<1>3. /\ D \in Nat \ {0} /\ rd_ptr_add \in 0 .. Used /\ Used \in 0 .. D
      /\ \A k \in 0 .. rd_ptr_add - 1 : v_commit_queue[Slot(rd_ptr, k)] # NONE
  BY RetiringUsed, CreditExactSlots, Depth DEF TypeInv
<1>4. Completing(now) \subseteq Inst
  <2>1. 2 \in 1 .. 2
    OBVIOUS
  <2> QED BY <1>1, <2>1 DEF Completing, TypeInv, TypeOK, FloatLoaded
<1>5. res \subseteq Result
  <2>1. PICK nxt : /\ \A c \in Completing(now) : nxt[c] \in Succ[c.pc]
                   /\ res = {[id |-> c.id, inst_pc |-> c.pc, inst_nxt_pc |-> nxt[c]] :
                               c \in Completing(now)}
    BY DEF Results
  <2> QED BY <1>1, <1>4, <2>1 DEF Inst, Result
<1>6. v_commit_queue' \in [Ids -> Result \cup {NONE}]
  <2>1. ASSUME NEW i \in Ids, \E r \in res : r.id = i
        PROVE  (CHOOSE r \in res : r.id = i) \in Result
    BY <1>5, <2>1
  <2> QED BY <2>1 DEF Clock, NextQueue, TypeInv, TypeOK
<1>7. rd_ptr_add > 0 => Retired(rd_ptr_add - 1).inst_nxt_pc \in Pc
  <2> SUFFICES ASSUME rd_ptr_add > 0 PROVE Retired(rd_ptr_add - 1).inst_nxt_pc \in Pc
    OBVIOUS
  <2>1. rd_ptr_add - 1 \in 0 .. rd_ptr_add - 1 /\ rd_ptr_add - 1 \in 0 .. D
    BY <1>3
  <2>2. Slot(rd_ptr, rd_ptr_add - 1) \in Ids
    BY <2>1, SlotValue DEF TypeInv, CreditInv
  <2>3. Retired(rd_ptr_add - 1) = v_commit_queue[Slot(rd_ptr, rd_ptr_add - 1)]
    BY DEF Retired, Head, Slot, D
  <2>4. Retired(rd_ptr_add - 1) \in Result
    BY <1>3, <2>1, <2>2, <2>3 DEF TypeInv, TypeOK
  <2> QED BY <2>4 DEF Result
<1>8. CancelEdge => rd_ptr_add > 0
  BY CancelRetires
<1>9. real_next_pc' \in Pc /\ fetch_pc' \in Pc
  <2>1. real_next_pc' \in Pc
    BY <1>3, <1>7 DEF Clock, NextReal, TypeInv, TypeOK
  <2>2. CASE CancelEdge
    <3>1. fetch_pc' = Retired(rd_ptr_add - 1).inst_nxt_pc
      BY <2>2, Zenon DEF Clock, NextFront
    <3> QED BY <1>7, <1>8, <2>1, <2>2, <3>1, Zenon
  <2>3. CASE ~CancelEdge
    <3>1. n # 0 => tgt[n] \in Pc
      BY <1>2
    <3>2. fetch_pc' = IF n = 0 THEN fetch_pc ELSE tgt[n]
      BY <2>3, Zenon DEF Clock, NextFront
    <3>3. fetch_pc \in Pc
      BY DEF TypeInv, TypeOK
    <3> QED BY <2>1, <3>1, <3>2, <3>3, Zenon
  <2> QED BY <2>1, <2>2, <2>3
<1>10. waiting' \subseteq Inst
  <2>1. ASSUME NEW i \in 1 .. n
        PROVE  [id |-> Idx(i), pc |-> IF i = 1 THEN fetch_pc ELSE tgt[i - 1]] \in Inst
    <3>1. Idx(i) \in Ids
      <4>1. i \in 0 .. D /\ instruction_idx_reg \in Ids
        BY Depth DEF TypeInv, CreditInv
      <4>2. Slot(instruction_idx_reg, i) \in Ids
        BY <4>1, SlotValue
      <4> QED BY <4>2 DEF Idx, Slot, D
    <3>2. i # 1 => tgt[i - 1] \in Pc
      BY <1>2
    <3> QED BY <3>1, <3>2 DEF Inst, TypeInv, TypeOK
  <2>2. Dispatched(n, tgt) \subseteq Inst
    BY <2>1 DEF Dispatched
  <2> QED BY <2>2 DEF Clock, NextWaiting, TypeInv, TypeOK
<1>11. mext_d' \in [1 .. 2 -> Inst \cup {NONE}]
  <2>1. mx \in Inst \cup {NONE} /\ mext_d[1] \in Inst \cup {NONE}
    BY DEF TypeInv, TypeOK
  <2> QED BY <2>1 DEF Clock, NextMext
<1>12. fx \in Inst \cup {NONE}
  BY DEF TypeInv, TypeOK
<1>13. /\ multi_cycle_cnt' \in 0 .. FP_STAGES
       /\ multi_cycle_pld' \in Inst \cup {NONE}
       /\ multi_cycle_cnt' < FP_STAGES => multi_cycle_pld' # NONE
  BY <1>1, <1>12 DEF Clock, NextFloat, TypeInv, TypeOK, FloatLoaded
<1>14. /\ fp_commit_pld_multi' \in Inst \cup {NONE}
       /\ instruction_en_o_d' \in BOOLEAN /\ instruction_en_o' \in BOOLEAN
       /\ csr_lock' \in BOOLEAN
       /\ instruction_en_o_d' \/ instruction_en_o' => fp_commit_pld_multi' # NONE
  <2>1. /\ fp_commit_pld_multi' = IF multi_cycle_cnt = FP_STAGES - 1 THEN multi_cycle_pld
                                  ELSE fp_commit_pld_multi
        /\ instruction_en_o_d' = (multi_cycle_cnt = FP_STAGES - 1)
        /\ instruction_en_o' = instruction_en_o_d
        /\ csr_lock' = IF CancelEdge \/ instruction_en_o THEN FALSE ELSE csr_lock \/ fx # NONE
    BY DEF Clock, NextFloat
  <2>2. multi_cycle_cnt = FP_STAGES - 1 => multi_cycle_pld # NONE
    BY <1>1 DEF TypeInv, FloatLoaded
  <2>3. instruction_en_o_d => fp_commit_pld_multi # NONE
    BY DEF TypeInv, FloatLoaded
  <2>4. /\ multi_cycle_pld \in Inst \cup {NONE} /\ fp_commit_pld_multi \in Inst \cup {NONE}
        /\ instruction_en_o_d \in BOOLEAN /\ csr_lock \in BOOLEAN
    BY DEF TypeInv, TypeOK
  <2>5. csr_lock' \in BOOLEAN
    BY <2>1, <2>4, Zenon
  <2> QED BY <2>1, <2>2, <2>3, <2>4, <2>5, Zenon
<1> QED BY <1>6, <1>9, <1>10, <1>11, <1>13, <1>14 DEF TypeInv, TypeOK, FloatLoaded, CreditInv

(* Every register keeps to its range, the credits and the counter of the   *)
(* floating-point wrapper included: none can wrap.                         *)
THEOREM TypesHold == Spec => []TypeOK
<1>1. Init => TypeInv
  <2> SUFFICES ASSUME Init PROVE TypeInv
    OBVIOUS
  <2>1. CreditInv
    BY InitCreditInv
  <2>2. FP_STAGES \in Nat \ {0} /\ ResetPcs \subseteq Pc
    BY CommitAssumption
  <2>3. FloatLoaded
    BY <2>2 DEF Init, FloatLoaded
  <2>4. TypeOK
    <3>1. /\ v_commit_queue \in [Ids -> Result \cup {NONE}]
          /\ mext_d \in [1 .. 2 -> Inst \cup {NONE}]
      BY DEF Init
    <3>2. /\ real_next_pc \in Pc /\ fetch_pc \in Pc /\ waiting \subseteq Inst
          /\ multi_cycle_cnt \in 0 .. FP_STAGES
          /\ multi_cycle_pld \in Inst \cup {NONE} /\ fp_commit_pld_multi \in Inst \cup {NONE}
      BY <2>2 DEF Init
    <3>3. /\ instruction_en_o_d \in BOOLEAN /\ instruction_en_o \in BOOLEAN
          /\ csr_lock \in BOOLEAN
      BY Zenon DEF Init
    <3> QED BY <2>1, <3>1, <3>2, <3>3 DEF CreditInv, TypeOK
  <2> QED BY <2>1, <2>3, <2>4 DEF TypeInv
<1>2. TypeInv /\ [Next]_vars => TypeInv'
  <2> SUFFICES ASSUME TypeInv, [Next]_vars PROVE TypeInv'
    OBVIOUS
  <2>1. CreditInv'
    BY NextCreditInv DEF TypeInv
  <2>2. CASE UNCHANGED vars
    BY <2>1, <2>2 DEF vars, queue, front, float, TypeInv, TypeOK, FloatLoaded
  <2>3. CASE Next
    <3>1. PICK now \in SUBSET waiting, mx \in waiting \cup {NONE}, fx \in waiting \cup {NONE} :
            Cycle(now, mx, fx)
      BY <2>3 DEF Next, Run, Cancel
    <3>2. PICK n \in 0 .. INST_READ_CHANNEL :
            /\ LegalDispatch(n)
            /\ \E tgt \in Predictions(n), res \in Results(now) : Clock(n, tgt, now, mx, fx, res)
      BY <3>1 DEF Cycle
    <3>3. LegalIssue(now, mx, fx)
      BY <3>1 DEF Cycle
    <3> QED BY <2>1, <3>2, <3>3, TypeStep
  <2> QED BY <2>2, <2>3
<1>3. TypeInv => TypeOK
  BY DEF TypeInv
<1> QED BY <1>1, <1>2, <1>3, PTL DEF Spec
=============================================================================

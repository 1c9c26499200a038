-------------------------- MODULE FetchStream_proofs --------------------------
(***************************************************************************)
(* The fetch queue and the issue buffer implement InstructionStream, for   *)
(* every number and depth of banks, every size of the buffer and of its    *)
(* window: one sequence in fetch order, from whose first positions         *)
(* instructions issue.                                                     *)
(*                                                                         *)
(* The argument: the n-th instruction of the queue lies in the bank n - 1  *)
(* places on in the rotation, one deeper in every round (StoredAt); a      *)
(* cycle removes the first m of them, which the issue buffer accepts, and  *)
(* puts the line behind the rest (NextStored); the compaction of the       *)
(* buffer keeps what does not issue in order (NextBuffered).               *)
(***************************************************************************)
EXTENDS FetchPath_proofs, SequenceTheorems, FunctionTheorems

-----------------------------------------------------------------------------
(* Remainders.                                                             *)
LEMMA SameRemainder ==
  ASSUME NEW d \in Nat \ {0}, NEW x \in Int, NEW c \in Int
  PROVE  (x + d * c) % d = x % d
<1> DEFINE g == x \div d
           r == x % d
<1>1. g \in Int /\ r \in 0 .. d - 1 /\ x = d * g + r
  BY DivMod
<1> HIDE DEF g, r
<1>2. x + d * c = d * (g + c) + r /\ g + c \in Int /\ x + d * c \in Int
  <2>1. d * (g + c) = d * g + d * c /\ d * g \in Int /\ d * c \in Int
    BY <1>1
  <2> QED BY <1>1, <2>1
<1>3. (x + d * c) % d = r
  BY <1>1, <1>2, ModValue
<1> QED BY <1>3 DEF r

(* Counters run modulo twice the depth, slots are numbered modulo it.      *)
LEMMA SlotOf ==
  ASSUME NEW d \in Nat \ {0}, NEW x \in Int, NEW y \in Int
  PROVE  ((x % (2 * d)) + y) % d = (x + y) % d
<1> DEFINE e == 2 * d
           g == x \div e
           r == x % e
<1>1. g \in Int /\ r \in 0 .. e - 1 /\ x = e * g + r /\ e \in Nat \ {0}
  <2>1. e \in Nat \ {0}
    OBVIOUS
  <2> HIDE DEF e
  <2> QED BY <2>1, DivMod
<1> HIDE DEF g, r
<1>2. x + y = (r + y) + d * (2 * g) /\ 2 * g \in Int /\ r + y \in Int
  <2>1. e * g = d * (2 * g) /\ d * (2 * g) \in Int
    BY <1>1
  <2> QED BY <1>1, <2>1
<1>3. ((r + y) + d * (2 * g)) % d = (r + y) % d
  BY <1>2, SameRemainder
<1> QED BY <1>2, <1>3 DEF r, e

LEMMA SlotsDiffer ==
  ASSUME NEW d \in Nat \ {0}, NEW x \in Int, NEW i \in 0 .. d - 1, NEW j \in 0 .. d - 1,
         (x + i) % d = (x + j) % d
  PROVE  i = j
<1> DEFINE g == (x + i) \div d
           h == (x + j) \div d
           r == (x + i) % d
<1>1. x + i \in Int /\ x + j \in Int
  OBVIOUS
<1>2. g \in Int /\ r \in 0 .. d - 1 /\ x + i = d * g + r
  BY <1>1, DivMod
<1>3. h \in Int /\ x + j = d * h + r
  <2>1. h \in Int /\ x + j = d * h + ((x + j) % d)
    BY <1>1, DivMod
  <2>2. (x + j) % d = r
    OBVIOUS
  <2> HIDE DEF h, r
  <2> QED BY <2>1, <2>2
<1> HIDE DEF g, h, r
<1> DEFINE e == g - h
<1>4. e \in Int /\ d * e = i - j
  <2>1. d * (g - h) = d * g - d * h /\ d * g \in Int /\ d * h \in Int
    BY <1>2, <1>3
  <2> QED BY <1>1, <1>2, <1>3, <2>1
<1>5. (e >= 1 => d * e >= d) /\ (e <= -1 => d * e <= -d)
  BY <1>4
<1>6. e = 0
  <2> HIDE DEF e
  <2>1. i - j < d /\ i - j > -d
    OBVIOUS
  <2> QED BY <1>4, <1>5, <2>1
<1> HIDE DEF e
<1> QED BY <1>4, <1>6

(* Round a and place p of a rotation are position K * a + p.               *)
LEMMA Position ==
  ASSUME NEW a \in Int, NEW p \in 0 .. K - 1
  PROVE  /\ K * a + p \in Int
         /\ (K * a + p) \div K = a
         /\ (K * a + p) % K = p
<1> DEFINE x == K * a + p
           g == x \div K
           r == x % K
<1>1. K \in Nat \ {0}
  BY Widths
<1>2. x \in Int
  BY <1>1
<1>3. r = p
  <2>1. x = K * a + p
    OBVIOUS
  <2> HIDE DEF x
  <2> QED BY <1>1, <1>2, <2>1, ModValue DEF r
<1>4. g \in Int /\ x = K * g + r
  <2> HIDE DEF x
  <2> QED BY <1>1, <1>2, DivMod
<1>5. K * g = K * a
  <2>1. K * g \in Int /\ K * a \in Int
    BY <1>1, <1>4
  <2> HIDE DEF g, r
  <2> QED BY <1>1, <1>3, <1>4, <2>1
<1> DEFINE e == g - a
<1>6. e = 0
  <2>1. e \in Int /\ K * e = 0
    <3>1. g \in Int /\ K * (g - a) = K * g - K * a /\ K * g \in Int /\ K * a \in Int
      <4> HIDE DEF g
      <4> QED BY <1>1, <1>4
    <3> HIDE DEF g
    <3> QED BY <1>5, <3>1
  <2> HIDE DEF e
  <2>2. (e >= 1 => K * e >= K) /\ (e <= -1 => K * e <= -K)
    BY <1>1, <2>1
  <2> QED BY <1>1, <2>1, <2>2
<1>7. g = a
  <2> HIDE DEF g
  <2> QED BY <1>4, <1>6
<1> QED BY <1>2, <1>3, <1>7

(* A bank at place p holds q rounds, one more when p is below r: what it   *)
(* holds are the positions below K * q + r.                                *)
LEMMA Below ==
  ASSUME NEW a \in Int, NEW q \in Int, NEW p \in 0 .. K - 1, NEW r \in 0 .. K - 1
  PROVE  K * a + p < K * q + r <=> a < q + One(p < r)
<1> DEFINE e == q - a
<1>1. K \in Nat \ {0}
  BY Widths
<1>2. e \in Int /\ K * e = K * q - K * a /\ K * q \in Int /\ K * a \in Int
  BY <1>1
<1>3. (e >= 1 => K * e >= K) /\ (e <= -1 => K * e <= -K)
  BY <1>1, <1>2
<1>4. K * a + p < K * q + r <=> p < K * e + r
  <2> HIDE DEF e
  <2> QED BY <1>1, <1>2
<1>5. a < q + One(p < r) <=> (e >= 1 \/ (e = 0 /\ p < r))
  BY DEF One
<1>6. K * e \in Int /\ (e = 0 => K * e = 0)
  BY <1>1
<1>7. p < K * e + r <=> (e >= 1 \/ (e = 0 /\ p < r))
  <2> HIDE DEF e
  <2>1. CASE e >= 1
    BY <1>1, <1>2, <1>3, <1>6, <2>1
  <2>2. CASE e = 0
    BY <1>1, <1>2, <1>3, <1>6, <2>2
  <2>3. CASE e <= -1
    BY <1>1, <1>2, <1>3, <1>6, <2>3
  <2> QED BY <1>2, <2>1, <2>2, <2>3
<1> QED BY <1>4, <1>5, <1>7

LEMMA AddToRemainder ==
  ASSUME NEW d \in Nat \ {0}, NEW x \in Int, NEW y \in Int
  PROVE  ((x % d) + y) % d = (x + y) % d
<1> DEFINE g == x \div d
           r == x % d
<1>1. g \in Int /\ r \in 0 .. d - 1 /\ x = d * g + r
  BY DivMod
<1> HIDE DEF g, r
<1>2. x + y = (r + y) + d * g /\ r + y \in Int
  BY <1>1
<1>3. ((r + y) + d * g) % d = (r + y) % d
  BY <1>1, <1>2, SameRemainder
<1> QED BY <1>2, <1>3 DEF r

-----------------------------------------------------------------------------
(* The queue.  The k-th instruction waiting in bank b; what the queue      *)
(* holds in all.                                                           *)
Entry(b, k) == queue_entry[b][(buf_rd_ptr[b] + k) % FQ_BUF_DEPTH]
Held == Cardinality(InUse)

BankInv ==
  /\ queue_entry \in [Banks -> [0 .. FQ_BUF_DEPTH - 1 -> Inst \cup {NONE}]]
  /\ buf_rd_ptr \in [Banks -> BankPtrs] /\ buf_wr_ptr \in [Banks -> BankPtrs]
  /\ \A b \in Banks :
       /\ buf_wr_ptr[b] = (buf_rd_ptr[b] + crdt_cnt[b]) % (2 * FQ_BUF_DEPTH)
       /\ buf_wr_add_ptr[b] = [j \in BankIns |-> (buf_wr_ptr[b] + j) % (2 * FQ_BUF_DEPTH)]
       /\ \A k \in 0 .. crdt_cnt[b] - 1 : Entry(b, k) \in Inst
  /\ buf_wr_add_ptr = [b \in Banks |-> buf_wr_add_ptr[b]]

(* Position K * a + p of the queue, p the bank's place in the rotation.    *)
QueueShape ==
  /\ Held \in Nat
  /\ \A q \in Nat, r \in 0 .. K - 1 : Filled(q, r) => Held = K * q + r
  /\ \A b \in Banks, a \in Nat : K * a + rd_add_ptr[b] < Held <=> a < crdt_cnt[b]
  /\ \A b \in Banks, a \in Nat :
       a < crdt_cnt[b] => Stored[K * a + rd_add_ptr[b] + 1] = Entry(b, a)

LEMMA HeldIs ==
  ASSUME BalanceInv, NEW q \in Nat, NEW r \in 0 .. K - 1, Filled(q, r)
  PROVE  Held = K * q + r /\ Held \in Nat
<1> DEFINE l == K * q + r
           f == [e \in InUse |-> K * e[2] + rd_add_ptr[e[1]]]
           Pos == 0 .. l - 1
<1>1. K \in Nat \ {0} /\ Banks = 0 .. K - 1 /\ FQ_BUF_DEPTH \in Nat
  BY Widths
<1>2. l \in Nat
  <2>1. K * q \in Nat
    BY <1>1
  <2> QED BY <1>1, <2>1
<1> HIDE DEF l
<1>3. ASSUME NEW b \in Banks, NEW a \in Nat
      PROVE  /\ K * a + rd_add_ptr[b] < l <=> a < crdt_cnt[b]
             /\ K * a + rd_add_ptr[b] \in Nat
  <2>1. rd_add_ptr[b] \in 0 .. K - 1 /\ crdt_cnt[b] = q + One(rd_add_ptr[b] < r)
    BY <1>1, RotationFacts DEF BalanceInv, Filled
  <2>2. K * a \in Nat
    BY <1>1
  <2>3. K * a + rd_add_ptr[b] < K * q + r <=> a < q + One(rd_add_ptr[b] < r)
    <3> a \in Int /\ q \in Int
      OBVIOUS
    <3> QED BY <2>1, Below
  <2> QED BY <1>1, <2>1, <2>2, <2>3 DEF l
<1>4. \A e \in InUse : /\ e[1] \in Banks /\ e[2] \in 0 .. FQ_BUF_DEPTH - 1 /\ e = <<e[1], e[2]>>
                       /\ e[2] < crdt_cnt[e[1]]
  BY DEF InUse
<1>5. f \in [InUse -> Pos]
  <2> SUFFICES ASSUME NEW e \in InUse PROVE K * e[2] + rd_add_ptr[e[1]] \in Pos
    OBVIOUS
  <2>1. e[1] \in Banks /\ e[2] \in Nat /\ e[2] < crdt_cnt[e[1]]
    BY <1>4
  <2> QED BY <1>2, <1>3, <2>1
<1>6. \A d, e \in InUse : f[d] = f[e] => d = e
  <2> TAKE d, e \in InUse
  <2> HAVE f[d] = f[e]
  <2>1. /\ d[1] \in Banks /\ d[2] \in Nat /\ d = <<d[1], d[2]>>
        /\ e[1] \in Banks /\ e[2] \in Nat /\ e = <<e[1], e[2]>>
    BY <1>4
  <2>2. K * d[2] + rd_add_ptr[d[1]] = K * e[2] + rd_add_ptr[e[1]]
    OBVIOUS
  <2>3. rd_add_ptr[d[1]] \in 0 .. K - 1 /\ rd_add_ptr[e[1]] \in 0 .. K - 1
    BY <1>1, <2>1, RotationFacts DEF BalanceInv
  <2>4. d[2] \in Int /\ e[2] \in Int
    BY <2>1
  <2>5. /\ (K * d[2] + rd_add_ptr[d[1]]) \div K = d[2]
        /\ (K * d[2] + rd_add_ptr[d[1]]) % K = rd_add_ptr[d[1]]
        /\ (K * e[2] + rd_add_ptr[e[1]]) \div K = e[2]
        /\ (K * e[2] + rd_add_ptr[e[1]]) % K = rd_add_ptr[e[1]]
    BY <2>3, <2>4, Position
  <2>6. d[2] = e[2] /\ rd_add_ptr[d[1]] = rd_add_ptr[e[1]]
    BY <2>2, <2>5, Zenon
  <2>7. d[1] = e[1]
    BY <2>1, <2>6, RotationFacts DEF BalanceInv
  <2> QED BY <2>1, <2>6, <2>7
<1>7. \A x \in Pos : \E e \in InUse : f[e] = x
  <2> TAKE x \in Pos
  <2> DEFINE a == x \div K
             p == x % K
             b == rd_add_ptr_rev[p]
  <2>1. a \in Int /\ p \in 0 .. K - 1 /\ x = K * a + p /\ x \in Nat
    BY <1>1, <1>2, DivMod
  <2> HIDE DEF a, p
  <2>2. a >= 0
    <3> SUFFICES ASSUME a <= -1 PROVE FALSE
      BY <2>1
    <3>1. K * a <= -K
      BY <1>1, <2>1
    <3> QED BY <1>1, <2>1, <3>1
  <2>3. b \in Banks /\ rd_add_ptr[b] = p /\ a \in Nat
    BY <1>1, <2>1, <2>2, RotationFacts DEF BalanceInv
  <2> HIDE DEF b
  <2>4. a < crdt_cnt[b]
    BY <1>2, <1>3, <2>1, <2>3
  <2>5. crdt_cnt[b] \in 0 .. FQ_BUF_DEPTH
    BY <2>3 DEF BalanceInv
  <2>6. <<b, a>> \in InUse
    BY <1>1, <2>3, <2>4, <2>5 DEF InUse
  <2>7. f[<<b, a>>] = x
    BY <2>1, <2>3, <2>6
  <2> QED BY <2>6, <2>7
<1>8. ExistsBijection(InUse, Pos)
  <2> HIDE DEF f, Pos
  <2>1. f \in Bijection(InUse, Pos)
    BY <1>5, <1>6, <1>7, Fun_IsBij
  <2> QED BY <2>1 DEF ExistsBijection
<1>9. IsFiniteSet(Pos) /\ Cardinality(Pos) = l
  BY <1>2, FS_Interval
<1>10. Cardinality(InUse) = Cardinality(Pos)
  <2>1. ExistsBijection(Pos, InUse)
    BY <1>8, Fun_ExistsBijSymmetric
  <2> QED BY <1>9, <2>1, FS_Bijection
<1> QED BY <1>2, <1>9, <1>10 DEF Held, l

LEMMA StoredShape == BalanceInv => QueueShape
<1> SUFFICES ASSUME BalanceInv PROVE QueueShape
  OBVIOUS
<1>1. K \in Nat \ {0} /\ Banks = 0 .. K - 1
  BY Widths
<1>2. PICK q \in Nat, r \in 0 .. K - 1 : Filled(q, r)
  BY DEF BalanceInv
<1>3. Held = K * q + r /\ Held \in Nat
  BY <1>2, HeldIs
<1>4. \A u \in Nat, v \in 0 .. K - 1 : Filled(u, v) => Held = K * u + v
  BY HeldIs
<1>5. ASSUME NEW b \in Banks, NEW a \in Nat
      PROVE  /\ K * a + rd_add_ptr[b] < Held <=> a < crdt_cnt[b]
             /\ a < crdt_cnt[b] => Stored[K * a + rd_add_ptr[b] + 1] = Entry(b, a)
  <2> DEFINE p == rd_add_ptr[b]
             n == K * a + p + 1
  <2>1. /\ p \in 0 .. K - 1 /\ crdt_cnt[b] = q + One(p < r)
        /\ b = rd_add_ptr_rev[p]
    BY <1>1, <1>2, RotationFacts DEF BalanceInv, Filled
  <2>2. K * a + p < K * q + r <=> a < q + One(p < r)
    <3> HIDE DEF p
    <3> QED BY <2>1, Below
  <2>3. a < crdt_cnt[b] => Stored[n] = Entry(b, a)
    <3> SUFFICES ASSUME a < crdt_cnt[b] PROVE Stored[n] = Entry(b, a)
      OBVIOUS
    <3>1. K * a \in Nat
      BY <1>1
    <3>2. n \in 1 .. Held
      <4> HIDE DEF p
      <4> QED BY <1>1, <1>3, <2>1, <2>2, <3>1
    <3>3. n - 1 = K * a + p /\ fq_rd_ptr + n - 1 = (fq_rd_ptr + p) + K * a
          /\ fq_rd_ptr + p \in Int /\ fq_rd_ptr \in Int
      <4>1. fq_rd_ptr \in Int
        BY DEF BalanceInv, Rotation
      <4> HIDE DEF p
      <4> QED BY <2>1, <3>1, <4>1
    <3>4. (n - 1) \div K = a
      <4> HIDE DEF n, p
      <4> QED BY <2>1, <3>3, Position
    <3>5. (fq_rd_ptr + n - 1) % K = b
      <4>1. ((fq_rd_ptr + p) + K * a) % K = (fq_rd_ptr + p) % K
        <5> DEFINE x == fq_rd_ptr + p
        <5>1. x \in Int /\ a \in Int
          BY <3>3
        <5> HIDE DEF x
        <5>2. (x + K * a) % K = x % K
          BY <1>1, <5>1, SameRemainder, Zenon
        <5> QED BY <5>2 DEF x
      <4>2. (fq_rd_ptr + p) % K = b
        <5>1. rd_add_ptr_rev[p] = (fq_rd_ptr + p) % K
          <6> HIDE DEF p
          <6> QED BY <1>1, <2>1 DEF BalanceInv, Rotation
        <5> QED BY <2>1, <5>1
      <4> HIDE DEF n, p
      <4> QED BY <3>3, <4>1, <4>2
    <3>6. Stored[n] = queue_entry[(fq_rd_ptr + n - 1) % K]
                        [(buf_rd_ptr[(fq_rd_ptr + n - 1) % K] + (n - 1) \div K) % FQ_BUF_DEPTH]
      <4> HIDE DEF n
      <4> QED BY <3>2 DEF Stored, Held, K
    <3> HIDE DEF n
    <3> QED BY <3>4, <3>5, <3>6 DEF Entry
  <2> QED BY <1>3, <2>1, <2>2, <2>3
<1> QED BY <1>3, <1>4, <1>5 DEF QueueShape

(* Every position is a place in some round.                                *)
Everywhere == \A n \in Nat : \E b \in Banks, a \in Nat : n = K * a + rd_add_ptr[b]

LEMMA Place == Rotation => Everywhere
<1> SUFFICES ASSUME Rotation, NEW n \in Nat
             PROVE  \E b \in Banks, a \in Nat : n = K * a + rd_add_ptr[b]
  BY DEF Everywhere
<1> DEFINE a == n \div K
           p == n % K
<1>1. K \in Nat \ {0} /\ Banks = 0 .. K - 1
  BY Widths
<1>2. a \in Int /\ p \in 0 .. K - 1 /\ n = K * a + p
  BY <1>1, DivMod
<1> HIDE DEF a, p
<1>3. a >= 0
  <2> SUFFICES ASSUME a <= -1 PROVE FALSE
    BY <1>2
  <2>1. K * a <= -K
    BY <1>1, <1>2
  <2> QED BY <1>1, <1>2, <2>1
<1>4. rd_add_ptr_rev[p] \in Banks /\ rd_add_ptr[rd_add_ptr_rev[p]] = p
  BY <1>1, <1>2, RotationFacts
<1> QED BY <1>2, <1>3, <1>4

LEMMA WriteSlot ==
  ASSUME BalanceInv, NEW b \in Banks
  PROVE  wr_add_ptr[b] \in Banks
<1>1. fq_wr_ptr \in Int /\ wr_add_ptr[b] = (b - fq_wr_ptr) % K
  BY DEF BalanceInv, Rotation
<1>2. (b - fq_wr_ptr) % K \in Banks
  BY <1>1, RotationInverse
<1> QED BY <1>1, <1>2

-----------------------------------------------------------------------------
(* One cycle of bank b without a cancel.                                   *)
BankMoves(b, line, rdy) ==
  LET in == Cardinality(ReqEn(b, line))
      rd == Reads(b, rdy)
  IN  /\ in \in 0 .. FQ_BUF_IN_NUM /\ ReqEn(b, line) = 0 .. in - 1
      /\ rd \in 0 .. 1 /\ rd <= crdt_cnt[b] /\ crdt_cnt[b] + in <= FQ_BUF_DEPTH
      /\ crdt_cnt[b] \in 0 .. FQ_BUF_DEPTH
      /\ crdt_cnt'[b] = crdt_cnt[b] + in - rd
      /\ buf_rd_ptr'[b] = (buf_rd_ptr[b] + rd) % (2 * FQ_BUF_DEPTH)
      /\ buf_wr_ptr'[b] = (buf_wr_ptr[b] + in) % (2 * FQ_BUF_DEPTH)

LEMMA BankStep ==
  ASSUME BalanceInv, NEW n \in LINES, NEW rdy, NEW b \in Banks,
         NextBankPtr(Line(n), rdy, FALSE), LegalLine(Line(n))
  PROVE  BankMoves(b, Line(n), rdy)
<1> DEFINE line == Line(n)
           in == Cardinality(ReqEn(b, line))
           rd == Reads(b, rdy)
           w  == wr_add_ptr[b]
<1>1. /\ K \in Nat \ {0} /\ Banks = 0 .. K - 1 /\ FQ_BUF_DEPTH \in Nat
      /\ FQ_BUF_IN_NUM \in Nat \ {0} /\ FQ_BUF_IN_NUM <= FQ_BUF_DEPTH
      /\ BankIns = 0 .. FQ_BUF_IN_NUM - 1
  BY Widths DEF BankIns
<1>2. n \in Nat /\ Len(line) = n /\ (line = <<>> <=> n = 0)
  <2>1. n \in Nat
    BY <1>1, FetchPathAssumption DEF FILTER_CHANNEL
  <2> QED BY <2>1 DEF Line
<1>3. w \in 0 .. K - 1
  BY <1>1, WriteSlot
<1>4. ReqEn(b, line) = {j \in 0 .. FQ_BUF_IN_NUM - 1 : j * K + w < n}
  BY <1>1, <1>2 DEF ReqEn, LineSlot, K
<1>5. in \in 0 .. FQ_BUF_IN_NUM /\ ReqEn(b, line) = 0 .. in - 1
  <2>1. \A j \in ReqEn(b, line) : \A i \in 0 .. j : i \in ReqEn(b, line)
    <3> TAKE j \in ReqEn(b, line)
    <3> TAKE i \in 0 .. j
    <3>1. j \in 0 .. FQ_BUF_IN_NUM - 1 /\ j * K + w < n
      BY <1>4
    <3>2. i * K <= j * K /\ i * K \in Int /\ j * K \in Int
      <4> DEFINE e == j - i
      <4>1. e \in Nat /\ e * K = j * K - i * K /\ e * K >= 0 /\ i * K \in Int /\ j * K \in Int
        BY <1>1, <3>1
      <4> QED BY <4>1
    <3> QED BY <1>1, <1>2, <1>3, <1>4, <3>1, <3>2
  <2>2. ReqEn(b, line) \in SUBSET (0 .. FQ_BUF_IN_NUM - 1) /\ FQ_BUF_IN_NUM \in Nat
    BY <1>1, <1>4
  <2> QED BY <2>1, <2>2, DownClosed
<1>6. crdt_cnt[b] \in 0 .. FQ_BUF_DEPTH
  BY DEF BalanceInv
<1>7. rd \in 0 .. 1 /\ rd <= crdt_cnt[b]
  BY <1>6 DEF Reads
<1>8. crdt_cnt[b] + in <= FQ_BUF_DEPTH
  <2>1. CASE n = 0
    <3>1. \A j \in Nat : ~(j * K + w < n)
      <4> TAKE j \in Nat
      <4>1. j * K \in Nat
        BY <1>1
      <4> QED BY <1>3, <2>1, <4>1
    <3>2. ReqEn(b, line) = {}
      BY <1>4, <3>1
    <3> QED BY <1>6, <3>2, FS_EmptySet
  <2>2. CASE n # 0
    <3>1. FQ_BUF_DEPTH - crdt_cnt[b] >= FQ_BUF_IN_NUM
      BY <1>2, <2>2 DEF LegalLine, FilterRdy
    <3> HIDE DEF in
    <3> QED BY <1>1, <1>5, <1>6, <3>1
  <2> QED BY <2>1, <2>2
<1>9. /\ crdt_cnt'[b] = (crdt_cnt[b] + in - rd) % (2 * FQ_BUF_DEPTH)
      /\ buf_rd_ptr'[b] = (buf_rd_ptr[b] + rd) % (2 * FQ_BUF_DEPTH)
      /\ buf_wr_ptr'[b] = (buf_wr_ptr[b] + in) % (2 * FQ_BUF_DEPTH)
  BY DEF NextBankPtr
<1>10. crdt_cnt'[b] = crdt_cnt[b] + in - rd
  <2> DEFINE c == crdt_cnt[b] + in - rd
  <2> HIDE DEF in, rd
  <2>1. c = (2 * FQ_BUF_DEPTH) * 0 + c /\ c \in 0 .. 2 * FQ_BUF_DEPTH - 1 /\ c \in Int
        /\ 2 * FQ_BUF_DEPTH \in Nat \ {0}
    BY <1>1, <1>5, <1>6, <1>7, <1>8
  <2> HIDE DEF c
  <2>2. c % (2 * FQ_BUF_DEPTH) = c
    BY <2>1, ModValue
  <2> QED BY <1>9, <2>2 DEF c
<1> QED BY <1>5, <1>6, <1>7, <1>8, <1>9, <1>10, Zenon DEF BankMoves

(* The bank is a queue: what was not read moves up, the bank's slots of    *)
(* the line come behind it.                                                *)
EntryMoves(b, line, rdy, k, i) ==
  /\ i < crdt_cnt[b] => Entry(b, k)' = Entry(b, i)
  /\ i >= crdt_cnt[b] => /\ i - crdt_cnt[b] \in ReqEn(b, line)
                         /\ Entry(b, k)' = line[LineSlot(b, i - crdt_cnt[b]) + 1]

LEMMA NextEntry ==
  ASSUME BankInv, NEW b \in Banks, NEW line, NEW rdy, BankMoves(b, line, rdy),
         NextEntries(line, rdy, FALSE), NEW k \in 0 .. crdt_cnt'[b] - 1, NEW i, i = k + Reads(b, rdy)
  PROVE  EntryMoves(b, line, rdy, k, i)
<1> DEFINE D  == FQ_BUF_DEPTH
           x  == buf_rd_ptr[b]
           c  == crdt_cnt[b]
           in == Cardinality(ReqEn(b, line))
           rd == Reads(b, rdy)
           slot == (x + i) % D
           at(j) == buf_wr_add_ptr[b][j] % D
           into == {j \in ReqEn(b, line) : at(j) = slot}
<1>1. D \in Nat \ {0} /\ FQ_BUF_IN_NUM <= D /\ FQ_BUF_IN_NUM \in Nat /\ BankIns = 0 .. FQ_BUF_IN_NUM - 1
  BY Widths DEF BankIns
<1>2. /\ in \in 0 .. FQ_BUF_IN_NUM /\ ReqEn(b, line) = 0 .. in - 1
      /\ rd \in 0 .. 1 /\ rd <= c /\ c + in <= D /\ c \in 0 .. D
      /\ crdt_cnt'[b] = c + in - rd
      /\ buf_rd_ptr'[b] = (x + rd) % (2 * D)
  BY DEF BankMoves
<1>3. x \in Int /\ x \in 0 .. 2 * D - 1
  BY <1>1 DEF BankInv, BankPtrs
<1>4. i \in rd .. c + in - 1 /\ i \in 0 .. D - 1 /\ k \in Nat /\ i = k + rd
  <2> HIDE DEF D, c, in, rd
  <2> QED BY <1>1, <1>2 DEF rd
<1>5. (buf_rd_ptr'[b] + k) % D = slot
  <2>1. (((x + rd) % (2 * D)) + k) % D = ((x + rd) + k) % D
    <3>1. x + rd \in Int /\ k \in Int
      BY <1>2, <1>3, <1>4
    <3> HIDE DEF D, x, rd
    <3> QED BY <1>1, <3>1, SlotOf
  <2>2. (x + rd) + k = x + i
    <3> HIDE DEF D, x, rd
    <3> QED BY <1>2, <1>3, <1>4
  <2> HIDE DEF D, x, rd
  <2> QED BY <1>2, <2>1, <2>2
<1>6. ASSUME NEW j \in 0 .. in - 1 PROVE at(j) = (x + (c + j)) % D
  <2> DEFINE w == buf_wr_ptr[b]
  <2>1. j \in BankIns /\ j \in Int /\ c \in Int
    BY <1>1, <1>2
  <2>2. w = (x + c) % (2 * D) /\ buf_wr_add_ptr[b][j] = (w + j) % (2 * D) /\ w \in Int
    BY <2>1 DEF BankInv, BankPtrs
  <2> HIDE DEF w, x, c, D
  <2>3. (((w + j) % (2 * D)) + 0) % D = ((w + j) + 0) % D
    <3>1. w + j \in Int /\ 0 \in Int
      BY <2>1, <2>2
    <3> QED BY <1>1, <3>1, SlotOf
  <2>4. (((x + c) % (2 * D)) + j) % D = ((x + c) + j) % D
    <3>1. x + c \in Int
      BY <1>3, <2>1
    <3> QED BY <1>1, <2>1, <3>1, SlotOf
  <2>5. (w + j) + 0 = w + j /\ (x + c) + j = x + (c + j)
    BY <1>3, <2>1, <2>2
  <2>6. ((w + j) % (2 * D)) + 0 = (w + j) % (2 * D)
    <3> DEFINE e == 2 * D
               v == w + j
    <3>1. e \in Nat \ {0} /\ v \in Int
      BY <1>1, <2>1, <2>2
    <3> HIDE DEF e, v
    <3>2. v % e \in Int
      BY <3>1
    <3>3. (v % e) + 0 = v % e
      BY <3>2
    <3> QED BY <3>3 DEF e, v
  <2> QED BY <2>2, <2>3, <2>4, <2>5, <2>6
<1>7. ASSUME NEW j \in 0 .. in - 1 PROVE at(j) = slot <=> c + j = i
  <2>1. c + j \in 0 .. D - 1
    <3> HIDE DEF D, c, in
    <3> QED BY <1>1, <1>2
  <2>2. (x + (c + j)) % D = (x + i) % D => c + j = i
    <3> HIDE DEF D, x, c
    <3> QED BY <1>1, <1>3, <1>4, <2>1, SlotsDiffer
  <2> QED BY <1>6, <2>2
<1>8. slot \in 0 .. D - 1
  <2>1. x + i \in Int
    BY <1>3, <1>4
  <2> HIDE DEF D, x
  <2> QED BY <1>1, <2>1, DivMod DEF slot
<1>9. Entry(b, k)' = IF into # {} THEN line[LineSlot(b, CHOOSE j \in into : TRUE) + 1]
                     ELSE IF rd = 1 /\ slot = x % D THEN NONE
                     ELSE queue_entry[b][slot]
  <2>1. Entry(b, k)' = queue_entry'[b][slot]
    <3> HIDE DEF slot, D
    <3> QED BY <1>5 DEF Entry, D
  <2> HIDE DEF slot
  <2>2. queue_entry'[b][slot] = IF into # {} THEN line[LineSlot(b, CHOOSE j \in into : TRUE) + 1]
                     ELSE IF rd = 1 /\ slot = x % D THEN NONE
                     ELSE queue_entry[b][slot]
    BY <1>8 DEF NextEntries
  <2> QED BY <2>1, <2>2
<1>10. CASE i < c
  <2>1. into = {}
    <3>1. \A j \in 0 .. in - 1 : c + j # i
      <4> HIDE DEF c, in
      <4> QED BY <1>2, <1>4, <1>10
    <3> HIDE DEF at, slot, in
    <3> QED BY <1>2, <1>7, <3>1
  <2>2. ~(rd = 1 /\ slot = x % D)
    <3> SUFFICES ASSUME rd = 1, slot = x % D PROVE FALSE
      OBVIOUS
    <3>1. (x + i) % D = (x + 0) % D
      BY <1>3
    <3>2. i = 0
      <4>1. 0 \in 0 .. D - 1
        BY <1>1
      <4> HIDE DEF D, x
      <4> QED BY <1>1, <1>3, <1>4, <3>1, <4>1, SlotsDiffer
    <3> HIDE DEF rd
    <3> QED BY <1>4, <3>2
  <2>3. Entry(b, k)' = queue_entry[b][slot]
    <3> HIDE DEF into, slot, rd
    <3> QED BY <1>9, <2>1, <2>2
  <2> QED BY <1>2, <1>4, <1>10, <2>3 DEF Entry, EntryMoves
<1>11. CASE i >= c
  <2>1. i - c \in 0 .. in - 1 /\ c + (i - c) = i
    <3> HIDE DEF c, in
    <3> QED BY <1>2, <1>4, <1>11
  <2>2. into = {i - c}
    <3>1. \A j \in 0 .. in - 1 : c + j = i <=> j = i - c
      <4> HIDE DEF c, in
      <4> QED BY <1>2, <1>4, <1>11
    <3> HIDE DEF at, slot, in, c
    <3> QED BY <1>2, <1>7, <2>1, <3>1
  <2>3. (CHOOSE j \in into : TRUE) = i - c
    <3> HIDE DEF into
    <3> QED BY <2>2
  <2>4. Entry(b, k)' = line[LineSlot(b, i - c) + 1]
    <3> HIDE DEF slot, rd
    <3>1. into # {}
      <4> HIDE DEF into
      <4> QED BY <2>2
    <3> HIDE DEF into
    <3> QED BY <1>9, <2>3, <3>1
  <2> QED BY <1>2, <1>11, <2>1, <2>4 DEF EntryMoves
<1> QED BY <1>2, <1>4, <1>10, <1>11 DEF EntryMoves

LEMMA NextBankInv ==
  ASSUME BalanceInv, BankInv, NEW line \in Seq(Inst), NEW rdy, NextBankPtr(line, rdy, FALSE),
         NextEntries(line, rdy, FALSE), \A b \in Banks : BankMoves(b, line, rdy)
  PROVE  BankInv'
<1> DEFINE D == FQ_BUF_DEPTH
<1>1. D \in Nat \ {0} /\ 2 * D \in Nat \ {0}
  BY Widths
<1>2. ASSUME NEW b \in Banks, NEW j \in ReqEn(b, line)
      PROVE  line[LineSlot(b, j) + 1] \in Inst
  <2>1. LineSlot(b, j) \in Nat /\ LineSlot(b, j) < Len(line)
    <3>1. j \in Nat /\ wr_add_ptr[b] \in Nat /\ K \in Nat
      BY Widths, WriteSlot DEF ReqEn, BankIns
    <3>2. j * K \in Nat
      BY <3>1
    <3> QED BY <3>1, <3>2 DEF ReqEn, LineSlot, K
  <2>2. LineSlot(b, j) + 1 \in 1 .. Len(line)
    BY <2>1
  <2> QED BY <2>2, ElementOfSeq
<1>3. queue_entry' \in [Banks -> [0 .. D - 1 -> Inst \cup {NONE}]]
  <2> SUFFICES ASSUME NEW b \in Banks, NEW i \in 0 .. D - 1
               PROVE  LET into == {j \in ReqEn(b, line) : buf_wr_add_ptr[b][j] % D = i}
                      IN  (IF into # {} THEN line[LineSlot(b, CHOOSE j \in into : TRUE) + 1]
                           ELSE IF Reads(b, rdy) = 1 /\ i = buf_rd_ptr[b] % D THEN NONE
                           ELSE queue_entry[b][i]) \in Inst \cup {NONE}
    BY DEF NextEntries
  <2> DEFINE into == {j \in ReqEn(b, line) : buf_wr_add_ptr[b][j] % D = i}
  <2>1. into # {} => (CHOOSE j \in into : TRUE) \in ReqEn(b, line)
    OBVIOUS
  <2>2. queue_entry[b][i] \in Inst \cup {NONE}
    <3>1. queue_entry \in [Banks -> [0 .. D - 1 -> Inst \cup {NONE}]]
      BY DEF BankInv
    <3> HIDE DEF D
    <3> QED BY <3>1
  <2> QED BY <1>2, <2>1, <2>2
<1>4. /\ \A b \in Banks : buf_rd_ptr[b] \in Int /\ buf_wr_ptr[b] \in Int /\ crdt_cnt[b] \in Int
      /\ \A b \in Banks : Reads(b, rdy) \in Int /\ Cardinality(ReqEn(b, line)) \in Int
  <2>1. \A b \in Banks : buf_rd_ptr[b] \in Int /\ buf_wr_ptr[b] \in Int
    BY <1>1 DEF BankInv, BankPtrs
  <2>2. \A b \in Banks : /\ crdt_cnt[b] \in Int
                         /\ Reads(b, rdy) \in Int /\ Cardinality(ReqEn(b, line)) \in Int
    BY Widths DEF BankMoves
  <2> QED BY <2>1, <2>2
<1>5. ASSUME NEW b \in Banks
      PROVE  /\ buf_rd_ptr'[b] \in BankPtrs /\ buf_wr_ptr'[b] \in BankPtrs
             /\ buf_wr_ptr'[b] = (buf_rd_ptr'[b] + crdt_cnt'[b]) % (2 * D)
  <2> DEFINE x  == buf_rd_ptr[b]
             c  == crdt_cnt[b]
             in == Cardinality(ReqEn(b, line))
             rd == Reads(b, rdy)
             e  == 2 * D
  <2>1. /\ crdt_cnt'[b] = c + in - rd
        /\ buf_rd_ptr'[b] = (x + rd) % e
        /\ buf_wr_ptr'[b] = (buf_wr_ptr[b] + in) % e
    BY DEF BankMoves
  <2>2. buf_wr_ptr[b] = (x + c) % e
    BY DEF BankInv
  <2>3. x \in Int /\ c \in Int /\ in \in Int /\ rd \in Int /\ buf_wr_ptr[b] \in Int
        /\ x + rd \in Int /\ x + c \in Int /\ c + in - rd \in Int
    BY <1>4
  <2>4. BankPtrs = 0 .. e - 1 /\ e \in Nat \ {0}
    BY <1>1 DEF BankPtrs
  <2> HIDE DEF x, c, in, rd, e
  <2>5. (x + rd) % e \in 0 .. e - 1 /\ (buf_wr_ptr[b] + in) % e \in 0 .. e - 1
    <3>1. buf_wr_ptr[b] + in \in Int
      BY <2>3
    <3> QED BY <2>3, <2>4, <3>1, DivMod
  <2>6. (((x + c) % e) + in) % e = ((x + c) + in) % e
    BY <2>3, <2>4, AddToRemainder
  <2>7. (((x + rd) % e) + (c + in - rd)) % e = ((x + rd) + (c + in - rd)) % e
    BY <2>3, <2>4, AddToRemainder
  <2>8. (x + rd) + (c + in - rd) = (x + c) + in
    BY <2>3
  <2> QED BY <2>1, <2>2, <2>4, <2>5, <2>6, <2>7, <2>8 DEF e
<1>6. buf_rd_ptr' \in [Banks -> BankPtrs] /\ buf_wr_ptr' \in [Banks -> BankPtrs]
  <2>1. buf_rd_ptr' = [b \in Banks |-> buf_rd_ptr'[b]] /\ buf_wr_ptr' = [b \in Banks |-> buf_wr_ptr'[b]]
    BY DEF NextBankPtr
  <2> QED BY <1>5, <2>1
<1>7. /\ buf_wr_add_ptr' = [b \in Banks |-> [j \in BankIns |-> (buf_wr_ptr'[b] + j) % (2 * D)]]
  BY DEF NextBankPtr
<1>8. ASSUME NEW b \in Banks, NEW k \in 0 .. crdt_cnt'[b] - 1
      PROVE  Entry(b, k)' \in Inst
  <2> DEFINE i == k + Reads(b, rdy)
  <2>1. BankMoves(b, line, rdy) /\ i \in Nat /\ crdt_cnt[b] \in Int
    BY DEF BankMoves
  <2> HIDE DEF i
  <2>2. EntryMoves(b, line, rdy, k, i)
    BY <2>1, NextEntry DEF i
  <2>3. CASE i < crdt_cnt[b]
    <3>1. Entry(b, i) \in Inst
      BY <2>1, <2>3 DEF BankInv
    <3> QED BY <2>2, <2>3, <3>1 DEF EntryMoves
  <2>4. CASE i >= crdt_cnt[b]
    BY <1>2, <2>2, <2>4 DEF EntryMoves
  <2> QED BY <2>1, <2>3, <2>4
<1>9. \A b \in Banks : buf_wr_add_ptr'[b] = [j \in BankIns |-> (buf_wr_ptr'[b] + j) % (2 * D)]
  BY <1>7
<1>10. buf_wr_add_ptr' = [b \in Banks |-> buf_wr_add_ptr'[b]]
  BY <1>7
<1>11. ASSUME NEW b \in Banks PROVE \A k \in 0 .. crdt_cnt'[b] - 1 : Entry(b, k)' \in Inst
  BY <1>8
<1> QED BY <1>3, <1>5, <1>6, <1>9, <1>10, <1>11, Zenon DEF BankInv

-----------------------------------------------------------------------------
(* The queue holds instructions.                                           *)
LEMMA StoredSeq ==
  ASSUME BalanceInv, BankInv
  PROVE  Stored \in Seq(Inst) /\ Len(Stored) = Held /\ Held \in Nat
<1>1. QueueShape /\ Everywhere
  BY StoredShape, Place DEF BalanceInv
<1>2. Held \in Nat
  BY <1>1 DEF QueueShape
<1>3. ASSUME NEW n \in 1 .. Held PROVE Stored[n] \in Inst
  <2>1. n - 1 \in Nat
    BY <1>2
  <2>2. PICK b \in Banks, a \in Nat : n - 1 = K * a + rd_add_ptr[b]
    BY <1>1, <2>1 DEF Everywhere
  <2>3. K * a + rd_add_ptr[b] < Held /\ K * a + rd_add_ptr[b] + 1 = n
    BY <1>2, <2>2
  <2>4. a < crdt_cnt[b] /\ Stored[n] = Entry(b, a)
    BY <1>1, <2>3, Zenon DEF QueueShape
  <2>5. crdt_cnt[b] \in Nat
    BY DEF BalanceInv
  <2> QED BY <2>4, <2>5 DEF BankInv
<1>4. Stored = [n \in 1 .. Held |-> Stored[n]]
  BY DEF Stored, Held
<1>5. Stored \in [1 .. Held -> Inst]
  BY <1>3, <1>4
<1>6. Stored \in Seq(Inst)
  BY <1>2, <1>5, SeqDef
<1>7. Len(Stored) = Held
  BY <1>2, <1>5, <1>6
<1> QED BY <1>2, <1>6, <1>7

(* A cycle removes the first m instructions and appends the line.          *)
StoredMoves(n, rdy) ==
  LET m == ReadNum(rdy)
  IN  /\ m \in 0 .. K /\ m <= Held /\ Held \in Nat
      /\ Held' = Held - m + n
      /\ \A i \in 1 .. Held - m + n :
           Stored'[i] = IF i + m <= Held THEN Stored[i + m] ELSE Line(n)[i + m - Held]

LEMMA NextStored ==
  ASSUME BalanceInv, RoomInv', BankInv, NEW n \in LINES, NEW credit \in BOOLEAN,
         NEW taken \in SUBSET MVld, Clock(Line(n), credit, taken, FALSE),
         NEW rdy, rdy = IF credit THEN {c \in Channels : v_s_rdy[c]} ELSE {}
  PROVE  StoredMoves(n, rdy)
<1> DEFINE line == Line(n)
           m    == ReadNum(rdy)
<1>1. K \in Nat \ {0} /\ Banks = 0 .. K - 1
  BY Widths
<1>2. n \in Nat
  BY Widths, FetchPathAssumption DEF FILTER_CHANNEL
<1>3. /\ LegalLine(line) /\ NextRotation(line, rdy, FALSE) /\ NextBankPtr(line, rdy, FALSE)
      /\ NextEntries(line, rdy, FALSE)
  BY DEF Clock, NextFetchQueue
<1>4. /\ BalanceInv'
      /\ \A q \in Nat, r \in 0 .. K - 1 : Filled(q, r) => FilledAgain(K * q + r - m + n)
  BY NextBalanceInv
<1>5. /\ m \in 0 .. K
      /\ \A b \in Banks : /\ Reads(b, rdy) = One(rd_add_ptr[b] < m)
                          /\ rd_add_ptr[b] < m => crdt_cnt[b] > 0
  BY ReadsFirst
<1> HIDE DEF line, m
<1>6. PICK q \in Nat, r \in 0 .. K - 1 : Filled(q, r)
  BY DEF BalanceInv
<1>7. PICK u \in Nat, v \in 0 .. K - 1 : Filled(u, v)' /\ K * u + v = K * q + r - m + n
  BY <1>4, <1>6 DEF FilledAgain
<1>8. QueueShape /\ QueueShape' /\ Everywhere' /\ Rotation /\ Rotation'
  <2>1. QueueShape /\ Rotation
    BY StoredShape DEF BalanceInv
  <2>2. Rotation'
    BY <1>4 DEF BalanceInv
  <2>3. QueueShape'
    BY <1>4, StoredShape, PTL
  <2>4. Everywhere'
    BY <2>2, Place, PTL
  <2> QED BY <2>1, <2>2, <2>3, <2>4
<1>9. Held = K * q + r /\ Held' = Held - m + n /\ Held \in Nat /\ Held' \in Nat
  <2>1. Held = K * q + r /\ Held \in Nat
    BY <1>6, HeldIs
  <2>2. Held' = K * u + v /\ Held' \in Nat
    BY <1>7, <1>8 DEF QueueShape
  <2>3. m \in Int /\ n \in Int
    BY <1>1, <1>2, <1>5
  <2>4. K * q \in Int /\ K * u \in Int
    BY <1>1
  <2>5. Held' = Held - m + n
    BY <1>1, <1>7, <2>1, <2>2, <2>3, <2>4
  <2> QED BY <2>1, <2>2, <2>5
<1>10. m <= Held
  <2>1. CASE m = 0
    BY <1>9, <2>1
  <2>2. CASE m > 0
    <3> DEFINE b == rd_add_ptr_rev[m - 1]
    <3>1. m - 1 \in Banks /\ m - 1 < m
      BY <1>1, <1>5, <2>2
    <3>2. b \in Banks /\ rd_add_ptr[b] = m - 1
      BY <1>8, <3>1, RotationFacts
    <3> HIDE DEF b
    <3>3. 0 < crdt_cnt[b]
      BY <1>5, <3>1, <3>2, BalanceInv DEF BalanceInv
    <3>4. K * 0 + rd_add_ptr[b] < Held
      <4>1. 0 \in Nat
        OBVIOUS
      <4> QED BY <1>8, <3>2, <3>3, <4>1, Zenon DEF QueueShape
    <3> QED BY <1>1, <1>5, <1>9, <3>2, <3>4
  <2> QED BY <1>1, <1>5, <2>1, <2>2
<1>11. fq_rd_ptr' = (fq_rd_ptr + m) % (2 * K)
  BY <1>3 DEF NextRotation, K, m
<1>12. ASSUME NEW i \in 1 .. Held'
       PROVE  Stored'[i] = IF i + m <= Held THEN Stored[i + m] ELSE line[i + m - Held]
  <2>1. i - 1 \in Nat /\ i \in Int
    BY <1>9
  <2>2. PICK b \in Banks, a \in Nat : i - 1 = K * a + rd_add_ptr'[b]
    BY <1>8, <2>1 DEF Everywhere
  <2> DEFINE p  == rd_add_ptr[b]
             rd == Reads(b, rdy)
             k  == a + rd
             c  == crdt_cnt[b]
  <2>3. K * a + rd_add_ptr'[b] < Held' /\ K * a + rd_add_ptr'[b] + 1 = i
    BY <1>9, <2>1, <2>2
  <2>4. a < crdt_cnt'[b] /\ Stored'[i] = Entry(b, a)'
    BY <1>8, <2>3, Zenon DEF QueueShape
  <2>5. p \in 0 .. K - 1 /\ rd = One(p < m) /\ rd_add_ptr'[b] = Back(p, m)
    <3>1. rd_add_ptr'[b] = Back(p, m)
      BY <1>5, <1>8, <1>11, ReadRotates
    <3>2. p \in 0 .. K - 1
      BY <1>1, <1>8, RotationFacts
    <3> QED BY <1>5, <3>1, <3>2
  <2>6. c \in Nat /\ c = q + One(p < r) /\ wr_add_ptr[b] = Back(p, r)
    BY <1>6 DEF Filled, BalanceInv
  <2>7. BankMoves(b, line, rdy)
    BY <1>3, BankStep DEF line
  <2>8. a \in 0 .. crdt_cnt'[b] - 1 /\ k \in Nat
    <3>1. crdt_cnt'[b] \in Int /\ rd \in Nat
      <4>1. crdt_cnt' \in [Banks -> 0 .. FQ_BUF_DEPTH]
        BY <1>4 DEF BalanceInv
      <4> QED BY <2>5, <4>1 DEF One
    <3> HIDE DEF rd
    <3> QED BY <2>4, <3>1
  <2>9. /\ k < c => Entry(b, a)' = Entry(b, k)
        /\ k >= c => Entry(b, a)' = line[LineSlot(b, k - c) + 1]
    <3>1. k = a + Reads(b, rdy)
      OBVIOUS
    <3> HIDE DEF k, rd, c
    <3>2. EntryMoves(b, line, rdy, a, k)
      BY <1>3, <2>7, <2>8, <3>1, NextEntry, Zenon
    <3> QED BY <3>2 DEF c, EntryMoves
  <2>10. K * k + p + 1 = i + m /\ K * k \in Nat
    <3> HIDE DEF p
    <3>1. K * a \in Nat /\ K * (a + 1) = K * a + K /\ K * (a + 0) = K * a
      BY <1>1
    <3>2. CASE p < m
      <4>1. rd = 1 /\ Back(p, m) = p - m + K
        BY <1>1, <1>5, <2>5, <3>2 DEF One, Back
      <4>2. K * k = K * a + K
        <5> HIDE DEF rd
        <5> QED BY <3>1, <4>1
      <4> HIDE DEF k, rd
      <4> QED BY <1>1, <1>5, <2>2, <2>5, <3>1, <4>1, <4>2
    <3>3. CASE p >= m
      <4>1. rd = 0 /\ Back(p, m) = p - m
        BY <1>1, <1>5, <2>5, <3>3 DEF One, Back
      <4>2. K * k = K * a
        <5> HIDE DEF rd
        <5> QED BY <3>1, <4>1
      <4> HIDE DEF k, rd
      <4> QED BY <1>1, <1>5, <2>2, <2>5, <3>1, <4>1, <4>2
    <3> QED BY <1>1, <1>5, <2>5, <3>2, <3>3
  <2> HIDE DEF k
  <2>11. CASE k < c
    <3>1. K * k + p < Held /\ Stored[K * k + p + 1] = Entry(b, k)
      BY <1>8, <2>8, <2>11, Zenon DEF QueueShape
    <3>2. i + m <= Held
      <4> HIDE DEF p
      <4> QED BY <1>5, <1>9, <2>1, <2>5, <2>10, <3>1
    <3>3. Stored'[i] = Stored[i + m]
      BY <2>4, <2>9, <2>10, <2>11, <3>1
    <3> QED BY <3>2, <3>3
  <2>12. CASE k >= c
    <3>1. ~(K * k + p < Held)
      <4>1. ~(k < c)
        <5> HIDE DEF c
        <5> QED BY <2>6, <2>8, <2>12
      <4> QED BY <1>8, <2>8, <4>1, Zenon DEF QueueShape
    <3>2. ~(i + m <= Held)
      <4> HIDE DEF p
      <4> QED BY <1>1, <1>5, <1>9, <2>1, <2>5, <2>10, <3>1
    <3>3. LineSlot(b, k - c) + 1 = i + m - Held
      <4>1. LineSlot(b, k - c) = (k - c) * K + Back(p, r)
        BY <2>6 DEF LineSlot, K
      <4>2. K * q \in Nat /\ K * k \in Nat
        BY <1>1, <2>10
      <4>5. K * k - K * q + (p - r) + 1 = i + m - Held
        <5> HIDE DEF p
        <5> QED BY <1>1, <1>5, <1>9, <2>1, <2>5, <2>10, <4>2
      <4>3. CASE p < r
        <5>1. c = q + 1 /\ Back(p, r) = p - r + K
          <6> HIDE DEF c, p
          <6> QED BY <1>1, <2>5, <2>6, <4>3 DEF One, Back
        <5>2. (k - c) * K = K * k - K * q - K
          <6> HIDE DEF c
          <6> QED BY <1>1, <2>8, <5>1
        <5>3. LineSlot(b, k - c) = K * k - K * q + (p - r)
          <6>1. p \in Int /\ K * k \in Int /\ K * q \in Int
            BY <2>5, <4>2
          <6> HIDE DEF c, p
          <6> QED BY <1>1, <4>1, <5>1, <5>2, <6>1
        <5> QED BY <4>5, <5>3
      <4>4. CASE p >= r
        <5>1. c = q /\ Back(p, r) = p - r
          <6> HIDE DEF c, p
          <6> QED BY <1>1, <2>5, <2>6, <4>4 DEF One, Back
        <5>2. (k - c) * K = K * k - K * q
          <6> HIDE DEF c
          <6> QED BY <1>1, <2>8, <5>1
        <5>3. LineSlot(b, k - c) = K * k - K * q + (p - r)
          <6>1. p \in Int /\ K * k \in Int /\ K * q \in Int
            BY <2>5, <4>2
          <6> HIDE DEF c, p
          <6> QED BY <1>1, <4>1, <5>1, <5>2, <6>1
        <5> QED BY <4>5, <5>3
      <4> QED BY <1>1, <2>5, <4>3, <4>4
    <3> QED BY <2>4, <2>9, <2>12, <3>2, <3>3
  <2> QED BY <2>6, <2>8, <2>11, <2>12
<1>13. 1 .. Held' = 1 .. Held - m + n
  BY <1>9
<1> QED BY <1>5, <1>9, <1>10, <1>12, <1>13 DEF StoredMoves, line, m

-----------------------------------------------------------------------------
(* The elements of a set of numbers by rank.                               *)
Upto(S, n)   == {m \in S : m <= n}
BelowN(S, n) == {m \in S : m < n}
Nth(S, k)    == CHOOSE n \in S : Cardinality({m \in S : m <= n}) = k

LEMMA Ranks ==
  ASSUME NEW S \in SUBSET Int, IsFiniteSet(S), NEW n \in S
  PROVE  /\ IsFiniteSet(Upto(S, n)) /\ IsFiniteSet(BelowN(S, n))
         /\ Cardinality(Upto(S, n)) = Cardinality(BelowN(S, n)) + 1
         /\ Cardinality(BelowN(S, n)) \in 0 .. Cardinality(S) - 1
<1>1. Upto(S, n) \in SUBSET S /\ BelowN(S, n) \in SUBSET S
  BY DEF Upto, BelowN
<1>2. IsFiniteSet(Upto(S, n)) /\ IsFiniteSet(BelowN(S, n))
  BY <1>1, FS_Subset
<1>3. Upto(S, n) = BelowN(S, n) \cup {n} /\ n \notin BelowN(S, n)
  <2>1. \A m \in S : (m <= n <=> m < n \/ m = n) /\ ~(n < n)
    OBVIOUS
  <2> QED BY <2>1, Zenon DEF Upto, BelowN
<1>4. Cardinality(Upto(S, n)) = Cardinality(BelowN(S, n)) + 1
  BY <1>2, <1>3, FS_AddElement
<1>5. Cardinality(Upto(S, n)) <= Cardinality(S)
  BY <1>1, FS_Subset
<1>6. Cardinality(S) \in Nat /\ Cardinality(BelowN(S, n)) \in Nat
  BY <1>2, FS_CardinalityType
<1> QED BY <1>2, <1>4, <1>5, <1>6

LEMMA RankUnique ==
  ASSUME NEW S \in SUBSET Int, IsFiniteSet(S), NEW a \in S, NEW b \in S,
         Cardinality(BelowN(S, a)) = Cardinality(BelowN(S, b))
  PROVE  a = b
<1>1. ASSUME NEW x \in S, NEW y \in S, x < y
      PROVE  Cardinality(BelowN(S, x)) < Cardinality(BelowN(S, y))
  <2>1. Upto(S, x) \in SUBSET BelowN(S, y)
    <3>1. \A m \in S : m <= x => m < y
      BY <1>1
    <3> QED BY <3>1, Zenon DEF Upto, BelowN
  <2>2. IsFiniteSet(BelowN(S, y))
    BY Ranks
  <2>3. Cardinality(Upto(S, x)) <= Cardinality(BelowN(S, y))
    BY <2>1, <2>2, FS_Subset
  <2> QED BY <2>3, Ranks
<1>2. a \in Int /\ b \in Int
  OBVIOUS
<1>3. Cardinality(BelowN(S, a)) \in Int
  BY Ranks
<1> QED BY <1>1, <1>2, <1>3

LEMMA NthIs ==
  ASSUME NEW S \in SUBSET Int, IsFiniteSet(S), NEW n \in S, NEW k,
         Cardinality(Upto(S, n)) = k
  PROVE  Nth(S, k) = n
<1> DEFINE x == CHOOSE y \in S : Cardinality({m \in S : m <= y}) = k
<1>1. x \in S /\ Cardinality({m \in S : m <= x}) = k
  BY DEF Upto
<1> HIDE DEF x
<1>2. Cardinality(Upto(S, x)) = Cardinality(Upto(S, n))
  BY <1>1 DEF Upto
<1>3. Cardinality(BelowN(S, x)) = Cardinality(BelowN(S, n))
  <2>1. /\ Cardinality(Upto(S, x)) = Cardinality(BelowN(S, x)) + 1
        /\ Cardinality(BelowN(S, x)) \in Int
    BY <1>1, Ranks
  <2>2. /\ Cardinality(Upto(S, n)) = Cardinality(BelowN(S, n)) + 1
        /\ Cardinality(BelowN(S, n)) \in Int
    BY Ranks
  <2> QED BY <1>2, <2>1, <2>2
<1>4. x = n
  BY <1>1, <1>3, RankUnique
<1> QED BY <1>4 DEF x, Nth

LEMMA FreeIdxIs ==
  ASSUME NEW taken, LdEn(taken) \in SUBSET Int, IsFiniteSet(LdEn(taken)), NEW n \in LdEn(taken),
         NEW i, Cardinality(BelowN(LdEn(taken), n)) = i
  PROVE  FreeIdx(i, taken) = n
<1> DEFINE S == LdEn(taken)
           x == CHOOSE y \in S : Cardinality({m \in S : m < y}) = i
<1>1. x \in S /\ Cardinality({m \in S : m < x}) = i
  BY DEF BelowN
<1> HIDE DEF x
<1>2. x = n
  BY <1>1, RankUnique DEF BelowN
<1> QED BY <1>2 DEF x, FreeIdx

(* Every rank occurs.                                                      *)
LEMMA NthExists ==
  ASSUME NEW S \in SUBSET Int, IsFiniteSet(S), NEW i \in 0 .. Cardinality(S) - 1
  PROVE  \E n \in S : Cardinality(BelowN(S, n)) = i
<1> DEFINE c == Cardinality(S)
           T == 0 .. c - 1
           f == [n \in S |-> Cardinality(BelowN(S, n))]
<1>1. c \in Nat
  BY FS_CardinalityType
<1>2. IsFiniteSet(T) /\ Cardinality(T) = c
  <2> HIDE DEF c
  <2> QED BY <1>1, FS_Interval
<1>3. f \in [S -> T]
  BY Ranks
<1>4. \A a, b \in S : f[a] = f[b] => a = b
  BY RankUnique
<1>5. f \in Injection(S, T)
  <2> HIDE DEF f, T
  <2> QED BY <1>3, <1>4, Fun_IsInj
<1>6. f \in Surjection(S, T)
  <2> HIDE DEF f, T
  <2> QED BY <1>2, <1>5, FS_Injection DEF c
<1>7. \E n \in S : f[n] = i
  <2> HIDE DEF f
  <2> QED BY <1>6 DEF Surjection
<1> QED BY <1>7

(* Behind the last that leaves, ranks are positions less what left.        *)
LEMMA RankBehind ==
  ASSUME NEW l \in Nat, NEW s \in SUBSET (1 .. l), NEW n \in 1 .. l, \A x \in s : x <= n
  PROVE  /\ IsFiniteSet(s) /\ Cardinality(s) \in Nat
         /\ Cardinality(Upto((1 .. l) \ s, n)) = n - Cardinality(s)
<1>1. IsFiniteSet(1 .. l) /\ IsFiniteSet(1 .. n) /\ Cardinality(1 .. n) = n
  BY FS_Interval
<1>2. IsFiniteSet(s)
  BY <1>1, FS_Subset
<1>3. Upto((1 .. l) \ s, n) = (1 .. n) \ s /\ s \cap (1 .. n) = s
  <2>1. \A x \in 1 .. l : x <= n <=> x \in 1 .. n
    OBVIOUS
  <2>2. \A x \in 1 .. n : x \in 1 .. l
    OBVIOUS
  <2>3. \A x \in s : x \in 1 .. n
    BY <2>1
  <2>4. Upto((1 .. l) \ s, n) = (1 .. n) \ s
    BY <2>1, <2>2, Zenon DEF Upto
  <2> QED BY <2>3, <2>4
<1>4. Cardinality((1 .. n) \ s) = Cardinality(1 .. n) - Cardinality((1 .. n) \cap s)
  BY <1>1, FS_Difference
<1>5. (1 .. n) \cap s = s
  BY <1>3
<1>6. Cardinality(s) \in Nat
  BY <1>2, FS_CardinalityType
<1> QED BY <1>1, <1>2, <1>3, <1>4, <1>5, <1>6

LEMMA FirstNumbers ==
  ASSUME NEW n \in Nat
  PROVE  /\ IsFiniteSet(1 .. n) /\ Cardinality(1 .. n) = n
         /\ IsFiniteSet(0 .. n - 1) /\ Cardinality(0 .. n - 1) = n
  BY FS_Interval

LEMMA ShiftSize ==
  ASSUME NEW S \in SUBSET Int, IsFiniteSet(S), NEW T, T = {x + 1 : x \in S}
  PROVE  IsFiniteSet(T) /\ Cardinality(T) = Cardinality(S)
<1> DEFINE f == [x \in S |-> x + 1]
<1>1. f \in [S -> T] /\ (\A a, b \in S : f[a] = f[b] => a = b) /\ (\A t \in T : \E x \in S : f[x] = t)
  OBVIOUS
<1>2. f \in Bijection(S, T)
  <2> HIDE DEF f
  <2> QED BY <1>1, Fun_IsBij
<1>3. ExistsBijection(S, T)
  BY <1>2 DEF ExistsBijection
<1> QED BY <1>3, FS_Bijection

-----------------------------------------------------------------------------
(* The issue buffer.  Positions that leave, and those of the buffer and h  *)
(* instructions behind it that stay.                                       *)
Leaves(taken)   == {i + 1 : i \in Issuing(taken)}
Stays(taken, h) == (1 .. wr_ptr + h) \ Leaves(taken)

LEMMA LeaveFacts ==
  ASSUME RoomInv, NEW taken
  PROVE  /\ wr_ptr \in 0 .. BUFFER_DEPTH /\ BUFFER_DEPTH \in Nat /\ OOO_DEPTH \in Nat
         /\ IsFiniteSet(Issuing(taken))
         /\ \A i \in Issuing(taken) : i \in 0 .. wr_ptr - 1 /\ i \in Window /\ CsrMask(i)
         /\ Window = 0 .. OOO_DEPTH - 1 /\ Window \subseteq Slots
         /\ CntO(taken) \in 0 .. wr_ptr /\ Cardinality(Leaves(taken)) = CntO(taken)
         /\ Leaves(taken) \subseteq 1 .. wr_ptr
         /\ \A x \in Leaves(taken) : x <= OOO_DEPTH
<1>1. /\ BUFFER_DEPTH \in Nat /\ OOO_DEPTH \in Nat /\ wr_ptr \in 0 .. BUFFER_DEPTH
      /\ Window = 0 .. OOO_DEPTH - 1 /\ Window \subseteq Slots
  BY IssueBufferAssumption DEF RoomInv, Window, Slots
<1>2. \A i \in Issuing(taken) : i \in 0 .. wr_ptr - 1 /\ i \in Window /\ CsrMask(i)
  <2> TAKE i \in Issuing(taken)
  <2>1. i \in Window /\ v_mem_en[i] /\ CsrMask(i)
    BY DEF Issuing, MVld
  <2>2. i \in Slots /\ i \in Nat
    BY <1>1, <2>1
  <2>3. i < wr_ptr
    BY <2>1, <2>2 DEF RoomInv, RoomKept
  <2> QED BY <1>1, <2>1, <2>2, <2>3
<1>3. CntO(taken) \in 0 .. wr_ptr
  BY InOutBounds
<1>4. IsFiniteSet(Issuing(taken))
  <2>1. IsFiniteSet(0 .. wr_ptr - 1)
    BY <1>1, FS_Interval
  <2>2. Issuing(taken) \in SUBSET (0 .. wr_ptr - 1)
    BY <1>2
  <2> QED BY <2>1, <2>2, FS_Subset
<1>5. Cardinality(Leaves(taken)) = CntO(taken)
  <2>1. Issuing(taken) \in SUBSET Int
    BY <1>2
  <2> QED BY <1>4, <2>1, ShiftSize DEF Leaves, CntO
<1>6. Leaves(taken) \subseteq 1 .. wr_ptr /\ \A x \in Leaves(taken) : x <= OOO_DEPTH
  <2> SUFFICES ASSUME NEW i \in Issuing(taken) PROVE i + 1 \in 1 .. wr_ptr /\ i + 1 <= OOO_DEPTH
    BY DEF Leaves
  <2> QED BY <1>1, <1>2
<1> QED BY <1>1, <1>2, <1>3, <1>4, <1>5, <1>6, Zenon

(* Behind the window, and in the queue, nothing leaves.                    *)
LEMMA RestMoves ==
  ASSUME RoomInv, NEW taken, NEW h \in Nat, NEW k \in 1 .. wr_ptr + h - CntO(taken),
         k + CntO(taken) > OOO_DEPTH \/ k + CntO(taken) > wr_ptr
  PROVE  Nth(Stays(taken, h), k) = k + CntO(taken)
<1> DEFINE out == CntO(taken)
           l   == wr_ptr + h
           n   == k + out
           s   == Leaves(taken)
<1>1. /\ wr_ptr \in 0 .. BUFFER_DEPTH /\ BUFFER_DEPTH \in Nat /\ OOO_DEPTH \in Nat
      /\ out \in 0 .. wr_ptr /\ Cardinality(s) = out /\ s \subseteq 1 .. wr_ptr
      /\ \A x \in s : x <= OOO_DEPTH
  BY LeaveFacts, Zenon
<1> HIDE DEF out, s
<1>2. l \in Nat /\ n \in 1 .. l /\ s \in SUBSET (1 .. l) /\ k \in Int
  BY <1>1 DEF out
<1>3. \A x \in s : x < n
  BY <1>1, <1>2 DEF out
<1>4. n \notin s
  BY <1>1, <1>2, <1>3
<1> HIDE DEF l, n
<1>5. Cardinality(Upto((1 .. l) \ s, n)) = n - Cardinality(s)
  <2>1. \A x \in s : x <= n
    BY <1>1, <1>2, <1>3
  <2> QED BY <1>2, <2>1, RankBehind
<1>6. n - Cardinality(s) = k
  BY <1>1, <1>2 DEF n
<1>7. /\ (1 .. l) \ s \in SUBSET Int /\ IsFiniteSet((1 .. l) \ s) /\ n \in (1 .. l) \ s
  <2>1. IsFiniteSet(1 .. l)
    BY <1>2, FS_Interval
  <2> QED BY <1>2, <1>4, <2>1, FS_Subset
<1>8. Nth((1 .. l) \ s, k) = n
  BY <1>5, <1>6, <1>7, NthIs
<1> QED BY <1>8 DEF Stays, l, s, n, out

LEMMA StaysSize ==
  ASSUME RoomInv, NEW taken, NEW h \in Nat
  PROVE  /\ Cardinality(Stays(taken, h)) = wr_ptr + h - CntO(taken)
         /\ IsFiniteSet(Stays(taken, h)) /\ Stays(taken, h) \in SUBSET Int
<1> DEFINE l == wr_ptr + h
           s == Leaves(taken)
<1>1. wr_ptr \in 0 .. BUFFER_DEPTH /\ s \subseteq 1 .. wr_ptr /\ Cardinality(s) = CntO(taken)
  BY LeaveFacts, Zenon
<1> HIDE DEF s
<1>2. l \in Nat /\ s \subseteq 1 .. l
  <2>1. BUFFER_DEPTH \in Nat
    BY IssueBufferAssumption
  <2> QED BY <1>1, <2>1
<1>3. Stays(taken, h) = (1 .. l) \ s
  BY DEF Stays, l, s
<1> HIDE DEF l
<1>4. IsFiniteSet(1 .. l) /\ Cardinality(1 .. l) = l
  BY <1>2, FirstNumbers
<1>5. (1 .. l) \cap s = s
  BY <1>2
<1>6. IsFiniteSet((1 .. l) \ s) /\ Cardinality((1 .. l) \ s) = l - Cardinality(s)
  <2>1. /\ IsFiniteSet((1 .. l) \ s)
        /\ Cardinality((1 .. l) \ s) = Cardinality(1 .. l) - Cardinality((1 .. l) \cap s)
    BY <1>4, FS_Difference
  <2> QED BY <1>4, <1>5, <2>1, Zenon
<1>7. (1 .. l) \ s \in SUBSET Int
  OBVIOUS
<1>8. l - Cardinality(s) = wr_ptr + h - CntO(taken)
  <2>1. Cardinality(s) \in Int
    BY <1>1, InOutBounds
  <2> QED BY <1>1, <2>1 DEF l
<1> QED BY <1>3, <1>6, <1>7, <1>8, Zenon

(* What the buffer puts into slot i, below those that stay.                *)
Compacted(i, taken) ==
  IF i \in Window THEN v_mem_pld[FreeIdx(i, taken)]
                  ELSE v_mem_pld[(i + CntO(taken)) % BUFFER_DEPTH]

LEMMA Compaction ==
  ASSUME RoomInv, NEW taken, NEW h \in Nat, NEW i \in 0 .. wr_ptr - CntO(taken) - 1
  PROVE  LET x == Nth(Stays(taken, h), i + 1)
         IN  x \in 1 .. wr_ptr /\ Compacted(i, taken) = v_mem_pld[x - 1]
<1> DEFINE out == CntO(taken)
           I   == Issuing(taken)
           T   == (0 .. wr_ptr - 1) \ I
           E   == LdEn(taken)
           S   == Stays(taken, h)
<1>1. /\ wr_ptr \in 0 .. BUFFER_DEPTH /\ BUFFER_DEPTH \in Nat /\ OOO_DEPTH \in Nat
      /\ out \in 0 .. wr_ptr /\ IsFiniteSet(I)
      /\ \A j \in I : j \in 0 .. wr_ptr - 1
      /\ Window = 0 .. OOO_DEPTH - 1 /\ Window \subseteq Slots
  BY LeaveFacts, Zenon
<1>2. CASE i \notin Window
  <2> DEFINE x == i + 1 + out
  <2>1. /\ i \in Nat /\ i + 1 \in 1 .. wr_ptr + h - out /\ x > OOO_DEPTH /\ x \in 1 .. wr_ptr
        /\ i + out \in 0 .. BUFFER_DEPTH - 1 /\ x - 1 = i + out
    <3> HIDE DEF out
    <3> QED BY <1>1, <1>2 DEF out
  <2>2. Nth(S, i + 1) = x
    BY <2>1, RestMoves
  <2>3. (i + out) % BUFFER_DEPTH = i + out
    <3> DEFINE y == i + out
    <3>1. y \in 0 .. BUFFER_DEPTH - 1 /\ BUFFER_DEPTH \in Nat \ {0} /\ y = BUFFER_DEPTH * 0 + y
          /\ y \in Int
      BY <1>1, <2>1
    <3> HIDE DEF y
    <3>2. y % BUFFER_DEPTH = y
      BY <3>1, ModValue
    <3> QED BY <3>2 DEF y
  <2>4. Compacted(i, taken) = v_mem_pld[i + out]
    BY <1>2, <2>3 DEF Compacted
  <2> HIDE DEF x, S
  <2>5. x \in 1 .. wr_ptr /\ Compacted(i, taken) = v_mem_pld[x - 1]
    BY <2>1, <2>4
  <2> QED BY <2>2, <2>5 DEF S
<1>3. CASE i \in Window
  <2>1. IsFiniteSet(T) /\ T \in SUBSET Int /\ Cardinality(T) = wr_ptr - out
    <3>1. IsFiniteSet(0 .. wr_ptr - 1) /\ Cardinality(0 .. wr_ptr - 1) = wr_ptr
      <4>1. wr_ptr \in Nat
        BY <1>1
      <4> QED BY <4>1, FirstNumbers
    <3>2. (0 .. wr_ptr - 1) \cap I = I
      BY <1>1
    <3>3. Cardinality(T) = Cardinality(0 .. wr_ptr - 1) - Cardinality((0 .. wr_ptr - 1) \cap I)
          /\ IsFiniteSet(T)
      BY <3>1, FS_Difference
    <3>4. T \in SUBSET Int
      OBVIOUS
    <3>5. Cardinality(T) = wr_ptr - out
      BY <3>1, <3>2, <3>3, Zenon DEF CntO
    <3> QED BY <3>3, <3>4, <3>5, Zenon
  <2>2. PICK n \in T : Cardinality(BelowN(T, n)) = i
    <3>1. i \in 0 .. Cardinality(T) - 1
      BY <2>1
    <3> HIDE DEF T
    <3> QED BY <2>1, <3>1, NthExists
  <2>3. n \in 0 .. wr_ptr - 1 /\ n \notin I
    OBVIOUS
  <2>4. \A j \in 0 .. wr_ptr - 1 : j \in E <=> j \in T
    <3> TAKE j \in 0 .. wr_ptr - 1
    <3>1. j \in Slots
      BY <1>1 DEF Slots
    <3>2. v_mem_en[j]
      BY <1>1, <3>1 DEF RoomInv, RoomKept
    <3>3. j \in I => j \in Window
      BY DEF Issuing, MVld
    <3> QED BY <3>1, <3>2, <3>3 DEF LdEn
  <2>5. E \in SUBSET Int /\ IsFiniteSet(E)
    <3>1. E \in SUBSET Slots
      BY DEF LdEn
    <3>2. IsFiniteSet(Slots) /\ Slots \subseteq Int
      BY <1>1, FS_Interval DEF Slots
    <3> HIDE DEF E
    <3> QED BY <3>1, <3>2, FS_Subset
  <2>6. BelowN(E, n) = BelowN(T, n)
    <3>1. \A j \in E : j < n => j \in 0 .. wr_ptr - 1
      <4>1. \A j \in E : j \in Nat
        BY DEF LdEn, Slots
      <4> QED BY <1>1, <2>3, <4>1
    <3>2. \A j \in T : j \in 0 .. wr_ptr - 1
      OBVIOUS
    <3> HIDE DEF E, T
    <3> QED BY <2>4, <3>1, <3>2, Zenon DEF BelowN
  <2>7. FreeIdx(i, taken) = n
    <3>1. n \in E
      BY <2>2, <2>3, <2>4
    <3> HIDE DEF T
    <3> QED BY <2>2, <2>5, <2>6, <3>1, FreeIdxIs
  <2>8. Cardinality(Upto(T, n)) = i + 1 /\ IsFiniteSet(Upto(T, n)) /\ Upto(T, n) \in SUBSET Int
    <3> HIDE DEF T
    <3>1. Upto(T, n) \subseteq Int
      BY <2>1 DEF Upto
    <3> QED BY <2>1, <2>2, <3>1, Ranks
  <2>9. Upto(S, n + 1) = {x + 1 : x \in Upto(T, n)}
    <3>1. \A y \in S : y <= n + 1 => y - 1 \in Upto(T, n)
      <4> TAKE y \in S
      <4> HAVE y <= n + 1
      <4>1. y \in 1 .. wr_ptr + h /\ y \notin Leaves(taken)
        BY DEF Stays
      <4>2. y - 1 \in 0 .. wr_ptr - 1 /\ y - 1 <= n /\ (y - 1) + 1 = y
        BY <1>1, <2>3, <4>1
      <4>3. y - 1 \notin I
        BY <4>1, <4>2 DEF Leaves
      <4> QED BY <4>2, <4>3 DEF Upto
    <3>2. \A x \in Upto(T, n) : x + 1 \in S /\ x + 1 <= n + 1
      <4> TAKE x \in Upto(T, n)
      <4>1. x \in 0 .. wr_ptr - 1 /\ x \notin I /\ x <= n
        BY DEF Upto
      <4>2. x + 1 \in 1 .. wr_ptr + h /\ x + 1 <= n + 1
        BY <1>1, <2>3, <4>1
      <4>3. x + 1 \notin Leaves(taken)
        <5>1. \A j \in I : j + 1 = x + 1 => j = x
          BY <1>1, <4>1
        <5> QED BY <4>1, <5>1 DEF Leaves
      <4> QED BY <4>2, <4>3 DEF Stays
    <3>3. \A y \in S : y \in Int /\ (y - 1) + 1 = y
      BY <1>1 DEF Stays
    <3>4. \A y \in Upto(S, n + 1) : y \in S /\ y <= n + 1
      BY DEF Upto
    <3>5. \A y : y \in S /\ y <= n + 1 => y \in Upto(S, n + 1)
      BY DEF Upto
    <3> HIDE DEF S, T
    <3> QED BY <3>1, <3>2, <3>3, <3>4, <3>5
  <2>10. Cardinality(Upto(S, n + 1)) = i + 1
    <3> HIDE DEF S, T
    <3> QED BY <2>8, <2>9, ShiftSize
  <2>11. n + 1 \in S /\ n + 1 \in 1 .. wr_ptr
    <3>1. n + 1 \in 1 .. wr_ptr + h /\ n + 1 \in 1 .. wr_ptr
      BY <1>1, <2>3
    <3>2. n + 1 \notin Leaves(taken)
      <4>1. \A j \in I : j + 1 = n + 1 => j = n
        BY <1>1, <2>3
      <4> QED BY <2>3, <4>1 DEF Leaves
    <3> QED BY <3>1, <3>2 DEF Stays
  <2>12. S \in SUBSET Int /\ IsFiniteSet(S)
    BY StaysSize, Zenon
  <2>13. Nth(S, i + 1) = n + 1
    <3> HIDE DEF S
    <3> QED BY <2>10, <2>11, <2>12, NthIs
  <2>14. Compacted(i, taken) = v_mem_pld[n] /\ (n + 1) - 1 = n
    BY <1>3, <2>3, <2>7 DEF Compacted
  <2> QED BY <2>11, <2>13, <2>14
<1> QED BY <1>2, <1>3


-----------------------------------------------------------------------------
(* What the dispatch channels that are read see is what the queue holds    *)
(* first.                                                                  *)
LEMMA ReadHeads ==
  ASSUME BalanceInv, BankInv, NEW credit \in BOOLEAN, NEW rdy,
         rdy = IF credit THEN {c \in Channels : v_s_rdy[c]} ELSE {},
         NEW j \in 0 .. ReadNum(rdy) - 1
  PROVE  j \in Channels /\ AckPld(j) = Stored[j + 1] /\ AckPld(j) \in Inst
<1> DEFINE b == rd_add_ptr_rev[j]
<1>1. K \in Nat \ {0} /\ Channels = Banks /\ Banks = 0 .. K - 1
  BY Widths
<1>2. /\ ReadNum(rdy) \in 0 .. K
      /\ \A d \in Banks : rd_add_ptr[d] < ReadNum(rdy) => crdt_cnt[d] > 0
  BY ReadsFirst
<1>3. j \in Banks /\ j \in Nat
  BY <1>1, <1>2
<1>4. b \in Banks /\ rd_add_ptr[b] = j
  BY <1>3, RotationFacts DEF BalanceInv
<1>5. QueueShape
  BY StoredShape
<1>6. crdt_cnt[b] > 0 /\ buf_rd_ptr[b] \in Int
  <2>1. j < ReadNum(rdy)
    BY <1>2
  <2>2. crdt_cnt[b] > 0
    <3> HIDE DEF b
    <3> QED BY <1>2, <1>4, <2>1
  <2>3. buf_rd_ptr[b] \in BankPtrs
    BY <1>4 DEF BankInv
  <2>4. \A x \in BankPtrs : x \in Int
    BY DEF BankPtrs
  <2> QED BY <2>2, <2>3, <2>4
<1> HIDE DEF b
<1>7. Stored[K * 0 + rd_add_ptr[b] + 1] = Entry(b, 0)
  BY <1>4, <1>5, <1>6 DEF QueueShape
<1>8. K * 0 + rd_add_ptr[b] + 1 = j + 1
  BY <1>1, <1>3, <1>4
<1>9. Entry(b, 0) = FqHead(b)
  <2>1. buf_rd_ptr[b] + 0 = buf_rd_ptr[b]
    BY <1>6
  <2> QED BY <2>1 DEF Entry, FqHead
<1>10. AckPld(j) = FqHead(b)
  BY DEF AckPld, b
<1>11. Entry(b, 0) \in Inst
  <2>1. crdt_cnt[b] \in Int
    BY <1>4 DEF BalanceInv
  <2>2. 0 \in 0 .. crdt_cnt[b] - 1
    BY <1>6, <2>1
  <2> QED BY <1>4, <2>2 DEF BankInv
<1> QED BY <1>1, <1>3, <1>7, <1>8, <1>9, <1>10, <1>11

(* A cycle of the buffer, with or without a cancel: what stays moves up,   *)
(* and what the queue gives comes behind it.                               *)
SlotsMove(taken, m) ==
  LET w == wr_ptr - CntO(taken)
  IN  \A i \in Slots :
        v_mem_pld'[i] = IF i < w THEN Compacted(i, taken)
                        ELSE IF i < w + m THEN Stored[i - w + 1]
                        ELSE v_mem_pld[i]

LEMMA NextSlots ==
  ASSUME BalanceInv, BankInv, NEW n \in LINES, NEW credit \in BOOLEAN,
         NEW taken \in SUBSET MVld, NEW edge \in BOOLEAN, Clock(Line(n), credit, taken, edge),
         NEW rdy, rdy = IF credit THEN {c \in Channels : v_s_rdy[c]} ELSE {},
         NEW vld, vld = IF credit THEN AckVld ELSE {}
  PROVE  /\ CntI(vld) = ReadNum(rdy)
         /\ SlotsMove(taken, ReadNum(rdy))
         /\ v_mem_pld \in [Slots -> Inst] => v_mem_pld' \in [Slots -> Inst]
<1> DEFINE pld == [c \in Channels |-> AckPld(c)]
           m   == ReadNum(rdy)
           w   == WrPtrNew(taken)
<1>1. K \in Nat \ {0} /\ S_CHANNEL = K /\ Channels = Banks /\ Banks = 0 .. K - 1
  BY Widths
<1>2. CntI(vld) = m
  <2>1. {c \in vld : v_s_rdy[c]} = AckVld \cap rdy
    BY <1>1 DEF AckVld
  <2> QED BY <2>1, Zenon DEF CntI, ReadNum
<1>3. NextMemPld(taken, vld, pld)
  BY DEF Clock, NextIssueBuffer
<1> HIDE DEF m, pld
<1>4. m \in 0 .. K
  BY ReadsFirst DEF m
<1>5. wr_ptr \in 0 .. BUFFER_DEPTH /\ BUFFER_DEPTH \in Nat /\ CntO(taken) \in 0 .. wr_ptr
  BY LeaveFacts, Zenon DEF BalanceInv
<1>6. w = wr_ptr - CntO(taken) /\ w \in Nat /\ WrPtrNxt(taken, vld) = w + m
  BY <1>2, <1>4, <1>5 DEF WrPtrNew, WrPtrNxt
<1>7. v_mem_pld' = [i \in Slots |->
        IF i < w THEN Compacted(i, taken)
        ELSE IF i < w + m THEN pld[(i - w) % S_CHANNEL]
        ELSE v_mem_pld[i]]
  BY <1>3, <1>6, Zenon DEF NextMemPld, Compacted
<1> HIDE DEF w
<1>8. ASSUME NEW i \in Slots, ~(i < w), i < w + m
      PROVE  pld[(i - w) % S_CHANNEL] = Stored[i - w + 1] /\ Stored[i - w + 1] \in Inst
  <2> DEFINE j == i - w
  <2>1. j \in 0 .. m - 1 /\ j \in 0 .. K - 1 /\ j \in Int /\ j = K * 0 + j
    BY <1>1, <1>4, <1>6, <1>8 DEF Slots
  <2> HIDE DEF j
  <2>2. j % S_CHANNEL = j
    <3>1. j % K = j
      BY <1>1, <2>1, ModValue
    <3> QED BY <1>1, <3>1
  <2>3. j \in Channels /\ AckPld(j) = Stored[j + 1] /\ AckPld(j) \in Inst
    BY <2>1, ReadHeads DEF m
  <2>4. pld[j % S_CHANNEL] = Stored[j + 1] /\ Stored[j + 1] \in Inst
    BY <2>2, <2>3 DEF pld
  <2> QED BY <2>4 DEF j
<1>9. SlotsMove(taken, m)
  <2> SUFFICES ASSUME NEW i \in Slots
               PROVE  v_mem_pld'[i] = IF i < w THEN Compacted(i, taken)
                                      ELSE IF i < w + m THEN Stored[i - w + 1]
                                      ELSE v_mem_pld[i]
    BY <1>6, Zenon DEF SlotsMove
  <2> QED BY <1>7, <1>8, Zenon
<1>10. ASSUME v_mem_pld \in [Slots -> Inst] PROVE v_mem_pld' \in [Slots -> Inst]
  <2> SUFFICES ASSUME NEW i \in Slots
               PROVE  (IF i < w THEN Compacted(i, taken)
                       ELSE IF i < w + m THEN pld[(i - w) % S_CHANNEL]
                       ELSE v_mem_pld[i]) \in Inst
    BY <1>7
  <2>1. ASSUME i < w PROVE Compacted(i, taken) \in Inst
    <3>1. i \in 0 .. wr_ptr - CntO(taken) - 1
      BY <1>6, <2>1 DEF Slots
    <3>2. 0 \in Nat
      OBVIOUS
    <3>3. LET x == Nth(Stays(taken, 0), i + 1)
          IN  x \in 1 .. wr_ptr /\ Compacted(i, taken) = v_mem_pld[x - 1]
      BY <3>1, <3>2, Compaction DEF BalanceInv
    <3>4. PICK x \in 1 .. wr_ptr : Compacted(i, taken) = v_mem_pld[x - 1]
      BY <3>3
    <3>5. x - 1 \in Slots
      BY <1>5 DEF Slots
    <3> QED BY <1>10, <3>4, <3>5
  <2>2. v_mem_pld[i] \in Inst
    BY <1>10
  <2> QED BY <1>8, <2>1, <2>2, Zenon
<1> QED BY <1>2, <1>9, <1>10, Zenon DEF m

(* Without a cancel, as far as the slots are in use.                       *)
BufferMoves(taken, m) ==
  /\ wr_ptr' = wr_ptr - CntO(taken) + m
  /\ \A i \in 0 .. wr_ptr - CntO(taken) - 1 : v_mem_pld'[i] = Compacted(i, taken)
  /\ \A j \in 0 .. m - 1 : v_mem_pld'[wr_ptr - CntO(taken) + j] = Stored[j + 1]

LEMMA NextBuffered ==
  ASSUME BalanceInv, RoomInv', BankInv, NEW n \in LINES, NEW credit \in BOOLEAN,
         NEW taken \in SUBSET MVld, Clock(Line(n), credit, taken, FALSE),
         NEW rdy, rdy = IF credit THEN {c \in Channels : v_s_rdy[c]} ELSE {}
  PROVE  BufferMoves(taken, ReadNum(rdy))
<1> DEFINE vld == IF credit THEN AckVld ELSE {}
           m   == ReadNum(rdy)
           w   == wr_ptr - CntO(taken)
<1>1. CntI(vld) = m /\ SlotsMove(taken, m)
  <2>1. FALSE \in BOOLEAN
    OBVIOUS
  <2> QED BY <2>1, NextSlots, Zenon
<1>2. NextMemEn(taken, vld, FALSE)
  BY DEF Clock, NextIssueBuffer
<1> HIDE DEF vld, m
<1>3. m \in Nat
  BY Widths, ReadsFirst DEF m
<1>4. wr_ptr \in 0 .. BUFFER_DEPTH /\ BUFFER_DEPTH \in Nat /\ CntO(taken) \in 0 .. wr_ptr
  BY LeaveFacts, Zenon DEF BalanceInv
<1>5. wr_ptr' = wr_ptr - CntO(taken) + m
  BY <1>1, <1>2 DEF NextMemEn, WrPtrNxt
<1>6. wr_ptr' \in 0 .. BUFFER_DEPTH
  <2>1. BUFFER_DEPTH' = BUFFER_DEPTH
    OBVIOUS
  <2> QED BY <2>1 DEF RoomInv
<1>7. w \in Nat /\ w + m \in 0 .. BUFFER_DEPTH
  BY <1>4, <1>5, <1>6
<1>8. \A i \in Slots : v_mem_pld'[i] = IF i < w THEN Compacted(i, taken)
                                       ELSE IF i < w + m THEN Stored[i - w + 1]
                                       ELSE v_mem_pld[i]
  BY <1>1, Zenon DEF SlotsMove
<1> HIDE DEF w
<1>9. ASSUME NEW i \in 0 .. w - 1 PROVE v_mem_pld'[i] = Compacted(i, taken)
  <2>1. i \in Slots /\ i < w
    BY <1>3, <1>4, <1>7 DEF Slots
  <2> QED BY <1>8, <2>1, Zenon
<1>10. ASSUME NEW j \in 0 .. m - 1 PROVE v_mem_pld'[w + j] = Stored[j + 1]
  <2> DEFINE i == w + j
  <2>1. i \in Slots /\ ~(i < w) /\ i < w + m /\ i - w = j
    <3>1. j \in Nat /\ j < m
      BY <1>3
    <3> QED BY <1>3, <1>4, <1>7, <3>1 DEF Slots
  <2> HIDE DEF i
  <2>2. v_mem_pld'[i] = Stored[i - w + 1]
    BY <1>8, <2>1, Zenon
  <2>3. i - w + 1 = j + 1
    BY <2>1
  <2> QED BY <2>2, <2>3 DEF i
<1> QED BY <1>5, <1>9, <1>10, Zenon DEF BufferMoves, w, m

-----------------------------------------------------------------------------
(* The sequence of the abstract specification, and its positions.          *)
StreamInv ==
  /\ BalanceInv /\ BankInv
  /\ v_mem_pld \in [Slots -> Inst] /\ fetched \in Inst
  /\ fq_wr_ptr \in 0 .. 2 * K - 1 /\ fq_rd_ptr \in 0 .. 2 * K - 1
  /\ wr_add_ptr \in [Banks -> Banks] /\ rd_add_ptr \in [Banks -> Banks]
  /\ rd_add_ptr_rev \in [Banks -> Banks]

Todo == Buffered \o Stored

TodoShape ==
  /\ wr_ptr \in Nat /\ Held \in Nat
  /\ Todo \in Seq(Inst) /\ Len(Todo) = wr_ptr + Held
  /\ \A x \in 1 .. wr_ptr + Held :
       Todo[x] = IF x <= wr_ptr THEN v_mem_pld[x - 1] ELSE Stored[x - wr_ptr]

LEMMA TodoIs == StreamInv => TodoShape
<1> SUFFICES ASSUME StreamInv PROVE TodoShape
  OBVIOUS
<1>1. BalanceInv /\ BankInv /\ v_mem_pld \in [Slots -> Inst]
  BY DEF StreamInv
<1>2. wr_ptr \in 0 .. BUFFER_DEPTH /\ BUFFER_DEPTH \in Nat
  BY <1>1, IssueBufferAssumption DEF BalanceInv, RoomInv
<1>3. Stored \in Seq(Inst) /\ Len(Stored) = Held /\ Held \in Nat
  BY <1>1, StoredSeq
<1>4. Buffered \in Seq(Inst) /\ Len(Buffered) = wr_ptr
      /\ \A x \in 1 .. wr_ptr : Buffered[x] = v_mem_pld[x - 1]
  <2>1. \A x \in 1 .. wr_ptr : v_mem_pld[x - 1] \in Inst
    <3> TAKE x \in 1 .. wr_ptr
    <3>1. x - 1 \in Slots
      BY <1>2 DEF Slots
    <3> QED BY <1>1, <3>1
  <2> QED BY <1>2, <2>1 DEF Buffered
<1>5. /\ Todo \in Seq(Inst) /\ Len(Todo) = Len(Buffered) + Len(Stored)
      /\ \A x \in 1 .. Len(Buffered) + Len(Stored) :
           Todo[x] = IF x <= Len(Buffered) THEN Buffered[x] ELSE Stored[x - Len(Buffered)]
  BY <1>3, <1>4, ConcatProperties DEF Todo
<1>6. ASSUME NEW x \in 1 .. wr_ptr + Held
      PROVE  Todo[x] = IF x <= wr_ptr THEN v_mem_pld[x - 1] ELSE Stored[x - wr_ptr]
  <2>1. x <= wr_ptr => Buffered[x] = v_mem_pld[x - 1]
    <3>1. x <= wr_ptr => x \in 1 .. wr_ptr
      BY <1>2, <1>3
    <3> QED BY <1>4, <3>1
  <2> QED BY <1>3, <1>4, <1>5, <2>1
<1> QED BY <1>2, <1>3, <1>4, <1>5, <1>6 DEF TodoShape

(* A cycle removes what issues and puts the line behind the rest.          *)
TodoMoves(n, taken) ==
  /\ CntO(taken) \in 0 .. wr_ptr
  /\ Len(Todo') = Len(Todo) - CntO(taken) + n
  /\ \A k \in 1 .. Len(Todo) - CntO(taken) : Todo'[k] = Todo[Nth(Stays(taken, Held), k)]

LEMMA NextTodo ==
  ASSUME StreamInv, StreamInv', NEW n \in Nat, NEW m, NEW rdy, m = ReadNum(rdy), NEW taken,
         StoredMoves(n, rdy), BufferMoves(taken, m)
  PROVE  TodoMoves(n, taken)
<1> DEFINE out == CntO(taken)
           w   == wr_ptr
           h   == Held
           S   == Stays(taken, Held)
<1>1. TodoShape /\ TodoShape' /\ RoomInv
  BY TodoIs, PTL DEF StreamInv, BalanceInv
<1>2. /\ m \in Nat /\ m <= h /\ h \in Nat /\ Held' = h - m + n
      /\ \A i \in 1 .. h - m + n : i + m <= h => Stored'[i] = Stored[i + m]
  BY Widths DEF StoredMoves
<1>3. out \in 0 .. w /\ w \in Nat
  BY <1>1, LeaveFacts DEF TodoShape
<1>4. /\ wr_ptr' = w - out + m
      /\ \A i \in 0 .. w - out - 1 : v_mem_pld'[i] = Compacted(i, taken)
      /\ \A j \in 0 .. m - 1 : v_mem_pld'[w - out + j] = Stored[j + 1]
  BY DEF BufferMoves
<1>5. /\ Len(Todo) = w + h
      /\ \A x \in 1 .. w + h : Todo[x] = IF x <= w THEN v_mem_pld[x - 1] ELSE Stored[x - w]
  BY <1>1 DEF TodoShape
<1>6. /\ Len(Todo') = wr_ptr' + Held'
      /\ \A x \in 1 .. wr_ptr' + Held' :
           Todo'[x] = IF x <= wr_ptr' THEN v_mem_pld'[x - 1] ELSE Stored'[x - wr_ptr']
  BY <1>1 DEF TodoShape
<1> HIDE DEF out, w, h, S
<1>7. wr_ptr' + Held' = w + h - out + n
  BY <1>2, <1>3, <1>4
<1>8. ASSUME NEW k \in 1 .. w + h - out, k <= w - out
      PROVE  Todo'[k] = Todo[Nth(S, k)]
  <2>1. k - 1 \in 0 .. w - out - 1 /\ k <= wr_ptr' /\ k \in 1 .. wr_ptr' + Held' /\ (k - 1) + 1 = k
    BY <1>2, <1>3, <1>4, <1>7, <1>8
  <2>2. Todo'[k] = v_mem_pld'[k - 1]
    BY <1>6, <2>1
  <2>3. v_mem_pld'[k - 1] = Compacted(k - 1, taken)
    BY <1>4, <2>1
  <2>4. Nth(S, k) \in 1 .. w /\ Compacted(k - 1, taken) = v_mem_pld[Nth(S, k) - 1]
    <3>1. Held \in Nat /\ k - 1 \in 0 .. wr_ptr - CntO(taken) - 1
      BY <1>2, <2>1 DEF h, w, out
    <3>2. LET x == Nth(Stays(taken, Held), (k - 1) + 1)
          IN  x \in 1 .. wr_ptr /\ Compacted(k - 1, taken) = v_mem_pld[x - 1]
      BY <1>1, <3>1, Compaction
    <3> QED BY <2>1, <3>2 DEF S, w
  <2>5. Nth(S, k) \in 1 .. w + h /\ Nth(S, k) <= w
    BY <1>2, <1>3, <2>4
  <2>6. Todo[Nth(S, k)] = v_mem_pld[Nth(S, k) - 1]
    BY <1>5, <2>5
  <2> QED BY <2>2, <2>3, <2>4, <2>6
<1>9. ASSUME NEW k \in 1 .. w + h - out, k > w - out
      PROVE  Todo'[k] = Todo[Nth(S, k)]
  <2>1. Nth(S, k) = k + out
    <3>1. Held \in Nat /\ k \in 1 .. wr_ptr + Held - CntO(taken) /\ k + CntO(taken) > wr_ptr
      BY <1>2, <1>3, <1>9 DEF h, w, out
    <3> QED BY <1>1, <3>1, RestMoves DEF S, out
  <2>2. Todo[k + out] = Stored[k + out - w]
    <3> DEFINE x == k + out
    <3>1. x \in 1 .. w + h /\ ~(x <= w) /\ x - w = k + out - w
      BY <1>2, <1>3, <1>9
    <3> HIDE DEF x
    <3>2. Todo[x] = Stored[x - w]
      BY <1>5, <3>1, Zenon
    <3> QED BY <3>1, <3>2 DEF x
  <2>3. k \in 1 .. wr_ptr' + Held'
    BY <1>2, <1>3, <1>7
  <2>4. CASE k <= w - out + m
    <3> DEFINE j == k - 1 - (w - out)
    <3>1. j \in 0 .. m - 1 /\ w - out + j = k - 1 /\ j + 1 = k + out - w
      BY <1>2, <1>3, <1>9, <2>4
    <3> HIDE DEF j
    <3>2. Todo'[k] = v_mem_pld'[k - 1]
      BY <1>4, <1>6, <2>3, <2>4
    <3>3. v_mem_pld'[w - out + j] = Stored[j + 1]
      BY <1>4, <3>1
    <3> QED BY <2>1, <2>2, <3>1, <3>2, <3>3
  <2>5. CASE k > w - out + m
    <3> DEFINE i == k - wr_ptr'
    <3>1. i \in 1 .. h - m + n /\ i + m <= h /\ i + m = k + out - w /\ ~(k <= wr_ptr')
      BY <1>2, <1>3, <1>4, <2>5
    <3> HIDE DEF i
    <3>2. Todo'[k] = Stored'[i]
      BY <1>6, <2>3, <3>1 DEF i
    <3>3. Stored'[i] = Stored[i + m]
      BY <1>2, <3>1
    <3> QED BY <2>1, <2>2, <3>1, <3>2, <3>3
  <2> QED BY <1>2, <1>3, <2>4, <2>5
<1>10. \A k \in 1 .. w + h - out : Todo'[k] = Todo[Nth(S, k)]
  BY <1>2, <1>3, <1>8, <1>9
<1>11. Len(Todo') = Len(Todo) - out + n /\ Len(Todo) - out = w + h - out
  BY <1>2, <1>3, <1>5, <1>6, <1>7
<1> QED BY <1>3, <1>10, <1>11, Zenon DEF TodoMoves, out, S, w


(* What the abstract specification allows to leave is what may issue here. *)
LEMMA LeavesMayIssue ==
  ASSUME StreamInv, NEW taken
  PROVE  Stream!MayIssue(Leaves(taken)) /\ Leaves(taken) \in SUBSET (1 .. OOO_DEPTH)
<1> DEFINE s == Leaves(taken)
<1>1. TodoShape /\ RoomInv
  BY TodoIs DEF StreamInv, BalanceInv
<1>2. /\ wr_ptr \in Nat /\ Held \in Nat /\ DOMAIN Todo = 1 .. wr_ptr + Held
      /\ \A x \in 1 .. wr_ptr + Held :
           Todo[x] = IF x <= wr_ptr THEN v_mem_pld[x - 1] ELSE Stored[x - wr_ptr]
  BY <1>1 DEF TodoShape
<1>3. /\ \A i \in Issuing(taken) : i \in 0 .. wr_ptr - 1 /\ CsrMask(i)
      /\ Leaves(taken) \subseteq 1 .. wr_ptr /\ \A x \in Leaves(taken) : x <= OOO_DEPTH
      /\ OOO_DEPTH \in Nat
  BY <1>1, LeaveFacts, Zenon
<1>4. s \subseteq DOMAIN Todo
  BY <1>2, <1>3
<1>5. s \in SUBSET (1 .. OOO_DEPTH)
  BY <1>2, <1>3
<1>6. ASSUME NEW n \in s, NEW m \in 1 .. n, Csr(Todo[m])
      PROVE  m = 1 /\ s = {1}
  <2>1. PICK i \in Issuing(taken) : n = i + 1
    BY DEF Leaves
  <2>2. i \in 0 .. wr_ptr - 1 /\ CsrMask(i)
    BY <1>3
  <2>3. m \in 1 .. wr_ptr + Held /\ m <= wr_ptr /\ m - 1 \in 0 .. i
    BY <1>2, <2>1, <2>2
  <2>4. Csr(v_mem_pld[m - 1])
    <3>1. Todo[m] = v_mem_pld[m - 1]
      BY <1>2, <2>3, Zenon
    <3> QED BY <1>6, <3>1, Zenon
  <2>5. m - 1 = 0
    <3>1. \A k \in 1 .. i : ~Csr(v_mem_pld[k])
      BY <2>2 DEF CsrMask
    <3>2. m - 1 \notin 1 .. i
      BY <2>4, <3>1, Zenon
    <3> QED BY <2>2, <2>3, <3>2
  <2>6. Csr(v_mem_pld[0])
    BY <2>4, <2>5, Zenon
  <2>7. \A j \in Issuing(taken) : j = 0
    BY <1>3, <2>6, Zenon DEF CsrMask
  <2>8. Leaves(taken) = {1}
    <3>1. \A x \in Leaves(taken) : x = 1
      <4>1. \A j \in Issuing(taken) : j + 1 = 1
        BY <2>7
      <4> QED BY <4>1, Zenon DEF Leaves
    <3> QED BY <3>1
  <2> QED BY <2>3, <2>5, <2>8
<1>7. Stream!MayIssue(s)
  BY <1>4, <1>6, Zenon DEF Stream!MayIssue, Todo
<1> QED BY <1>5, <1>7

LEMMA StreamFlows ==
  ASSUME StreamInv, StreamInv', NEW n \in Nat, NEW taken, TodoMoves(n, taken)
  PROVE  Stream!Next
<1> DEFINE s    == Leaves(taken)
           S    == Stays(taken, Held)
           rest == Stream!Without(s)
           r    == Len(Todo) - CntO(taken)
<1>1. TodoShape /\ TodoShape' /\ RoomInv
  BY TodoIs, PTL DEF StreamInv, BalanceInv
<1>2. /\ CntO(taken) \in 0 .. wr_ptr /\ Len(Todo') = r + n
      /\ \A k \in 1 .. r : Todo'[k] = Todo[Nth(S, k)]
  <2>1. Len(Todo) \in Int /\ CntO(taken) \in Int
    BY <1>1 DEF TodoShape, TodoMoves
  <2> QED BY <2>1 DEF TodoMoves
<1>3. /\ wr_ptr \in Nat /\ Held \in Nat /\ Len(Todo) = wr_ptr + Held
      /\ DOMAIN Todo = 1 .. wr_ptr + Held /\ Todo' \in Seq(Inst)
  BY <1>1 DEF TodoShape
<1>4. r \in Nat /\ Cardinality(S) = r /\ S = DOMAIN Todo \ s
  <2>1. Cardinality(S) = wr_ptr + Held - CntO(taken)
    BY <1>1, <1>3, StaysSize, Zenon
  <2>2. S = DOMAIN Todo \ s
    BY <1>3, Zenon DEF Stays
  <2> QED BY <1>2, <1>3, <2>1, <2>2
<1>5. rest = [k \in 1 .. r |-> Todo[Nth(S, k)]]
  <2>1. rest = [k \in 1 .. Cardinality(DOMAIN Todo \ s) |->
                 Todo[Nth(DOMAIN Todo \ s, k)]]
    BY Zenon DEF Stream!Without, Todo, Nth, Stream!Cardinality, Cardinality
  <2> HIDE DEF r, S, s, rest
  <2> QED BY <1>4, <2>1
<1> HIDE DEF s, S, rest, r
<1>6. rest = [k \in 1 .. r |-> Todo'[k]]
  BY <1>2, <1>5
<1>7. Len(rest) = r /\ Len(Todo') >= r
  BY <1>2, <1>4, <1>6
<1>8. SubSeq(Todo', 1, Len(rest)) = rest
  <2>1. r <= Len(Todo') /\ Todo' \in Seq(Inst)
    BY <1>2, <1>3, <1>4
  <2>2. SubSeq(Todo', 1, r) = [k \in 1 .. r |-> Todo'[k]]
    BY <1>4, <2>1
  <2> QED BY <1>6, <1>7, <2>2
<1>9. Stream!Flow(s)
  <2>1. Stream!MayIssue(s)
    BY LeavesMayIssue DEF s
  <2> QED BY <1>3, <1>7, <1>8, <2>1 DEF Stream!Flow, rest, Todo
<1>10. s \in SUBSET (1 .. OOO_DEPTH)
  BY LeavesMayIssue DEF s
<1> QED BY <1>9, <1>10 DEF Stream!Next


-----------------------------------------------------------------------------
(* The invariant.                                                          *)
LEMMA InitStreamInv == PathInit => StreamInv
<1> SUFFICES ASSUME PathInit PROVE StreamInv
  OBVIOUS
<1>1. /\ K \in Nat \ {0} /\ Banks = 0 .. K - 1 /\ FQ_BUF_IN_NUM \in Nat \ {0}
      /\ FQ_BUF_DEPTH \in Nat /\ FQ_BUF_IN_NUM <= FQ_BUF_DEPTH
  BY Widths
<1> DEFINE d == 2 * FQ_BUF_DEPTH
<1>2. d \in Nat \ {0} /\ FQ_BUF_IN_NUM <= d /\ BankPtrs = 0 .. d - 1
  BY <1>1 DEF BankPtrs
<1>3. /\ fq_wr_ptr = 0 /\ fq_rd_ptr = 0 /\ fetched = 0
      /\ queue_entry = [b \in Banks |-> [k \in 0 .. FQ_BUF_DEPTH - 1 |-> NONE]]
      /\ crdt_cnt = [b \in Banks |-> 0]
      /\ buf_wr_ptr = [b \in Banks |-> 0] /\ buf_rd_ptr = [b \in Banks |-> 0]
      /\ buf_wr_add_ptr = [b \in Banks |-> [j \in BankIns |-> j]]
      /\ v_mem_pld = [i \in Slots |-> 0]
  BY DEF PathInit, FetchQueueInit, IssueBufferInit
<1> HIDE DEF d
<1>4. \A j \in 0 .. d - 1 : (0 + j) % d = j
  <2> TAKE j \in 0 .. d - 1
  <2>1. 0 + j = d * 0 + j /\ 0 + j \in Int
    BY <1>2
  <2> QED BY <1>2, <2>1, ModValue
<1>5. BankInv
  <2>1. queue_entry \in [Banks -> [0 .. FQ_BUF_DEPTH - 1 -> Inst \cup {NONE}]]
    BY <1>3
  <2>2. buf_rd_ptr \in [Banks -> BankPtrs] /\ buf_wr_ptr \in [Banks -> BankPtrs]
    BY <1>2, <1>3
  <2>3. ASSUME NEW b \in Banks
        PROVE  /\ buf_wr_ptr[b] = (buf_rd_ptr[b] + crdt_cnt[b]) % d
               /\ buf_wr_add_ptr[b] = [j \in BankIns |-> (buf_wr_ptr[b] + j) % d]
               /\ crdt_cnt[b] = 0
    <3>1. crdt_cnt[b] = 0 /\ buf_wr_ptr[b] = 0 /\ buf_rd_ptr[b] = 0
          /\ buf_wr_add_ptr[b] = [j \in BankIns |-> j]
      BY <1>3
    <3>2. (0 + 0) % d = 0
      BY <1>2, <1>4
    <3>3. \A j \in BankIns : j \in 0 .. d - 1
      BY <1>1, <1>2 DEF BankIns
    <3>4. [j \in BankIns |-> j] = [j \in BankIns |-> (0 + j) % d]
      BY <1>4, <3>3
    <3> QED BY <3>1, <3>2, <3>4, Zenon
  <2>4. \A b \in Banks : \A k \in 0 .. crdt_cnt[b] - 1 : Entry(b, k) \in Inst
    <3>1. \A b \in Banks : crdt_cnt[b] = 0
      BY <2>3, Zenon
    <3>2. 0 .. 0 - 1 = {}
      OBVIOUS
    <3> QED BY <3>1, <3>2, Zenon
  <2>5. buf_wr_add_ptr = [b \in Banks |-> buf_wr_add_ptr[b]]
    BY <1>3
  <2> QED BY <2>1, <2>2, <2>3, <2>4, <2>5, Zenon DEF BankInv, d
<1>6. 0 \in Inst
  BY FetchPathAssumption DEF Inst
<1>7. v_mem_pld \in [Slots -> Inst] /\ fetched \in Inst
  BY <1>3, <1>6
<1>8. fq_wr_ptr \in 0 .. 2 * K - 1 /\ fq_rd_ptr \in 0 .. 2 * K - 1
  BY <1>1, <1>3
<1>9. /\ wr_add_ptr \in [Banks -> Banks] /\ rd_add_ptr \in [Banks -> Banks]
      /\ rd_add_ptr_rev \in [Banks -> Banks]
  BY DEF PathInit, FetchQueueInit
<1> QED BY <1>5, <1>7, <1>8, <1>9, InitBalanceInv DEF StreamInv

(* A cancel empties the banks.                                             *)
LEMMA CancelBankInv ==
  ASSUME NEW line, NEW rdy, NextBankPtr(line, rdy, TRUE), NextEntries(line, rdy, TRUE)
  PROVE  BankInv'
<1>1. FQ_BUF_IN_NUM \in Nat \ {0} /\ FQ_BUF_DEPTH \in Nat /\ FQ_BUF_IN_NUM <= FQ_BUF_DEPTH
  BY Widths
<1> DEFINE d == 2 * FQ_BUF_DEPTH
<1>2. d \in Nat \ {0} /\ BankPtrs = 0 .. d - 1
  BY <1>1 DEF BankPtrs
<1>3. /\ queue_entry' = [b \in Banks |-> [k \in 0 .. FQ_BUF_DEPTH - 1 |-> NONE]]
      /\ crdt_cnt' = [b \in Banks |-> 0]
      /\ buf_wr_ptr' = [b \in Banks |-> 0] /\ buf_rd_ptr' = [b \in Banks |-> 0]
      /\ buf_wr_add_ptr' = [b \in Banks |-> [j \in BankIns |-> (0 + j) % d]]
  BY Zenon DEF NextBankPtr, NextEntries
<1> HIDE DEF d
<1>4. queue_entry' \in [Banks -> [0 .. FQ_BUF_DEPTH - 1 -> Inst \cup {NONE}]]
  BY <1>3
<1>5. buf_rd_ptr' \in [Banks -> BankPtrs] /\ buf_wr_ptr' \in [Banks -> BankPtrs]
  BY <1>2, <1>3
<1>6. ASSUME NEW b \in Banks
      PROVE  /\ buf_wr_ptr'[b] = (buf_rd_ptr'[b] + crdt_cnt'[b]) % d
             /\ buf_wr_add_ptr'[b] = [j \in BankIns |-> (buf_wr_ptr'[b] + j) % d]
             /\ crdt_cnt'[b] = 0
  <2>1. crdt_cnt'[b] = 0 /\ buf_wr_ptr'[b] = 0 /\ buf_rd_ptr'[b] = 0
        /\ buf_wr_add_ptr'[b] = [j \in BankIns |-> (0 + j) % d]
    BY <1>3
  <2>2. (0 + 0) % d = 0
    <3>1. 0 + 0 = d * 0 + 0 /\ 0 \in 0 .. d - 1
      BY <1>2
    <3> QED BY <1>2, <3>1, ModValue
  <2> QED BY <2>1, <2>2, Zenon
<1>7. \A b \in Banks : \A k \in 0 .. crdt_cnt'[b] - 1 : Entry(b, k)' \in Inst
  <2>1. \A b \in Banks : crdt_cnt'[b] = 0
    BY <1>6, Zenon
  <2>2. 0 .. 0 - 1 = {}
    OBVIOUS
  <2> QED BY <2>1, <2>2, Zenon
<1>8. buf_wr_add_ptr' = [b \in Banks |-> buf_wr_add_ptr'[b]]
  BY <1>3
<1> QED BY <1>4, <1>5, <1>6, <1>7, <1>8, Zenon DEF BankInv, d

LEMMA NextStreamInv ==
  ASSUME StreamInv, NEW n \in LINES, NEW credit \in BOOLEAN, NEW taken \in SUBSET MVld,
         NEW edge \in BOOLEAN, Clock(Line(n), credit, taken, edge)
  PROVE  StreamInv'
<1> DEFINE line == Line(n)
           rdy  == IF credit THEN {c \in Channels : v_s_rdy[c]} ELSE {}
<1>1. BalanceInv /\ BankInv /\ RoomInv
  BY DEF StreamInv, BalanceInv
<1>2. RoomInv'
  BY <1>1, NextRoomInv
<1>3. BalanceInv'
  BY <1>1, <1>2, NextBalanceInv, Zenon
<1>4. /\ LegalLine(line) /\ NextRotation(line, rdy, edge) /\ NextBankPtr(line, rdy, edge)
      /\ NextEntries(line, rdy, edge)
      /\ fetched' = IF edge THEN 0 ELSE (fetched + Len(line)) % INST_NUM
  BY DEF Clock, NextFetchQueue
<1>5. n \in Nat /\ Len(line) = n /\ line \in Seq(Inst)
  <2>1. n \in Nat
    BY Widths, FetchPathAssumption DEF FILTER_CHANNEL
  <2>2. ASSUME NEW k \in 1 .. n PROVE (fetched + k - 1) % INST_NUM \in Inst
    <3>1. fetched + k - 1 \in Int /\ INST_NUM \in Nat \ {0}
      BY FetchPathAssumption DEF StreamInv, Inst
    <3> QED BY <3>1, DivMod DEF Inst
  <2> QED BY <2>1, <2>2 DEF Line
<1>6. fetched' \in Inst
  <2>1. INST_NUM \in Nat \ {0} /\ fetched + Len(line) \in Int /\ 0 \in Inst
    BY <1>5, FetchPathAssumption DEF StreamInv, Inst
  <2>2. (fetched + Len(line)) % INST_NUM \in Inst
    BY <2>1, DivMod DEF Inst
  <2> QED BY <1>4, <2>1, <2>2
<1>7. v_mem_pld' \in [Slots -> Inst]
  <2>1. v_mem_pld \in [Slots -> Inst]
    BY DEF StreamInv
  <2> QED BY <1>1, <2>1, NextSlots, Zenon
<1>8. BankInv'
  <2>1. ASSUME edge PROVE BankInv'
    <3>1. NextBankPtr(line, rdy, TRUE) /\ NextEntries(line, rdy, TRUE)
      BY <1>4, <2>1
    <3> QED BY <3>1, CancelBankInv, Zenon
  <2>2. ASSUME ~edge PROVE BankInv'
    <3>1. NextBankPtr(line, rdy, FALSE) /\ NextEntries(line, rdy, FALSE)
      BY <1>4, <2>2
    <3>2. \A b \in Banks : BankMoves(b, line, rdy)
      BY <1>1, <1>4, <3>1, BankStep, Zenon
    <3> HIDE DEF line, rdy
    <3> QED BY <1>1, <1>5, <3>1, <3>2, NextBankInv, Zenon
  <2> QED BY <2>1, <2>2
<1>9. fq_wr_ptr' \in 0 .. 2 * K - 1 /\ fq_rd_ptr' \in 0 .. 2 * K - 1
  <2> DEFINE d == 2 * K
  <2>1. K \in Nat \ {0} /\ d \in Nat \ {0} /\ ReadNum(rdy) \in Int
    BY <1>1, Widths, ReadsFirst
  <2>2. fq_wr_ptr + Len(line) \in Int /\ fq_rd_ptr + ReadNum(rdy) \in Int
    BY <1>5, <2>1 DEF StreamInv
  <2>3. /\ fq_wr_ptr' = (IF edge THEN 0 ELSE (fq_wr_ptr + Len(line)) % d)
        /\ fq_rd_ptr' = (IF edge THEN 0 ELSE (fq_rd_ptr + ReadNum(rdy)) % d)
    BY <1>4, Zenon DEF NextRotation, K
  <2> HIDE DEF line, rdy, d
  <2>4. /\ (fq_wr_ptr + Len(line)) % d \in 0 .. d - 1
        /\ (fq_rd_ptr + ReadNum(rdy)) % d \in 0 .. d - 1 /\ 0 \in 0 .. d - 1
    <3>1. (fq_wr_ptr + Len(line)) % d \in 0 .. d - 1
      BY <2>1, <2>2, DivMod, Zenon
    <3>2. (fq_rd_ptr + ReadNum(rdy)) % d \in 0 .. d - 1
      BY <2>1, <2>2, DivMod, Zenon
    <3>3. 0 \in 0 .. d - 1
      BY <2>1
    <3> QED BY <3>1, <3>2, <3>3
  <2>5. fq_wr_ptr' \in 0 .. d - 1 /\ fq_rd_ptr' \in 0 .. d - 1
    BY <2>3, <2>4
  <2> QED BY <2>5 DEF d
<1>10. /\ wr_add_ptr' \in [Banks -> Banks] /\ rd_add_ptr' \in [Banks -> Banks]
       /\ rd_add_ptr_rev' \in [Banks -> Banks]
  <2>1. PICK x \in Int, y \in Int :
          /\ wr_add_ptr' = [b \in Banks |-> (b - x) % K]
          /\ rd_add_ptr' = [b \in Banks |-> (b - y) % K]
          /\ rd_add_ptr_rev' = [i \in Banks |-> (y + i) % K]
    <3>1. /\ wr_add_ptr' = [b \in Banks |-> (b - fq_wr_ptr') % K]
          /\ rd_add_ptr' = [b \in Banks |-> (b - fq_rd_ptr') % K]
          /\ rd_add_ptr_rev' = [i \in Banks |-> (fq_rd_ptr' + i) % K]
      BY <1>4, Zenon DEF NextRotation, K
    <3>2. fq_wr_ptr' \in Int /\ fq_rd_ptr' \in Int
      BY <1>9
    <3> QED BY <3>1, <3>2
  <2>2. \A b \in Banks : (b - x) % K \in Banks /\ (b - y) % K \in Banks /\ (y + b) % K \in Banks
    BY RotationInverse
  <2> QED BY <2>1, <2>2
<1> QED BY <1>3, <1>6, <1>7, <1>8, <1>9, <1>10 DEF StreamInv


LEMMA StreamStep == StreamInv /\ [PathNext]_pathVars => StreamInv'
<1> SUFFICES ASSUME StreamInv, [PathNext]_pathVars PROVE StreamInv'
  OBVIOUS
<1>1. ASSUME UNCHANGED pathVars PROVE StreamInv'
  <2> USE <1>1 DEF pathVars, ibVars, fqVars, fqRotation, fqBanks
  <2>1. RoomInv' /\ ReadyPrefix' /\ Rotation'
    BY DEF StreamInv, BalanceInv, RoomInv, RoomKept, ReadyPrefix, Rotation
  <2>2. BalanceInv'
    BY <2>1 DEF StreamInv, BalanceInv, Filled
  <2>3. BankInv'
    BY DEF StreamInv, BankInv, Entry
  <2> QED BY <2>2, <2>3 DEF StreamInv
<1>2. ASSUME NEW n \in LINES, NEW credit \in BOOLEAN, NEW taken \in SUBSET MVld,
             NEW edge \in BOOLEAN, Clock(Line(n), credit, taken, edge)
      PROVE  StreamInv'
  BY <1>2, NextStreamInv, Zenon
<1> QED BY <1>1, <1>2 DEF PathNext, Run, CancelEdge

LEMMA StreamInvHolds == PathSpec => []StreamInv
BY InitStreamInv, StreamStep, PTL DEF PathSpec

(* Every register of the fetch queue's banks and rotations and of the      *)
(* issue buffer stays in its range, whatever its width: pointers and       *)
(* credits never leave theirs, and no slot holds what is not an            *)
(* instruction.                                                            *)
THEOREM PathTypeCorrect == PathSpec => []PathTypeOK
<1>1. StreamInv => PathTypeOK
  <2> SUFFICES ASSUME StreamInv PROVE PathTypeOK
    OBVIOUS
  <2>1. BankInv /\ RoomInv /\ crdt_cnt \in [Banks -> 0 .. FQ_BUF_DEPTH]
    BY DEF StreamInv, BalanceInv
  <2>2. buf_wr_add_ptr \in [Banks -> [BankIns -> BankPtrs]]
    <3> DEFINE d == 2 * FQ_BUF_DEPTH
    <3>1. d \in Nat \ {0} /\ BankPtrs = 0 .. d - 1
      BY Widths DEF BankPtrs
    <3>2. /\ buf_wr_ptr \in [Banks -> BankPtrs] /\ buf_wr_add_ptr = [b \in Banks |-> buf_wr_add_ptr[b]]
          /\ \A b \in Banks : buf_wr_add_ptr[b] = [j \in BankIns |-> (buf_wr_ptr[b] + j) % d]
      BY <2>1, Zenon DEF BankInv
    <3> HIDE DEF d
    <3>3. \A b \in Banks : \A j \in BankIns : (buf_wr_ptr[b] + j) % d \in BankPtrs
      BY <3>1, <3>2, DivMod DEF BankIns
    <3> QED BY <3>2, <3>3
  <2>3. FetchQueueTypeOK(Inst)
    BY <2>1, <2>2 DEF StreamInv, FetchQueueTypeOK, K, BankInv
  <2>4. IssueBufferTypeOK(Inst)
    BY <2>1 DEF StreamInv, IssueBufferTypeOK, RoomInv
  <2> QED BY <2>3, <2>4 DEF PathTypeOK, StreamInv
<1> QED BY <1>1, StreamInvHolds, PTL

Cleared == wr_ptr = 0 /\ crdt_cnt = [b \in Banks |-> 0]
Empty   == Todo = <<>>

LEMMA Emptied == StreamInv /\ Cleared => Empty
<1> SUFFICES ASSUME StreamInv, Cleared PROVE Todo = <<>>
  BY DEF Empty
<1>1. TodoShape
  BY TodoIs
<1>2. InUse = {}
  BY DEF InUse, Cleared
<1>3. Held = 0
  BY <1>2, FS_EmptySet DEF Held
<1>4. Todo \in Seq(Inst) /\ Len(Todo) = 0
  BY <1>1, <1>3 DEF TodoShape, Cleared
<1> QED BY <1>4, EmptySeq

(* Nothing is lost, repeated or overtakes: fetch queue and issue buffer    *)
(* implement the one sequence of InstructionStream, from whose first       *)
(* OOO_DEPTH positions instructions issue, a CSR instruction alone and as  *)
(* the oldest, and which a cancel empties.                                 *)
THEOREM FetchImplementsStream == PathSpec => ImplementsStream
<1>1. PathInit => Stream!Init
  <2> SUFFICES ASSUME PathInit PROVE Todo = <<>>
    BY DEF Stream!Init, Todo
  <2>1. StreamInv /\ Cleared
    BY InitStreamInv DEF PathInit, IssueBufferInit, FetchQueueInit, Cleared
  <2> QED BY <2>1, Emptied DEF Empty
<1>2. StreamInv /\ StreamInv' /\ [PathNext]_pathVars => [Stream!Next]_Todo
  <2> SUFFICES ASSUME StreamInv, StreamInv', [PathNext]_pathVars PROVE [Stream!Next]_Todo
    OBVIOUS
  <2>1. BalanceInv /\ BankInv /\ RoomInv'
    BY DEF StreamInv, BalanceInv
  <2>2. ASSUME UNCHANGED pathVars PROVE UNCHANGED Todo
    BY <2>2 DEF pathVars, ibVars, fqVars, fqRotation, fqBanks, Todo, Buffered, Stored, InUse
  <2>3. ASSUME NEW n \in LINES, NEW credit \in BOOLEAN, NEW taken \in SUBSET MVld,
               Clock(Line(n), credit, taken, FALSE)
        PROVE  Stream!Next
    <3> DEFINE rdy == IF credit THEN {c \in Channels : v_s_rdy[c]} ELSE {}
    <3>1. StoredMoves(n, rdy) /\ BufferMoves(taken, ReadNum(rdy))
      BY <2>1, <2>3, NextStored, NextBuffered, Zenon
    <3>2. n \in Nat
      BY Widths, FetchPathAssumption DEF FILTER_CHANNEL
    <3> HIDE DEF rdy
    <3>3. TodoMoves(n, taken)
      BY <3>1, <3>2, NextTodo, Zenon
    <3> QED BY <3>2, <3>3, StreamFlows
  <2>4. ASSUME NEW n \in LINES, NEW credit \in BOOLEAN, NEW taken \in SUBSET MVld,
               Clock(Line(n), credit, taken, TRUE)
        PROVE  Stream!Next
    <3>1. wr_ptr' = 0 /\ crdt_cnt' = [b \in Banks |-> 0]
      BY <2>4, Zenon DEF Clock, NextFetchQueue, NextBankPtr, NextIssueBuffer, NextMemEn
    <3>2. Cleared'
      BY <3>1 DEF Cleared
    <3>3. Empty'
      BY <3>2, Emptied, PTL
    <3> QED BY <3>3 DEF Empty, Stream!Next, Stream!Cancel, Todo
  <2> QED BY <2>2, <2>3, <2>4 DEF PathNext, Run, CancelEdge
<1> QED BY <1>1, <1>2, StreamInvHolds, PTL DEF PathSpec, ImplementsStream, Stream!Spec, Todo
=============================================================================

------------------------- MODULE LoadStoreUnit_proofs -------------------------
(***************************************************************************)
(* Credits, order and reports of the load/store unit, for every size of    *)
(* buffer and queues and every program.  What the code gets wrong in some  *)
(* situations holds as long as these do not arise.                         *)
(***************************************************************************)
EXTENDS LoadStoreUnit, SequenceTheorems, FiniteSetTheorems, FunctionTheorems, TLAPS

-----------------------------------------------------------------------------
(* Places in the circular queues, counted from their read pointers.        *)
Wrap(x, d) == IF x < d THEN x ELSE x - d
Place(i, r, d) == IF i >= r THEN i - r ELSE i - r + d
Off(i)  == Place(i, stq_rd_ptr, STU_DEPTH)
LOff(i) == Place(i, ldq_rd_ptr, LDU_DEPTH)

(* The load queue holds g loads from its read pointer on.                  *)
LdqShape(g) ==
  /\ g \in 0 .. LDU_DEPTH
  /\ ldu_credit_cnt = LDU_DEPTH - g
  /\ ldq_rd_ptr \in Ldq /\ ldq_wr_ptr = Wrap(ldq_rd_ptr + g, LDU_DEPTH)
  /\ ldq_en \in [Ldq -> BOOLEAN]
  /\ \A i \in Ldq : ldq_en[i] <=> LOff(i) < g

(* The store queue holds h stores, of which the first c are retired.       *)
StqShape(c, h) ==
  /\ c \in 0 .. h /\ h \in 0 .. STU_DEPTH
  /\ stu_credit_cnt \in 0 .. STU_DEPTH
  /\ stq_rd_ptr \in Stq /\ wr_ptr_commit = Wrap(stq_rd_ptr + c, STU_DEPTH)
  /\ stq_wr_ptr \in Stq
  /\ stq_commit_cnt = c
  /\ stq_en \in [Stq -> BOOLEAN] /\ stq_commit \in [Stq -> BOOLEAN]
  /\ \A i \in Stq : (stq_commit[i] <=> Off(i) < c) /\ (stq_en[i] => Off(i) < h)
  /\ Cancelling => h = c
  /\ ~Cancelling =>
       /\ \A i \in Stq : Off(i) \in c .. h - 1 => stq_en[i]
       /\ stq_wr_ptr = Wrap(stq_rd_ptr + h, STU_DEPTH)
       /\ STU_DEPTH - stu_credit_cnt - h \in {0, 1}

(* A sequence, whatever is in it.                                          *)
IsSeq(s) == s \in Seq({s[k] : k \in 1 .. Len(s)})

(* rob ends in what the buffer holds; the operations before it are in      *)
(* their queues or have left them.                                         *)
In == Len(rob) - Len(lsu_buf)
RobShape ==
  /\ IsSeq(rob) /\ In >= 0 /\ Len(rob) <= workload.in_flight
  /\ \A j \in 1 .. Len(rob) :
       /\ rob[j] = [op |-> rob[j].op, done |-> rob[j].done, entry |-> rob[j].entry]
       /\ rob[j].op.id = Wrap(rob[1].op.id + j - 1, workload.in_flight)
       /\ rob[j].op.ld \in BOOLEAN /\ rob[j].done \in BOOLEAN
  /\ rob # <<>> => rob[1].op.id \in 0 .. workload.in_flight - 1
  /\ \A k \in 1 .. Len(lsu_buf) : rob[In + k].op = lsu_buf[k] /\ ~rob[In + k].done
  /\ Cancelling => rob = <<>>

(* The flags of the load queue, and who waits for memory.                  *)
LdqFlags ==
  /\ stq_flag = stq_ack
  /\ stq_ack \in [Ldq -> BOOLEAN] /\ mem_req \in [Ldq -> BOOLEAN] /\ mem_ack \in [Ldq -> BOOLEAN]
  /\ \A i \in Ldq : ~ldq_en[i] => ~stq_ack[i] /\ ~mem_req[i] /\ ~mem_ack[i]
  /\ \A i \in Ldq : (mem_ack[i] => mem_req[i]) /\ (mem_req[i] => ~stq_ack[i])
  /\ Cancelling => \A i \in Ldq : ~ldq_en[i]
  /\ ~Cancelling => \A i \in Ldq :
       mem_req[i] /\ ~mem_ack[i] <=> answer # NONE /\ answer.entry = i
  /\ answer # NONE => answer.entry \in Ldq /\ answer.branch = req_branch_id

Asks(i) == ldq_en[i] /\ ~stq_ack[i] /\ ~mem_ack[i]

(* Operations in the load queue without their result are those of rob that *)
(* entered and are not done.                                               *)
RobLoads ==
  /\ \A i \in Ldq : ldq_en[i] => ldq_pld[i].ld
  /\ \A i \in Ldq : Asks(i) => \E j \in 1 .. In : ~rob[j].done /\ rob[j].op = ldq_pld[i]
  /\ \A j \in 1 .. In : ~rob[j].done => \E i \in Ldq : Asks(i) /\ ldq_pld[i] = rob[j].op
  /\ \A i, k \in Ldq : Asks(i) /\ Asks(k) /\ ldq_pld[i] = ldq_pld[k] => i = k

(* The stores of rob that are done, in order, have the entries of the      *)
(* store queue that are not retired, in order.                             *)
DoneStores == {j \in 1 .. Len(rob) : rob[j].done /\ ~rob[j].op.ld}
RobStores(c, h) ==
  /\ \A j \in DoneStores :
       rob[j].entry \in Stq /\ Off(rob[j].entry) \in c .. h - 1 /\ stq_pld[rob[j].entry] = rob[j].op
  /\ \A j, k \in DoneStores : j < k => Off(rob[j].entry) < Off(rob[k].entry)
  /\ \A o \in c .. h - 1 : \E j \in DoneStores : Off(rob[j].entry) = o

LoadInv == \E g \in 0 .. LDU_DEPTH : LdqShape(g)
StoreInv == \E c, h \in 0 .. STU_DEPTH : StqShape(c, h) /\ RobStores(c, h)

-----------------------------------------------------------------------------
(* Circular queues.                                                        *)
LEMMA WrapIsMod ==
  ASSUME NEW d \in Nat \ {0}, NEW x \in 0 .. 2 * d - 1
  PROVE  x % d = Wrap(x, d) /\ Wrap(x, d) \in 0 .. d - 1
<1>1. CASE x < d
  <2>1. x % d = x
    BY <1>1
  <2> QED BY <1>1, <2>1 DEF Wrap
<1>2. CASE x >= d
  <2>1. x % d = x - d
    BY <1>2
  <2> QED BY <1>2, <2>1 DEF Wrap
<1> QED BY <1>1, <1>2

LEMMA Depths == STU_DEPTH \in Nat /\ LDU_DEPTH \in Nat /\ STU_DEPTH > 2 /\ LDU_DEPTH > 2
BY LsuBufferAssumption

(* The h places of a circle from r on are h.                               *)
LEMMA CircleSize ==
  ASSUME NEW d \in Nat, NEW r \in 0 .. d - 1, NEW h \in 0 .. d,
         NEW S \in SUBSET (0 .. d - 1),
         \A i \in 0 .. d - 1 : i \in S <=> Place(i, r, d) < h
  PROVE  IsFiniteSet(S) /\ Cardinality(S) = h
<1> DEFINE f == [k \in 0 .. h - 1 |-> Wrap(r + k, d)]
<1>1. f \in [0 .. h - 1 -> S]
  BY DEF Wrap, Place
<1>2. \A j, k \in 0 .. h - 1 : f[j] = f[k] => j = k
  BY DEF Wrap
<1>3. \A i \in S : \E k \in 0 .. h - 1 : f[k] = i
  <2> TAKE i \in S
  <2> DEFINE o == Place(i, r, d)
  <2>1. o \in 0 .. h - 1 /\ Wrap(r + o, d) = i
    BY DEF Wrap, Place
  <2> QED BY <2>1
<1>4. f \in Bijection(0 .. h - 1, S)
  <2> HIDE DEF f
  <2> QED BY <1>1, <1>2, <1>3, Fun_IsBij
<1>5. IsFiniteSet(0 .. h - 1) /\ Cardinality(0 .. h - 1) = h
  BY FS_Interval
<1>6. ExistsBijection(0 .. h - 1, S)
  BY <1>4 DEF ExistsBijection
<1> QED BY <1>5, <1>6, FS_Bijection

LEMMA LoadsHeld ==
  ASSUME NEW g, LdqShape(g)
  PROVE  Cardinality(HeldLoads) = g
<1>1. /\ HeldLoads \in SUBSET (0 .. LDU_DEPTH - 1)
      /\ \A i \in 0 .. LDU_DEPTH - 1 : i \in HeldLoads <=>
           Place(i, ldq_rd_ptr, LDU_DEPTH) < g
  BY DEF LdqShape, HeldLoads, LOff, Ldq
<1>2. LDU_DEPTH \in Nat /\ ldq_rd_ptr \in 0 .. LDU_DEPTH - 1 /\ g \in 0 .. LDU_DEPTH
  BY Depths DEF LdqShape, Ldq
<1> QED BY <1>1, <1>2, CircleSize, Zenon

LEMMA StoresHeld ==
  ASSUME NEW c, NEW h, StqShape(c, h)
  PROVE  /\ Committed = c /\ Cardinality(HeldStores) = h
         /\ \A i \in Stq : i \in HeldStores <=> Off(i) < h
<1>1. c \in 0 .. STU_DEPTH /\ c <= h /\ h \in 0 .. STU_DEPTH /\ STU_DEPTH \in Nat
      /\ stq_rd_ptr \in 0 .. STU_DEPTH - 1
  BY Depths DEF StqShape, Stq
<1> DEFINE retired == {i \in Stq : stq_commit[i]}
<1>2. /\ retired \in SUBSET (0 .. STU_DEPTH - 1)
      /\ \A i \in 0 .. STU_DEPTH - 1 : i \in retired <=>
           Place(i, stq_rd_ptr, STU_DEPTH) < c
  BY DEF StqShape, Off, Stq
<1>3. Committed = c
  <2>1. Committed = Cardinality(retired)
    BY DEF Committed
  <2> HIDE DEF retired
  <2> QED BY <1>1, <1>2, <2>1, CircleSize, Zenon
<1>4. ASSUME NEW i \in Stq PROVE stq_en[i] \/ stq_commit[i] <=> Off(i) < h
  <2>1. Off(i) \in 0 .. STU_DEPTH - 1
    BY <1>1 DEF Off, Place, Stq
  <2>2. CASE Off(i) < c
    BY <1>1, <2>1, <2>2 DEF StqShape
  <2>3. CASE Off(i) >= c /\ Off(i) < h
    <3>1. ~Cancelling /\ Off(i) \in c .. h - 1
      BY <1>1, <2>1, <2>3 DEF StqShape
    <3> QED BY <2>3, <3>1 DEF StqShape
  <2>4. CASE Off(i) >= h
    BY <1>1, <2>1, <2>4 DEF StqShape
  <2> QED BY <1>1, <2>1, <2>2, <2>3, <2>4
<1>5. /\ HeldStores \in SUBSET (0 .. STU_DEPTH - 1)
      /\ \A i \in 0 .. STU_DEPTH - 1 : i \in HeldStores <=>
           Place(i, stq_rd_ptr, STU_DEPTH) < h
  BY <1>4 DEF HeldStores, Off, Stq
<1>6. Cardinality(HeldStores) = h
  BY <1>1, <1>5, CircleSize, Zenon
<1> QED BY <1>3, <1>4, <1>6 DEF HeldStores

-----------------------------------------------------------------------------
(* Sequences, whatever is in them.                                         *)
LEMMA SeqType ==
  ASSUME NEW s, IsSeq(s)
  PROVE  /\ Len(s) \in Nat /\ s = [k \in 1 .. Len(s) |-> s[k]]
         /\ s = <<>> <=> Len(s) = 0
<1> DEFINE X == {s[k] : k \in 1 .. Len(s)}
<1>1. s \in Seq(X)
  BY DEF IsSeq
<1> HIDE DEF X
<1>2. Len(s) \in Nat /\ s \in [1 .. Len(s) -> X] /\ DOMAIN s = 1 .. Len(s)
  BY <1>1, LenProperties
<1>3. s = [k \in 1 .. Len(s) |-> s[k]]
  BY <1>2
<1>4. s = <<>> <=> Len(s) = 0
  BY <1>1, <1>2, EmptySeq
<1> QED BY <1>2, <1>3, <1>4

LEMMA SeqIntro ==
  ASSUME NEW n \in Nat, NEW s, s = [k \in 1 .. n |-> s[k]]
  PROVE  IsSeq(s) /\ Len(s) = n
<1> DEFINE X == {s[k] : k \in 1 .. n}
<1>1. s \in [1 .. n -> X]
  BY DEF X
<1>2. s \in Seq(X) /\ Len(s) = n
  <2> HIDE DEF X
  <2>1. s \in Seq(X)
    BY <1>1, SeqDef
  <2>2. Len(s) \in Nat /\ DOMAIN s = 1 .. Len(s) /\ DOMAIN s = 1 .. n
    BY <1>1, <2>1, LenProperties
  <2> QED BY <2>1, <2>2
<1> QED BY <1>2 DEF IsSeq

(* The rest of a sequence with another one behind it.                      *)
RestFacts(r, s, m, t) ==
  /\ IsSeq(r) /\ Len(r) = Len(s) - m + Len(t)
  /\ \A k \in 1 .. Len(s) - m : r[k] = s[k + m]
  /\ \A k \in 1 .. Len(t) : r[Len(s) - m + k] = t[k]

LEMMA RestAndNew ==
  ASSUME NEW s, IsSeq(s), NEW t, IsSeq(t), NEW m \in 0 .. Len(s), NEW r,
         r = SubSeq(s, m + 1, Len(s)) \o t
  PROVE  RestFacts(r, s, m, t)
<1> DEFINE n == Len(s)
           l == Len(t)
           X == {s[k] : k \in 1 .. n} \cup {t[k] : k \in 1 .. l}
           u == SubSeq(s, m + 1, n)
<1>1. /\ n \in Nat /\ l \in Nat /\ t \in Seq(X) /\ \A k \in 1 .. n : s[k] \in X
  <2>1. n \in Nat /\ l \in Nat
    BY SeqType
  <2>2. t \in Seq({t[k] : k \in 1 .. l}) /\ {t[k] : k \in 1 .. l} \subseteq X
    BY DEF IsSeq
  <2>3. t \in Seq(X)
    <3> HIDE DEF X
    <3> QED BY <2>2, SeqMonotonic
  <2> QED BY <2>1, <2>3
<1> HIDE DEF X
<1>2. u \in Seq(X) /\ Len(u) = n - m /\ \A k \in 1 .. n - m : u[k] = s[k + m]
  <2>1. \A k \in m + 1 .. n : s[k] \in X
    BY <1>1
  <2>2. /\ u \in Seq(X)
        /\ Len(u) = IF m + 1 <= n THEN n - (m + 1) + 1 ELSE 0
        /\ \A k \in 1 .. n - (m + 1) + 1 : u[k] = s[(m + 1) + k - 1]
    <3> HIDE DEF n
    <3> QED BY <1>1, <2>1, SubSeqProperties
  <2> HIDE DEF u
  <2>3. m \in Int /\ 0 <= m /\ m <= n /\ n - (m + 1) + 1 = n - m
    BY <1>1
  <2>4. Len(u) = n - m
    <3>1. n \in Int /\ (IF m + 1 <= n THEN n - (m + 1) + 1 ELSE 0) = n - m
      <4> HIDE DEF n
      <4> QED BY <1>1, <2>3
    <3> HIDE DEF n
    <3> QED BY <2>2, <3>1
  <2>5. ASSUME NEW k \in 1 .. n - m PROVE u[k] = s[k + m]
    <3>1. k \in 1 .. n - (m + 1) + 1 /\ (m + 1) + k - 1 = k + m
      BY <1>1, <2>3
    <3>2. u[k] = s[(m + 1) + k - 1]
      BY <2>2, <3>1
    <3> QED BY <3>1, <3>2
  <2> QED BY <2>2, <2>4, <2>5
<1>3. r = u \o t
  OBVIOUS
<1> HIDE DEF u
<1>4. /\ r \in Seq(X) /\ Len(r) = n - m + l
      /\ \A k \in 1 .. n - m + l : r[k] = IF k <= n - m THEN u[k] ELSE t[k - (n - m)]
  <2>1. /\ u \o t \in Seq(X) /\ Len(u \o t) = Len(u) + Len(t)
        /\ \A k \in 1 .. Len(u) + Len(t) : (u \o t)[k] = IF k <= Len(u) THEN u[k] ELSE t[k - Len(u)]
    BY <1>1, <1>2, ConcatProperties, Zenon
  <2>2. Len(u) = n - m /\ Len(t) = l
    BY <1>2
  <2>3. PICK a : a = n - m
    OBVIOUS
  <2> HIDE DEF n, l
  <2>4. /\ r \in Seq(X) /\ Len(r) = a + l
        /\ \A k \in 1 .. a + l : r[k] = IF k <= a THEN u[k] ELSE t[k - a]
    BY <1>3, <2>1, <2>2, <2>3, Zenon
  <2> QED BY <2>3, <2>4, Zenon
<1>5. IsSeq(r)
  <2>1. n - m + l \in Nat /\ DOMAIN r = 1 .. n - m + l /\ r \in [1 .. n - m + l -> X]
    BY <1>1, <1>4, LenProperties
  <2>2. r = [k \in 1 .. n - m + l |-> r[k]]
    BY <2>1
  <2> QED BY <2>1, <2>2, SeqIntro
<1>6. ASSUME NEW k \in 1 .. n - m PROVE r[k] = s[k + m]
  BY <1>1, <1>2, <1>4
<1>7. ASSUME NEW k \in 1 .. l PROVE r[n - m + k] = t[k]
  <2>1. n - m + k \in 1 .. n - m + l /\ ~(n - m + k <= n - m) /\ (n - m + k) - (n - m) = k
    BY <1>1
  <2>2. r[n - m + k] = t[(n - m + k) - (n - m)]
    BY <1>4, <2>1
  <2> QED BY <2>1, <2>2
<1> QED BY <1>4, <1>5, <1>6, <1>7 DEF RestFacts

-----------------------------------------------------------------------------
(* What the two oldest operations offer: how many of a kind, and where the *)
(* k-th of them is in the buffer.                                          *)
BufOK == IsSeq(lsu_buf) /\ \A k \in 1 .. Len(lsu_buf) : lsu_buf[k].ld \in BOOLEAN

First(ld)  == Len(lsu_buf) >= 1 /\ (lsu_buf[1].ld <=> ld)
Second(ld) == Len(lsu_buf) >= 2 /\ (lsu_buf[2].ld <=> ld)
Num(ld) == (IF First(ld) THEN 1 ELSE 0) + (IF Second(ld) THEN 1 ELSE 0)
Pos(ld, k) == IF k = 1 /\ ~First(ld) THEN 2 ELSE k

LEMMA HeadPairIs ==
  ASSUME BufOK
  PROVE  /\ IsSeq(HeadPair)
         /\ Len(HeadPair) = IF Len(lsu_buf) < 2 THEN Len(lsu_buf) ELSE 2
         /\ \A k \in 1 .. Len(HeadPair) : HeadPair[k] = lsu_buf[k]
<1> DEFINE n == Len(lsu_buf)
           p == IF n < 2 THEN n ELSE 2
           X == {lsu_buf[k] : k \in 1 .. n}
<1>1. n \in Nat
  BY SeqType DEF BufOK
<1>2. p \in Nat /\ p <= n
  BY <1>1
<1>3. HeadPair = SubSeq(lsu_buf, 1, p)
  BY DEF HeadPair
<1> HIDE DEF p
<1>4. \A k \in 1 .. p : lsu_buf[k] \in X
  BY <1>1, <1>2
<1> HIDE DEF X
<1>5. /\ HeadPair \in Seq(X)
      /\ Len(HeadPair) = IF 1 <= p THEN p - 1 + 1 ELSE 0
      /\ \A k \in 1 .. p - 1 + 1 : HeadPair[k] = lsu_buf[1 + k - 1]
  BY <1>2, <1>3, <1>4, SubSeqProperties
<1>6. Len(HeadPair) = p
  BY <1>2, <1>5
<1>7. ASSUME NEW k \in 1 .. p PROVE HeadPair[k] = lsu_buf[k]
  <2>1. k \in 1 .. p - 1 + 1 /\ 1 + k - 1 = k
    BY <1>2
  <2>2. HeadPair[k] = lsu_buf[1 + k - 1]
    BY <1>5, <2>1
  <2> QED BY <2>1, <2>2
<1>8. IsSeq(HeadPair)
  <2>1. HeadPair = [k \in 1 .. p |-> HeadPair[k]]
    BY <1>2, <1>5, <1>6, LenProperties
  <2> QED BY <1>2, <2>1, SeqIntro
<1> QED BY <1>6, <1>7, <1>8 DEF p

LEMMA OfferedIs ==
  ASSUME BufOK, NEW ld \in BOOLEAN
  PROVE  /\ IsSeq(Offered(ld)) /\ Len(Offered(ld)) = Num(ld)
         /\ \A k \in 1 .. Num(ld) : /\ Pos(ld, k) \in 1 .. 2 /\ Pos(ld, k) <= Len(lsu_buf)
                                    /\ lsu_buf[Pos(ld, k)].ld = ld
                                    /\ Offered(ld)[k] = lsu_buf[Pos(ld, k)]
<1> DEFINE n == Len(HeadPair)
           at == Of(HeadPair, ld)
<1>1. /\ IsSeq(HeadPair) /\ n \in 0 .. 2 /\ Len(lsu_buf) \in Nat
      /\ n = IF Len(lsu_buf) < 2 THEN Len(lsu_buf) ELSE 2
      /\ \A k \in 1 .. n : HeadPair[k] = lsu_buf[k] /\ lsu_buf[k].ld \in BOOLEAN
  <2>1. /\ IsSeq(HeadPair) /\ n = IF Len(lsu_buf) < 2 THEN Len(lsu_buf) ELSE 2
        /\ \A k \in 1 .. n : HeadPair[k] = lsu_buf[k]
    BY HeadPairIs
  <2>2. Len(lsu_buf) \in Nat /\ \A k \in 1 .. Len(lsu_buf) : lsu_buf[k].ld \in BOOLEAN
    BY SeqType DEF BufOK
  <2> HIDE DEF n
  <2>3. n \in 0 .. 2 /\ n <= Len(lsu_buf)
    <3>1. n = IF Len(lsu_buf) < 2 THEN Len(lsu_buf) ELSE 2
      BY <2>1
    <3>2. Len(lsu_buf) \in Nat
      BY <2>2
    <3>3. ASSUME NEW x \in Nat, NEW y, y = IF x < 2 THEN x ELSE 2
          PROVE  y \in 0 .. 2 /\ y <= x
      BY <3>3
    <3> QED BY <3>1, <3>2, <3>3, Zenon
  <2> QED BY <2>1, <2>2, <2>3
<1>2. Offered(ld) = IF at = 1 .. n THEN HeadPair
                    ELSE [k \in 1 .. Cardinality(at) |-> HeadPair[CHOOSE j \in at : TRUE]]
  BY DEF Offered
<1>3. at = {k \in 1 .. n : lsu_buf[k].ld = ld}
  BY <1>1 DEF Of
<1>4. CASE at = 1 .. n
  <2>1. Offered(ld) = HeadPair
    BY <1>2, <1>4
  <2>2. \A k \in 1 .. n : lsu_buf[k].ld = ld
    BY <1>3, <1>4
  <2> HIDE DEF at, n
  <2>3. Num(ld) = n
    BY <1>1, <2>2 DEF Num, First, Second
  <2>4. ASSUME NEW k \in 1 .. n PROVE Pos(ld, k) = k
    BY <1>1, <2>2 DEF Pos, First
  <2>5. Len(Offered(ld)) = n /\ IsSeq(Offered(ld))
    BY <1>1, <2>1 DEF n
  <2> QED BY <1>1, <2>1, <2>2, <2>3, <2>4, <2>5
<1>5. CASE at = {} /\ at # 1 .. n
  <2>1. Cardinality(at) = 0
    BY <1>5, FS_EmptySet
  <2> DEFINE e == HeadPair[CHOOSE j \in at : TRUE]
  <2>2. Offered(ld) = [k \in 1 .. 0 |-> e]
    BY <1>2, <1>5, <2>1
  <2> HIDE DEF e
  <2>3. Offered(ld) = [k \in 1 .. 0 |-> Offered(ld)[k]]
    BY <2>2
  <2>4. IsSeq(Offered(ld)) /\ Len(Offered(ld)) = 0
    BY <2>3, SeqIntro
  <2>5. Num(ld) = 0
    BY <1>1, <1>3, <1>5 DEF Num, First, Second
  <2> QED BY <2>4, <2>5
<1>6. CASE at # {} /\ at # 1 .. n
  <2>1. PICK p \in 1 .. 2 : at = {p}
    <3>1. n = 2
      BY <1>1, <1>3, <1>6
    <3>2. at = {1} \/ at = {2}
      BY <1>3, <1>6, <3>1
    <3> QED BY <3>2
  <2>2. n = 2 /\ p <= n /\ p \in at
    BY <1>1, <1>3, <1>6, <2>1
  <2>3. Cardinality(at) = 1 /\ (CHOOSE j \in at : TRUE) = p
    BY <2>1, FS_Singleton
  <2>4. Offered(ld) = [k \in 1 .. 1 |-> HeadPair[p]]
    BY <1>2, <1>6, <2>3
  <2>5. Offered(ld) = [k \in 1 .. 1 |-> Offered(ld)[k]]
    BY <2>4
  <2>6. IsSeq(Offered(ld)) /\ Len(Offered(ld)) = 1 /\ Offered(ld)[1] = HeadPair[p]
    <3>1. IsSeq(Offered(ld)) /\ Len(Offered(ld)) = 1
      BY <2>5, SeqIntro
    <3>2. Offered(ld)[1] = HeadPair[p]
      BY <2>4
    <3> QED BY <3>1, <3>2
  <2>7. Num(ld) = 1 /\ Pos(ld, 1) = p /\ lsu_buf[p].ld = ld
    BY <1>1, <1>3, <2>1, <2>2 DEF Num, Pos, First, Second
  <2>8. HeadPair[p] = lsu_buf[p] /\ p <= Len(lsu_buf)
    BY <1>1, <2>2
  <2>9. \A k \in 1 .. 1 : k = 1
    OBVIOUS
  <2> QED BY <2>6, <2>7, <2>8, <2>9
<1> QED BY <1>4, <1>5, <1>6

(* The offers to the two queues, and how much of them is taken.            *)
OfferFacts(s, ld) ==
  /\ s = <<>> <=> Len(s) = 0
  /\ \A k \in 1 .. Len(s) : /\ Pos(ld, k) \in 1 .. 2 /\ Pos(ld, k) <= Len(lsu_buf)
                            /\ s[k] = lsu_buf[Pos(ld, k)] /\ lsu_buf[Pos(ld, k)].ld = ld

LEMMA OfferIs ==
  ASSUME BufOK, NEW ld \in BOOLEAN, NEW credit, NEW s, s = IF credit > 1 THEN Offered(ld) ELSE <<>>
  PROVE  /\ credit > 1 => Len(s) = Num(ld)
         /\ ~(credit > 1) => Len(s) = 0
         /\ OfferFacts(s, ld)
<1>1. CASE credit > 1
  <2>1. s = Offered(ld)
    BY <1>1
  <2>2. /\ IsSeq(s) /\ Len(s) = Num(ld)
        /\ \A k \in 1 .. Num(ld) : /\ Pos(ld, k) \in 1 .. 2 /\ Pos(ld, k) <= Len(lsu_buf)
                                   /\ lsu_buf[Pos(ld, k)].ld = ld
                                   /\ Offered(ld)[k] = lsu_buf[Pos(ld, k)]
    BY <2>1, OfferedIs
  <2>3. s = <<>> <=> Len(s) = 0
    BY <2>2, SeqType
  <2> QED BY <1>1, <2>1, <2>2, <2>3 DEF OfferFacts
<1>2. CASE ~(credit > 1)
  <2>1. s = <<>>
    BY <1>2
  <2>2. Len(s) = 0
    BY <2>1
  <2>3. 1 .. 0 = {}
    OBVIOUS
  <2> QED BY <1>2, <2>1, <2>2, <2>3 DEF OfferFacts
<1> QED BY <1>1, <1>2

LEMMA OffersAre ==
  ASSUME BufOK
  PROVE  /\ stu_credit_cnt > 1 => Len(StuOffer) = Num(FALSE)
         /\ ~(stu_credit_cnt > 1) => Len(StuOffer) = 0
         /\ ldu_credit_cnt > 1 => Len(LduOffer) = Num(TRUE)
         /\ ~(ldu_credit_cnt > 1) => Len(LduOffer) = 0
         /\ OfferFacts(StuOffer, FALSE) /\ OfferFacts(LduOffer, TRUE)
         /\ Num(FALSE) \in 0 .. 2 /\ Num(TRUE) \in 0 .. 2
         /\ Num(FALSE) + Num(TRUE) <= Len(lsu_buf) /\ Num(FALSE) + Num(TRUE) <= 2
<1>1. StuOffer = IF stu_credit_cnt > 1 THEN Offered(FALSE) ELSE <<>>
  BY DEF StuOffer
<1>2. LduOffer = IF ldu_credit_cnt > 1 THEN Offered(TRUE) ELSE <<>>
  BY DEF LduOffer
<1>3. /\ stu_credit_cnt > 1 => Len(StuOffer) = Num(FALSE)
      /\ ~(stu_credit_cnt > 1) => Len(StuOffer) = 0
      /\ OfferFacts(StuOffer, FALSE)
  BY <1>1, FALSE \in BOOLEAN, OfferIs, Zenon
<1>4. /\ ldu_credit_cnt > 1 => Len(LduOffer) = Num(TRUE)
      /\ ~(ldu_credit_cnt > 1) => Len(LduOffer) = 0
      /\ OfferFacts(LduOffer, TRUE)
  BY <1>2, TRUE \in BOOLEAN, OfferIs, Zenon
<1>5. Len(lsu_buf) \in Nat
  BY SeqType DEF BufOK
<1>6. /\ Num(FALSE) \in 0 .. 2 /\ Num(TRUE) \in 0 .. 2
      /\ Num(FALSE) + Num(TRUE) <= Len(lsu_buf) /\ Num(FALSE) + Num(TRUE) <= 2
  BY <1>5 DEF Num, First, Second
<1> QED BY <1>3, <1>4, <1>6

LEMMA TakenBounds ==
  ASSUME BufOK
  PROVE  /\ StoresTaken \in 0 .. Len(StuOffer) /\ LoadsTaken \in 0 .. Len(LduOffer)
         /\ StoresTaken \in 0 .. 2 /\ LoadsTaken \in 0 .. 2
         /\ Len(StuOffer) \in 0 .. 2 /\ Len(LduOffer) \in 0 .. 2
         /\ Len(StuOffer) + Len(LduOffer) <= Len(lsu_buf)
         /\ Len(StuOffer) + Len(LduOffer) <= 2
         /\ StoresTaken > 0 => stu_credit_cnt > 1
         /\ LoadsTaken > 0 => ldu_credit_cnt > 1
<1>1. /\ stu_credit_cnt > 1 => Len(StuOffer) = Num(FALSE)
      /\ ~(stu_credit_cnt > 1) => Len(StuOffer) = 0
      /\ ldu_credit_cnt > 1 => Len(LduOffer) = Num(TRUE)
      /\ ~(ldu_credit_cnt > 1) => Len(LduOffer) = 0
      /\ Num(FALSE) \in 0 .. 2 /\ Num(TRUE) \in 0 .. 2
      /\ Num(FALSE) + Num(TRUE) <= Len(lsu_buf) /\ Num(FALSE) + Num(TRUE) <= 2
  BY OffersAre
<1> DEFINE s == Len(StuOffer)
           l == Len(LduOffer)
<1>2. s \in 0 .. 2 /\ l \in 0 .. 2 /\ s + l <= Len(lsu_buf) /\ s + l <= 2
      /\ (s > 0 => stu_credit_cnt > 1) /\ (l > 0 => ldu_credit_cnt > 1)
  <2>1. Len(lsu_buf) \in Nat
    BY SeqType DEF BufOK
  <2>2. ASSUME NEW a \in 0 .. 2, NEW b \in 0 .. 2, NEW n \in Nat, a + b <= n, a + b <= 2,
               NEW x \in 0 .. 2, x = 0 \/ x = a, NEW y \in 0 .. 2, y = 0 \/ y = b
        PROVE  x + y <= n /\ x + y <= 2
    BY <2>2
  <2> HIDE DEF s, l
  <2>3. s \in 0 .. 2 /\ (s = 0 \/ s = Num(FALSE)) /\ (s > 0 => stu_credit_cnt > 1)
    <3>1. (stu_credit_cnt > 1 => s = Num(FALSE)) /\ (~(stu_credit_cnt > 1) => s = 0)
      BY <1>1 DEF s
    <3>2. CASE stu_credit_cnt > 1
      <4>1. s = Num(FALSE) /\ Num(FALSE) \in 0 .. 2
        BY <1>1, <3>1, <3>2
      <4> QED BY <3>2, <4>1
    <3>3. CASE ~(stu_credit_cnt > 1)
      <4>1. s = 0
        BY <3>1, <3>3
      <4> QED BY <4>1
    <3> QED BY <3>2, <3>3
  <2>4. l \in 0 .. 2 /\ (l = 0 \/ l = Num(TRUE)) /\ (l > 0 => ldu_credit_cnt > 1)
    <3>1. (ldu_credit_cnt > 1 => l = Num(TRUE)) /\ (~(ldu_credit_cnt > 1) => l = 0)
      BY <1>1 DEF l
    <3>2. CASE ldu_credit_cnt > 1
      <4>1. l = Num(TRUE) /\ Num(TRUE) \in 0 .. 2
        BY <1>1, <3>1, <3>2
      <4> QED BY <3>2, <4>1
    <3>3. CASE ~(ldu_credit_cnt > 1)
      <4>1. l = 0
        BY <3>1, <3>3
      <4> QED BY <4>1
    <3> QED BY <3>2, <3>3
  <2> QED BY <1>1, <2>1, <2>2, <2>3, <2>4, Zenon
<1>3. StoresTaken \in 0 .. s
  <2>1. StoresTaken = 0 \/ StoresTaken = s
    BY DEF StoresTaken
  <2> QED BY <1>2, <2>1
<1>4. LoadsTaken \in 0 .. l
  <2>1. LoadsTaken = 0 \/ (LoadsTaken = 1 /\ 2 <= l) \/ LoadsTaken = l
    BY DEF LoadsTaken, Blocked
  <2> QED BY <1>2, <2>1
<1>5. \A a \in 0 .. 2 : \A b \in 0 .. a : b \in 0 .. 2
  OBVIOUS
<1> HIDE DEF s, l
<1> QED BY <1>2, <1>3, <1>4, <1>5 DEF s, l

LEMMA TakenOffered ==
  ASSUME BufOK
  PROVE  /\ OfferFacts(StuOffer, FALSE) /\ OfferFacts(LduOffer, TRUE)
         /\ FALSE \in BOOLEAN /\ TRUE \in BOOLEAN
         /\ \A k \in 1 .. StoresTaken : k \in 1 .. Len(StuOffer)
         /\ \A k \in 1 .. LoadsTaken : k \in 1 .. Len(LduOffer)
         /\ \A k \in 1 .. 2 : v_ldq_ack_flag(k) => k \in 1 .. Len(LduOffer)
<1>1. OfferFacts(StuOffer, FALSE) /\ OfferFacts(LduOffer, TRUE)
  BY OffersAre
<1>2. /\ Len(StuOffer) \in 0 .. 2 /\ StoresTaken \in 0 .. Len(StuOffer)
      /\ Len(LduOffer) \in 0 .. 2 /\ LoadsTaken \in 0 .. Len(LduOffer)
  BY TakenBounds
<1>3. \A a \in 0 .. 2 : \A b \in 0 .. a : \A k \in 1 .. b : k \in 1 .. a
  OBVIOUS
<1>4. \A a \in 0 .. 2 : \A k \in 1 .. 2 : k <= a => k \in 1 .. a
  OBVIOUS
<1>5. \A k : v_ldq_ack_flag(k) => k <= Len(LduOffer)
  BY DEF v_ldq_ack_flag
<1> QED BY <1>1, <1>2, <1>3, <1>4, <1>5, Zenon

(* In order, what is taken are the first operations of the buffer.         *)
Taken == StoresTaken + LoadsTaken

TakenCase(x, y, n, b1, b2) ==
  \/ x = 0 /\ y = 0
  \/ n >= 1 /\ x = 0 /\ y = 1 /\ b1
  \/ n >= 1 /\ x = 1 /\ y = 0 /\ ~b1
  \/ n >= 2 /\ x = 0 /\ y = 2 /\ b1 /\ b2
  \/ n >= 2 /\ x = 2 /\ y = 0 /\ ~b1 /\ ~b2
  \/ n >= 2 /\ x = 1 /\ y = 1 /\ b1 /\ ~b2
  \/ n >= 2 /\ x = 1 /\ y = 1 /\ ~b1 /\ b2

LEMMA TakenCases ==
  ASSUME BufOK, OffersInOrder
  PROVE  TakenCase(StoresTaken, LoadsTaken, Len(lsu_buf), lsu_buf[1].ld, lsu_buf[2].ld)
<1> DEFINE n == Len(lsu_buf)
           s == Len(StuOffer)
           l == Len(LduOffer)
           x == StoresTaken
           y == LoadsTaken
           b1 == lsu_buf[1].ld
           b2 == lsu_buf[2].ld
           second == lsid(LduOffer[1])
<1>1. /\ n \in Nat /\ x \in 0 .. s /\ y \in 0 .. l
      /\ s \in 0 .. 2 /\ l \in 0 .. 2 /\ s + l <= n /\ s + l <= 2
  BY TakenBounds, SeqType DEF BufOK
<1>2. /\ s = 0 \/ s = Num(FALSE)
      /\ l = 0 \/ l = Num(TRUE)
      /\ StuOffer = <<>> <=> s = 0
      /\ LduOffer = <<>> <=> l = 0
  BY OffersAre, Zenon DEF OfferFacts
<1>3. l > 0 => LduOffer[1] = lsu_buf[Pos(TRUE, 1)] /\ lsu_buf[Pos(TRUE, 1)].ld
  <2>1. l > 0 => 1 \in 1 .. l
    BY <1>1
  <2> QED BY <2>1, OffersAre, Zenon DEF OfferFacts
<1>4. l > 0 => HeadPair[1] = lsu_buf[1]
  <2>1. /\ Len(HeadPair) = IF n < 2 THEN n ELSE 2
        /\ \A k \in 1 .. Len(HeadPair) : HeadPair[k] = lsu_buf[k]
    BY HeadPairIs
  <2>2. l > 0 => 1 \in 1 .. (IF n < 2 THEN n ELSE 2)
    <3> HIDE DEF n, s, l
    <3> QED BY <1>1
  <2> QED BY <2>1, <2>2, Zenon
<1>5. x = s \/ (l > 0 /\ ~second /\ x = 0 /\ y = 0)
  <2>1. CASE Blocked(1) /\ ~second
    <3>1. 1 <= l /\ y = 0 /\ x = 0
      BY <2>1 DEF Blocked, LoadsTaken, StoresTaken
    <3>2. l > 0
      <4> HIDE DEF l, s, n
      <4> QED BY <1>1, <3>1
    <3> QED BY <2>1, <3>1, <3>2
  <2>2. CASE ~(Blocked(1) /\ ~second)
    BY <2>2 DEF StoresTaken
  <2> QED BY <2>1, <2>2
<1>6. \/ y = l
      \/ y = 0 /\ (~second => x = 0)
      \/ y = 1 /\ 2 <= l
  <2>1. CASE Blocked(1)
    BY <2>1 DEF LoadsTaken, StoresTaken
  <2>2. CASE ~Blocked(1) /\ Blocked(2)
    BY <2>2 DEF Blocked, LoadsTaken
  <2>3. CASE ~Blocked(1) /\ ~Blocked(2)
    BY <2>3 DEF LoadsTaken
  <2> QED BY <2>1, <2>2, <2>3
<1>7. n > 1 => /\ b1 /\ ~b2 /\ s # 0 => l # 0
               /\ ~b1 /\ b2 /\ l # 0 => s # 0
  BY <1>2 DEF OffersInOrder
<1>8. /\ Num(TRUE) = (IF n >= 1 /\ b1 THEN 1 ELSE 0) + (IF n >= 2 /\ b2 THEN 1 ELSE 0)
      /\ Num(FALSE) = (IF n >= 1 /\ ~b1 THEN 1 ELSE 0) + (IF n >= 2 /\ ~b2 THEN 1 ELSE 0)
      /\ Pos(TRUE, 1) = IF n >= 1 /\ b1 THEN 1 ELSE 2
  BY DEF Num, Pos, First, Second
<1>9. l > 0 => (b1 <=> ~second)
  <2>1. CASE l > 0 /\ b1
    <3>1. n >= 1
      <4> HIDE DEF n, s, l
      <4> QED BY <1>1, <2>1
    <3>2. Pos(TRUE, 1) = 1
      BY <1>8, <2>1, <3>1
    <3> QED BY <1>3, <1>4, <2>1, <3>2 DEF lsid
  <2>2. CASE l > 0 /\ ~b1
    <3>1. Pos(TRUE, 1) = 2
      BY <1>8, <2>2
    <3>2. b2 /\ LduOffer[1] = lsu_buf[2] /\ HeadPair[1] = lsu_buf[1]
      BY <1>3, <1>4, <2>2, <3>1
    <3>3. lsu_buf[1] # lsu_buf[2]
      BY <2>2, <3>2
    <3> QED BY <2>2, <3>2, <3>3 DEF lsid
  <2> QED BY <2>1, <2>2
<1> DEFINE ns == Num(FALSE)
           nl == Num(TRUE)
<1>10. /\ s = 0 \/ s = ns
       /\ l = 0 \/ l = nl
       /\ nl = (IF n >= 1 /\ b1 THEN 1 ELSE 0) + (IF n >= 2 /\ b2 THEN 1 ELSE 0)
       /\ ns = (IF n >= 1 /\ ~b1 THEN 1 ELSE 0) + (IF n >= 2 /\ ~b2 THEN 1 ELSE 0)
  BY <1>2, <1>8
<1>11. TakenCase(x, y, n, b1, b2)
  <2> HIDE DEF n, s, l, x, y, b1, b2, second, ns, nl
  <2> QED BY <1>1, <1>5, <1>6, <1>7, <1>9, <1>10 DEF TakenCase
<1> QED BY <1>11

LEMMA TakenFirst ==
  ASSUME BufOK, OffersInOrder
  PROVE  /\ \A k \in 1 .. StoresTaken : Pos(FALSE, k) \in 1 .. Taken
         /\ \A k \in 1 .. LoadsTaken : Pos(TRUE, k) \in 1 .. Taken
         /\ \A p \in 1 .. Taken :
              IF lsu_buf[p].ld THEN \E k \in 1 .. LoadsTaken : Pos(TRUE, k) = p
                               ELSE \E k \in 1 .. StoresTaken : Pos(FALSE, k) = p
<1> DEFINE n == Len(lsu_buf)
           x == StoresTaken
           y == LoadsTaken
           b1 == lsu_buf[1].ld
           b2 == lsu_buf[2].ld
<1>1. TakenCase(x, y, n, b1, b2) /\ n \in Nat /\ Taken = x + y
  BY TakenCases, SeqType DEF BufOK, Taken
<1>2. /\ Pos(TRUE, 1) = IF n >= 1 /\ b1 THEN 1 ELSE 2
      /\ Pos(FALSE, 1) = IF n >= 1 /\ ~b1 THEN 1 ELSE 2
      /\ Pos(TRUE, 2) = 2 /\ Pos(FALSE, 2) = 2
  BY DEF Pos, First
<1>3. 1 .. 0 = {} /\ 1 .. 1 = {1} /\ 1 .. 2 = {1, 2} /\ 1 \in 1 .. 2 /\ 2 \in 1 .. 2
  OBVIOUS
<1> HIDE DEF n
<1>4. CASE x = 0 /\ y = 0
  BY <1>1, <1>4
<1>5. CASE n >= 1 /\ x = 0 /\ y = 1 /\ b1
  <2>1. Pos(TRUE, 1) = 1 /\ Pos(FALSE, 1) = 2 /\ Pos(TRUE, 2) = 2 /\ Pos(FALSE, 2) = 2
    BY <1>2, <1>3, <1>5
  <2>2. 1 .. x = {} /\ 1 .. y = {1} /\ 1 .. Taken = {1}
    BY <1>1, <1>3, <1>5
  <2> QED BY <1>5, <2>1, <2>2
<1>6. CASE n >= 1 /\ x = 1 /\ y = 0 /\ ~b1
  <2>1. Pos(TRUE, 1) = 2 /\ Pos(FALSE, 1) = 1 /\ Pos(TRUE, 2) = 2 /\ Pos(FALSE, 2) = 2
    BY <1>2, <1>3, <1>6
  <2>2. 1 .. x = {1} /\ 1 .. y = {} /\ 1 .. Taken = {1}
    BY <1>1, <1>3, <1>6
  <2> QED BY <1>6, <2>1, <2>2
<1>7. CASE n >= 2 /\ x = 0 /\ y = 2 /\ b1 /\ b2
  <2>1. Pos(TRUE, 1) = 1 /\ Pos(FALSE, 1) = 2 /\ Pos(TRUE, 2) = 2 /\ Pos(FALSE, 2) = 2
    <3>1. n >= 1
      BY <1>1, <1>7
    <3> QED BY <1>2, <1>7, <3>1
  <2>2. 1 .. x = {} /\ 1 .. y = {1, 2} /\ 1 .. Taken = {1, 2}
    BY <1>1, <1>3, <1>7
  <2> QED BY <1>7, <2>1, <2>2
<1>8. CASE n >= 2 /\ x = 2 /\ y = 0 /\ ~b1 /\ ~b2
  <2>1. Pos(TRUE, 1) = 2 /\ Pos(FALSE, 1) = 1 /\ Pos(TRUE, 2) = 2 /\ Pos(FALSE, 2) = 2
    <3>1. n >= 1
      BY <1>1, <1>8
    <3> QED BY <1>2, <1>8, <3>1
  <2>2. 1 .. x = {1, 2} /\ 1 .. y = {} /\ 1 .. Taken = {1, 2}
    BY <1>1, <1>3, <1>8
  <2> QED BY <1>8, <2>1, <2>2
<1>9. CASE n >= 2 /\ x = 1 /\ y = 1 /\ b1 /\ ~b2
  <2>1. Pos(TRUE, 1) = 1 /\ Pos(FALSE, 1) = 2 /\ Pos(TRUE, 2) = 2 /\ Pos(FALSE, 2) = 2
    <3>1. n >= 1
      BY <1>1, <1>9
    <3> QED BY <1>2, <1>9, <3>1
  <2>2. 1 .. x = {1} /\ 1 .. y = {1} /\ 1 .. Taken = {1, 2}
    BY <1>1, <1>3, <1>9
  <2> QED BY <1>9, <2>1, <2>2
<1>10. CASE n >= 2 /\ x = 1 /\ y = 1 /\ ~b1 /\ b2
  <2>1. Pos(TRUE, 1) = 2 /\ Pos(FALSE, 1) = 1 /\ Pos(TRUE, 2) = 2 /\ Pos(FALSE, 2) = 2
    <3>1. n >= 1
      BY <1>1, <1>10
    <3> QED BY <1>2, <1>10, <3>1
  <2>2. 1 .. x = {1} /\ 1 .. y = {1} /\ 1 .. Taken = {1, 2}
    BY <1>1, <1>3, <1>10
  <2> QED BY <1>10, <2>1, <2>2
<1> QED BY <1>1, <1>4, <1>5, <1>6, <1>7, <1>8, <1>9, <1>10 DEF TakenCase

-----------------------------------------------------------------------------
(* A circular queue in a cycle: h entries from r on, of which out leave,   *)
(* and l new ones behind them.                                             *)
CircleMoved(d, r, h, out, l, x, r2, x2) ==
  /\ r2 \in 0 .. d - 1 /\ x \in 0 .. d - 1
  /\ h + l - out \in 0 .. d /\ x2 = Wrap(r2 + (h + l - out), d)
  /\ \A i \in 0 .. d - 1 :
       Place(i, r2, d) = IF Place(i, r, d) < out THEN d - 1 ELSE Place(i, r, d) - out
  /\ \A k \in 1 .. l : (x + k - 1) % d \in 0 .. d - 1 /\ Place((x + k - 1) % d, r, d) = h + k - 1

LEMMA CircleMoves ==
  ASSUME NEW d \in Nat, d > 2, NEW r \in 0 .. d - 1, NEW h \in 0 .. d,
         NEW out \in 0 .. 1, out <= h, NEW l \in Nat, h + l <= d,
         NEW x, x = Wrap(r + h, d), NEW r2, r2 = (r + out) % d, NEW x2, x2 = (x + l) % d
  PROVE  CircleMoved(d, r, h, out, l, x, r2, x2)
<1>1. x \in 0 .. d - 1
  BY DEF Wrap
<1>2. r2 = Wrap(r + out, d) /\ r2 \in 0 .. d - 1
  <2>1. r + out \in 0 .. 2 * d - 1
    OBVIOUS
  <2> QED BY <2>1, WrapIsMod
<1>3. x2 = Wrap(x + l, d)
  <2>1. x + l \in 0 .. 2 * d - 1
    BY <1>1
  <2> QED BY <2>1, WrapIsMod
<1>4. h + l - out \in 0 .. d /\ x2 = Wrap(r2 + (h + l - out), d)
  BY <1>2, <1>3 DEF Wrap
<1>5. ASSUME NEW i \in 0 .. d - 1
      PROVE  Place(i, r2, d) = IF Place(i, r, d) < out THEN d - 1 ELSE Place(i, r, d) - out
  BY <1>2 DEF Wrap, Place
<1>6. ASSUME NEW k \in 1 .. l
      PROVE  (x + k - 1) % d \in 0 .. d - 1 /\ Place((x + k - 1) % d, r, d) = h + k - 1
  <2> DEFINE y == x + k - 1
  <2>1. y \in 0 .. 2 * d - 1
    BY <1>1
  <2>2. y % d = Wrap(y, d)
    <3> HIDE DEF y
    <3> QED BY <2>1, WrapIsMod
  <2>3. Wrap(y, d) \in 0 .. d - 1 /\ Place(Wrap(y, d), r, d) = h + k - 1
    BY <1>1 DEF Wrap, Place
  <2> QED BY <2>2, <2>3
<1> QED BY <1>1, <1>2, <1>4, <1>5, <1>6 DEF CircleMoved

LEMMA Places ==
  ASSUME NEW d \in Nat, NEW r \in 0 .. d - 1, NEW i \in 0 .. d - 1, NEW j \in 0 .. d - 1
  PROVE  Place(i, r, d) \in 0 .. d - 1 /\ (Place(i, r, d) = Place(j, r, d) => i = j)
BY DEF Place

(* The load queue in a cycle.                                              *)
LEMMA NextLdqShape ==
  ASSUME BufOK, NEW g, LdqShape(g), NEW drain, NEW edge, NEW cancel \in BOOLEAN, NEW cnt,
         NEW request, NEW acked,
         NextCredits(StoresTaken, LoadsTaken, ldq_rd_en, drain, cancel, cnt),
         NextLdqFlags(LoadsTaken, request, acked, cancel),
         NextLdqPtr(LoadsTaken, edge, cancel)
  PROVE  \E h \in 0 .. LDU_DEPTH : LdqShape(h)'
<1> DEFINE out == IF ldq_rd_en THEN 1 ELSE 0
           l == LoadsTaken
           h == IF cancel THEN 0 ELSE g + l - out
           d == LDU_DEPTH
           r == ldq_rd_ptr
           x == ldq_wr_ptr
<1>1. /\ d \in Nat /\ d > 2 /\ r \in 0 .. d - 1 /\ g \in 0 .. d /\ x = Wrap(r + g, d)
      /\ ldu_credit_cnt = d - g
      /\ \A i \in 0 .. d - 1 : ldq_en[i] <=> Place(i, r, d) < g
  BY Depths DEF LdqShape, Ldq, LOff
<1>2. /\ ldu_credit_cnt' = IF cancel THEN d ELSE ldu_credit_cnt + out - l
      /\ ldq_wr_ptr' = IF cancel THEN 0 ELSE (x + l) % d
      /\ ldq_rd_ptr' = IF cancel THEN 0 ELSE (r + out) % d
  BY DEF NextCredits, NextLdqPtr
<1> DEFINE written == {LdqEntry(k) : k \in 1 .. l}
           leaving == IF ldq_rd_en THEN {r} ELSE {}
<1>3. ldq_en' = [i \in 0 .. d - 1 |-> ~cancel /\ (i \in written \/ (ldq_en[i] /\ i \notin leaving))]
  BY DEF NextLdqFlags, Ldq
<1>4. l \in 0 .. 2 /\ (l > 0 => ldu_credit_cnt > 1)
  BY TakenBounds
<1>5. out \in 0 .. 1 /\ out <= g
  <2>1. CASE ldq_rd_en
    <3>1. ldq_en[r]
      BY <2>1 DEF ldq_rd_en
    <3>2. Place(r, r, d) = 0
      BY <1>1 DEF Place
    <3>3. 0 < g
      <4> HIDE DEF d, r
      <4> QED BY <1>1, <3>1, <3>2
    <3> QED BY <1>1, <2>1, <3>3
  <2> QED BY <1>1, <2>1
<1>6. g + l <= d
  <2> HIDE DEF d, l
  <2> QED BY <1>1, <1>4
<1>7. CASE cancel
  <2>1. h = 0 /\ ldu_credit_cnt' = d /\ ldq_wr_ptr' = 0 /\ ldq_rd_ptr' = 0
    BY <1>2, <1>7
  <2>2. ldq_en' = [i \in 0 .. d - 1 |-> FALSE]
    BY <1>3, <1>7
  <2>3. Wrap(0 + 0, d) = 0 /\ 0 \in 0 .. d /\ 0 \in 0 .. d - 1 /\ d - 0 = d
    BY <1>1 DEF Wrap
  <2>4. \A i \in 0 .. d - 1 : ~(Place(i, 0, d) < 0)
    BY <1>1 DEF Place
  <2> HIDE DEF h
  <2> QED BY <2>1, <2>2, <2>3, <2>4 DEF LdqShape, LOff, Ldq
<1>8. CASE ~cancel
  <2> DEFINE r2 == (r + out) % d
             x2 == (x + l) % d
  <2>1. h = g + l - out /\ ldu_credit_cnt' = d - g + out - l /\ ldq_wr_ptr' = x2 /\ ldq_rd_ptr' = r2
    BY <1>1, <1>2, <1>8
  <2>2. /\ r2 \in 0 .. d - 1 /\ x \in 0 .. d - 1
        /\ g + l - out \in 0 .. d /\ x2 = Wrap(r2 + (g + l - out), d)
        /\ \A i \in 0 .. d - 1 :
             Place(i, r2, d) = IF Place(i, r, d) < out THEN d - 1 ELSE Place(i, r, d) - out
        /\ \A k \in 1 .. l : (x + k - 1) % d \in 0 .. d - 1 /\ Place((x + k - 1) % d, r, d) = g + k - 1
    <3>1. r2 = (r + out) % d /\ x2 = (x + l) % d
      OBVIOUS
    <3> HIDE DEF d, r, x, l, out, r2, x2
    <3>2. d \in Nat /\ d > 2 /\ r \in 0 .. d - 1 /\ g \in 0 .. d /\ x = Wrap(r + g, d)
      BY <1>1
    <3>3. out \in 0 .. 1 /\ out <= g /\ l \in Nat /\ g + l <= d
      BY <1>4, <1>5, <1>6
    <3>4. CircleMoved(d, r, g, out, l, x, r2, x2)
      BY <3>1, <3>2, <3>3, CircleMoves, Zenon
    <3> QED BY <3>4 DEF CircleMoved
  <2>3. \A k \in 1 .. l : LdqEntry(k) = (x + k - 1) % d
    BY DEF LdqEntry
  <2>4. ASSUME NEW i \in 0 .. d - 1
        PROVE  ldq_en'[i] <=> Place(i, r2, d) < g + l - out
    <3> DEFINE p == Place(i, r, d)
    <3>1. p \in 0 .. d - 1
      BY <1>1, Places
    <3>2. i \in written <=> p \in g .. g + l - 1
      <4>1. ASSUME NEW k \in 1 .. l, i = LdqEntry(k) PROVE p = g + k - 1
        BY <2>2, <2>3, <4>1
      <4>2. ASSUME p \in g .. g + l - 1 PROVE i \in written
        <5>1. p - g + 1 \in 1 .. l /\ g + (p - g + 1) - 1 = p
          <6> HIDE DEF p, l, d
          <6> QED BY <1>1, <1>4, <3>1, <4>2
        <5> DEFINE k == p - g + 1
        <5>2. /\ LdqEntry(k) \in 0 .. d - 1 /\ Place(LdqEntry(k), r, d) = g + k - 1
          BY <2>2, <2>3, <5>1
        <5>3. LdqEntry(k) = i
          BY <1>1, <5>1, <5>2, Places
        <5> QED BY <5>1, <5>3
      <4>3. ASSUME NEW k \in 1 .. l, p = g + k - 1 PROVE p \in g .. g + l - 1
        <5> HIDE DEF p, l, d
        <5> QED BY <1>1, <1>4, <4>3
      <4> QED BY <4>1, <4>2, <4>3
    <3>3. i \in leaving <=> ldq_rd_en /\ p = 0
      BY <1>1 DEF Place
    <3>4. ldq_en'[i] <=> (p \in g .. g + l - 1 \/ (p < g /\ ~(ldq_rd_en /\ p = 0)))
      <4>1. ldq_en'[i] <=> (i \in written \/ (ldq_en[i] /\ i \notin leaving))
        <5> HIDE DEF written, leaving
        <5> QED BY <1>3, <1>8
      <4>2. ldq_en[i] <=> p < g
        BY <1>1
      <4> HIDE DEF written, leaving, p
      <4> QED BY <3>2, <3>3, <4>1, <4>2
    <3>5. Place(i, r2, d) = IF p < out THEN d - 1 ELSE p - out
      BY <2>2
    <3>6. (ldq_rd_en /\ out = 1) \/ (~ldq_rd_en /\ out = 0)
      OBVIOUS
    <3> HIDE DEF p, out, d, l, r2
    <3> QED BY <1>1, <1>4, <1>5, <1>6, <3>1, <3>4, <3>5, <3>6
  <2>5. d - (g + l - out) = d - g + out - l
    <3> HIDE DEF d, l, out
    <3> QED BY <1>1, <1>4, <1>5
  <2>6. ldq_en' \in [0 .. d - 1 -> BOOLEAN]
    <3> HIDE DEF written, leaving, d
    <3> QED BY <1>3
  <2> HIDE DEF h, out, l, r2, x2, d
  <2> QED BY <2>1, <2>2, <2>4, <2>5, <2>6 DEF LdqShape, LOff, Ldq, d
<1> QED BY <1>7, <1>8

-----------------------------------------------------------------------------
(* A set of the first numbers is an interval.                              *)
LEMMA DownClosed ==
  ASSUME NEW m \in Nat, NEW S \in SUBSET (0 .. m - 1), \A j \in S : \A i \in 0 .. j : i \in S
  PROVE  Cardinality(S) \in 0 .. m /\ S = 0 .. Cardinality(S) - 1
<1>1. IsFiniteSet(0 .. m - 1) /\ Cardinality(0 .. m - 1) = m
  BY FS_Interval
<1>2. IsFiniteSet(S) /\ Cardinality(S) <= m /\ Cardinality(S) \in Nat
  BY <1>1, FS_Subset, FS_CardinalityType
<1>3. \A j \in S : j < Cardinality(S)
  <2> TAKE j \in S
  <2>1. j \in Nat /\ 0 .. j \subseteq S
    OBVIOUS
  <2>2. Cardinality(0 .. j) = j + 1
    BY <2>1, FS_Interval
  <2>3. Cardinality(0 .. j) <= Cardinality(S)
    BY <1>2, <2>1, FS_Subset
  <2> QED BY <1>2, <2>1, <2>2, <2>3
<1>4. S \subseteq 0 .. Cardinality(S) - 1
  BY <1>2, <1>3
<1> DEFINE n == Cardinality(S)
<1>5. n \in 0 .. m /\ S \subseteq 0 .. n - 1
  BY <1>2, <1>4
<1>6. IsFiniteSet(0 .. n - 1) /\ Cardinality(0 .. n - 1) = Cardinality(S)
  <2>1. n \in Nat
    BY <1>2
  <2>2. n = Cardinality(S)
    OBVIOUS
  <2> HIDE DEF n
  <2>3. IsFiniteSet(0 .. n - 1) /\ Cardinality(0 .. n - 1) = n
    BY <2>1, FS_Interval
  <2> QED BY <2>2, <2>3
<1>7. S = 0 .. n - 1
  <2> HIDE DEF n
  <2> QED BY <1>5, <1>6, FS_Subset
<1> QED BY <1>5, <1>7

(* The stores that retire are the oldest ones of the queue not yet retired.*)
RetiredFacts(n, c, r) ==
  /\ Retiring(n) = {i \in Stq : Off(i) \in c .. c + r - 1}
  /\ \A j \in DoneStores : j <= n <=> Off(rob[j].entry) < c + r

LEMMA RetiredFirst ==
  ASSUME NEW c \in Nat, NEW h \in Nat, c <= h, RobStores(c, h), stq_rd_ptr \in Stq,
         IsSeq(rob), \A j \in 1 .. Len(rob) : rob[j].op.ld \in BOOLEAN /\ rob[j].done \in BOOLEAN,
         NEW n \in Nat, LegalRetire(n)
  PROVE  Cardinality(RetiringStores(n)) \in 0 .. h - c /\ RetiredFacts(n, c, Cardinality(RetiringStores(n)))
<1> DEFINE R == RetiringStores(n)
           m == h - c
           f == [j \in R |-> Off(rob[j].entry) - c]
           S == {f[j] : j \in R}
<1>1. Len(rob) \in Nat /\ n <= Len(rob) /\ \A k \in 1 .. n : rob[k].done
  BY SeqType DEF LegalRetire
<1>2. R = {j \in DoneStores : j <= n} /\ \A j \in DoneStores : j \in 1 .. Len(rob)
  BY <1>1 DEF RetiringStores, DoneStores
<1>3. /\ \A j \in DoneStores : rob[j].entry \in Stq /\ Off(rob[j].entry) \in c .. h - 1
      /\ \A j, k \in DoneStores : j < k => Off(rob[j].entry) < Off(rob[k].entry)
      /\ \A o \in c .. h - 1 : \E j \in DoneStores : Off(rob[j].entry) = o
  BY DEF RobStores
<1>4. m \in Nat
  OBVIOUS
<1>5. f \in [R -> 0 .. m - 1]
  <2>1. \A o \in c .. h - 1 : o - c \in 0 .. m - 1
    OBVIOUS
  <2> HIDE DEF m, R
  <2> QED BY <1>2, <1>3, <2>1
<1>6. ASSUME NEW j \in R, NEW k \in R, f[j] = f[k] PROVE j = k
  <2>1. Off(rob[j].entry) - c = Off(rob[k].entry) - c
    BY <1>6
  <2>2. /\ j \in DoneStores /\ k \in DoneStores /\ j \in Nat /\ k \in Nat
        /\ Off(rob[j].entry) \in Nat /\ Off(rob[k].entry) \in Nat
    BY <1>1, <1>2, <1>3
  <2>3. Off(rob[j].entry) = Off(rob[k].entry)
    BY <2>1, <2>2
  <2>4. ~(j < k) /\ ~(k < j)
    BY <1>3, <2>2, <2>3
  <2> QED BY <2>2, <2>4
<1>7. S \in SUBSET (0 .. m - 1) /\ (\A t \in S : \E j \in R : f[j] = t) /\ f \in [R -> S]
  <2> HIDE DEF f, R, m
  <2> QED BY <1>5 DEF S
<1>8. ASSUME NEW t \in S, NEW u \in 0 .. t PROVE u \in S
  <2>1. PICK k \in R : f[k] = t
    BY <1>7
  <2>2. t = Off(rob[k].entry) - c /\ k \in DoneStores /\ k <= n
    BY <1>2, <2>1
  <2>3. Off(rob[k].entry) \in c .. h - 1
    BY <1>3, <2>2
  <2>4. u + c \in c .. h - 1 /\ u + c <= Off(rob[k].entry)
    BY <2>2, <2>3
  <2>5. PICK j \in DoneStores : Off(rob[j].entry) = u + c
    BY <1>3, <2>4
  <2>6. ~(k < j)
    BY <1>3, <2>2, <2>3, <2>4, <2>5
  <2>7. j <= n
    BY <1>1, <1>2, <2>2, <2>6
  <2>8. j \in R /\ f[j] = u + c - c
    BY <1>2, <2>5, <2>7
  <2>9. u + c - c = u
    BY <2>4
  <2> QED BY <2>8, <2>9
<1> HIDE DEF S, f
<1>9. Cardinality(S) \in 0 .. m /\ S = 0 .. Cardinality(S) - 1
  <2> HIDE DEF m
  <2> QED BY <1>4, <1>7, <1>8, DownClosed
<1>10. Cardinality(S) = Cardinality(R)
  <2>1. f \in Bijection(R, S)
    BY <1>6, <1>7, Fun_IsBij
  <2>2. R \subseteq 1 .. n /\ IsFiniteSet(1 .. n)
    BY FS_Interval DEF RetiringStores
  <2>3. IsFiniteSet(R)
    BY <2>2, FS_Subset
  <2>4. ExistsBijection(R, S)
    BY <2>1 DEF ExistsBijection
  <2> QED BY <2>3, <2>4, FS_Bijection
<1> DEFINE r == Cardinality(R)
<1>11. r \in 0 .. m /\ r \in Nat /\ \A t \in Nat : t \in S <=> t < r
  <2>1. Cardinality(S) = r
    BY <1>10
  <2> HIDE DEF r, m
  <2>2. r \in 0 .. m /\ S = 0 .. r - 1
    BY <1>9, <2>1
  <2> QED BY <1>4, <2>2
<1> HIDE DEF r, m
<1>12. ASSUME NEW j \in DoneStores PROVE j <= n <=> Off(rob[j].entry) < c + r
  <2> DEFINE o == Off(rob[j].entry)
  <2>1. o \in c .. h - 1 /\ o - c \in Nat
    BY <1>3
  <2>2. j \in R => o - c \in S
    <3>1. j \in R => f[j] = o - c
      BY DEF f
    <3> QED BY <1>7, <3>1
  <2>3. o - c \in S => j \in R
    <3>1. SUFFICES ASSUME o - c \in S PROVE j \in R
      OBVIOUS
    <3>2. PICK k \in R : f[k] = o - c
      BY <1>7, <3>1
    <3>3. Off(rob[k].entry) - c = o - c /\ k \in DoneStores
      BY <1>2, <3>2 DEF f
    <3>4. Off(rob[k].entry) = o /\ j \in Nat /\ k \in Nat
      BY <1>1, <1>2, <1>3, <2>1, <3>3
    <3>5. ~(j < k) /\ ~(k < j)
      BY <1>3, <3>3, <3>4
    <3> QED BY <3>4, <3>5
  <2>4. j \in R <=> j <= n
    BY <1>2
  <2>5. o - c \in S <=> o - c < r
    BY <1>11, <2>1
  <2>6. o - c < r <=> o < c + r
    <3> HIDE DEF o
    <3> QED BY <1>11, <2>1
  <2> QED BY <2>2, <2>3, <2>4, <2>5, <2>6
<1>13. Retiring(n) = {i \in Stq : Off(i) \in c .. c + r - 1}
  <2>1. Retiring(n) = {rob[k].entry : k \in R}
    BY DEF Retiring
  <2>2. ASSUME NEW k \in R PROVE rob[k].entry \in Stq /\ Off(rob[k].entry) \in c .. c + r - 1
    <3>1. k \in DoneStores /\ k <= n
      BY <1>2
    <3>2. Off(rob[k].entry) \in c .. h - 1 /\ rob[k].entry \in Stq /\ Off(rob[k].entry) < c + r
      BY <1>3, <1>12, <3>1
    <3> QED BY <1>11, <3>2
  <2>3. ASSUME NEW i \in Stq, Off(i) \in c .. c + r - 1 PROVE \E k \in R : rob[k].entry = i
    <3>1. Off(i) \in c .. h - 1
      BY <1>11, <2>3 DEF m
    <3>2. PICK k \in DoneStores : Off(rob[k].entry) = Off(i)
      BY <1>3, <3>1
    <3>3. Off(rob[k].entry) < c + r
      BY <1>11, <2>3, <3>2
    <3>4. k \in R
      BY <1>2, <1>12, <3>3
    <3>5. rob[k].entry \in Stq /\ Place(rob[k].entry, stq_rd_ptr, STU_DEPTH) = Place(i, stq_rd_ptr, STU_DEPTH)
      BY <1>3, <3>2 DEF Off
    <3>6. rob[k].entry = i
      BY <3>5, Depths, Places DEF Stq
    <3> QED BY <3>4, <3>6
  <2> QED BY <2>1, <2>2, <2>3
<1> QED BY <1>11, <1>12, <1>13 DEF RetiredFacts, r, m


-----------------------------------------------------------------------------
(* The store queue in a cycle: what retires and what is drained.           *)
CommitFacts(c, r, out) ==
  /\ out \in 0 .. 1 /\ out <= c /\ r \in Nat /\ c + r - out \in 0 .. STU_DEPTH - 1
  /\ stq_rd_ptr' \in Stq /\ wr_ptr_commit' = Wrap(stq_rd_ptr' + (c + r - out), STU_DEPTH)
  /\ stq_commit_cnt' = c + r - out
  /\ stq_commit' \in [Stq -> BOOLEAN]
  /\ \A i \in Stq : stq_commit'[i] <=> Off(i)' < c + r - out
  /\ \A i \in Stq : Off(i)' = IF Off(i) < out THEN STU_DEPTH - 1 ELSE Off(i) - out

LEMMA NextCommits ==
  ASSUME NEW c, NEW h, StqShape(c, h), NEW n, NEW r \in 0 .. h - c, RetiredFacts(n, c, r),
         NEW l, NEW cancel \in BOOLEAN, NEW drain \in BOOLEAN, drain => s_mem_req_vld,
         NextStqPtr(l, r, drain, cancel), NextStqFlags(l, Retiring(n), drain, cancel),
         RetiredFit'
  PROVE  CommitFacts(c, r, IF drain THEN 1 ELSE 0)
<1> DEFINE out == IF drain THEN 1 ELSE 0
           d == STU_DEPTH
           rd == stq_rd_ptr
           x == wr_ptr_commit
           rd2 == (rd + out) % d
           x2 == (x + r) % d
<1>1. /\ d \in Nat /\ d > 2 /\ rd \in 0 .. d - 1 /\ h \in 0 .. d /\ c \in 0 .. h
      /\ x = Wrap(rd + c, d) /\ stq_commit_cnt = c
      /\ \A i \in 0 .. d - 1 : stq_commit[i] <=> Place(i, rd, d) < c
  BY Depths DEF StqShape, Stq, Off
<1>2. /\ wr_ptr_commit' = x2 /\ stq_rd_ptr' = rd2
      /\ stq_commit_cnt' = (c + r + d - out) % d
  BY <1>1 DEF NextStqPtr
<1> DEFINE drained == IF drain THEN {rd} ELSE {}
<1>3. stq_commit' = [i \in 0 .. d - 1 |-> i \in Retiring(n) \/ (stq_commit[i] /\ i \notin drained)]
  BY DEF NextStqFlags, Stq
<1>4. out \in 0 .. 1 /\ out <= c
  <2>1. CASE drain
    <3>1. stq_commit[rd]
      BY <2>1 DEF s_mem_req_vld
    <3>2. Place(rd, rd, d) = 0
      BY <1>1 DEF Place
    <3>3. 0 < c
      <4> HIDE DEF d, rd
      <4> QED BY <1>1, <3>1, <3>2
    <3> QED BY <1>1, <2>1, <3>3
  <2>2. CASE ~drain
    BY <1>1, <2>2
  <2> QED BY <2>1, <2>2
<1>5. /\ rd2 \in 0 .. d - 1 /\ x \in 0 .. d - 1
      /\ c + r - out \in 0 .. d /\ x2 = Wrap(rd2 + (c + r - out), d)
      /\ \A i \in 0 .. d - 1 :
           Place(i, rd2, d) = IF Place(i, rd, d) < out THEN d - 1 ELSE Place(i, rd, d) - out
  <2>1. rd2 = (rd + out) % d /\ x2 = (x + r) % d
    OBVIOUS
  <2> HIDE DEF d, rd, x, out, rd2, x2
  <2>2. c \in 0 .. d /\ c + r <= d /\ r \in Nat
    BY <1>1
  <2>3. CircleMoved(d, rd, c, out, r, x, rd2, x2)
    BY <1>1, <1>4, <2>1, <2>2, CircleMoves, Zenon
  <2> QED BY <2>3 DEF CircleMoved
<1>6. ASSUME NEW i \in 0 .. d - 1
      PROVE  stq_commit'[i] <=> Place(i, rd2, d) < c + r - out
  <2> DEFINE p == Place(i, rd, d)
  <2>1. p \in 0 .. d - 1
    BY <1>1, Places
  <2>2. i \in Retiring(n) <=> p \in c .. c + r - 1
    BY DEF RetiredFacts, Off, Stq
  <2>3. i \in drained <=> drain /\ p = 0
    BY <1>1 DEF Place
  <2>4. stq_commit'[i] <=> p \in c .. c + r - 1 \/ (p < c /\ ~(drain /\ p = 0))
    <3>1. stq_commit'[i] <=> (i \in Retiring(n) \/ (stq_commit[i] /\ i \notin drained))
      <4> HIDE DEF drained
      <4> QED BY <1>3
    <3>2. stq_commit[i] <=> p < c
      BY <1>1
    <3> HIDE DEF drained, p
    <3> QED BY <2>2, <2>3, <3>1, <3>2
  <2>5. Place(i, rd2, d) = IF p < out THEN d - 1 ELSE p - out
    BY <1>5
  <2>6. (drain /\ out = 1) \/ (~drain /\ out = 0)
    OBVIOUS
  <2> HIDE DEF p, out, d, rd2
  <2> QED BY <1>1, <1>4, <2>1, <2>4, <2>5, <2>6
<1>7. stq_commit' \in [0 .. d - 1 -> BOOLEAN]
  <2> HIDE DEF drained, d
  <2> QED BY <1>3
<1>8. c + r - out \in 0 .. d - 1
  <2> DEFINE S == {i \in 0 .. d - 1 : stq_commit'[i]}
             cc == c + r - out
  <2>1. Cardinality(S) < d
    BY DEF RetiredFit, Committed, Stq
  <2>2. cc \in 0 .. d /\ rd2 \in 0 .. d - 1 /\ d \in Nat
    BY <1>1, <1>5
  <2>3. \A i \in 0 .. d - 1 : i \in S <=> Place(i, rd2, d) < cc
    BY <1>6
  <2>4. S \in SUBSET (0 .. d - 1)
    OBVIOUS
  <2> HIDE DEF S, cc, d, rd2
  <2>5. Cardinality(S) = cc
    BY <2>2, <2>3, <2>4, CircleSize, Zenon
  <2> QED BY <2>1, <2>2, <2>5 DEF cc
<1>9. (c + r + d - out) % d = c + r - out
  <2> DEFINE y == c + r + d - out
             z == c + r - out
  <2> HIDE DEF d, out
  <2>1. y = z + d /\ z \in 0 .. d - 1
    BY <1>1, <1>4, <1>8
  <2> HIDE DEF y, z
  <2>2. y \in 0 .. 2 * d - 1 /\ d \in Nat \ {0} /\ Wrap(y, d) = z
    BY <1>1, <2>1 DEF Wrap
  <2>3. y % d = z
    BY <2>2, WrapIsMod
  <2> QED BY <2>3 DEF y, z
<1>10. r \in Nat
  BY <1>1
<1> HIDE DEF rd2, x2, out
<1> QED BY <1>2, <1>4, <1>5, <1>6, <1>7, <1>8, <1>9, <1>10 DEF CommitFacts, Off, Stq, out


LEMMA NextStqShape ==
  ASSUME BufOK, NEW c, NEW h, StqShape(c, h), NEW n, NEW r \in 0 .. h - c, RetiredFacts(n, c, r),
         NEW edge \in BOOLEAN, NEW cancel \in BOOLEAN, cancel <=> edge \/ Cancelling,
         NEW drain \in BOOLEAN, drain => s_mem_req_vld,
         NEW l, l = StoresTaken, NEW loads, NEW leaves,
         NextCredits(l, loads, leaves, drain, cancel, stq_commit_cnt),
         NextStqPtr(l, r, drain, cancel), NextStqFlags(l, Retiring(n), drain, cancel),
         Cancelling => l = 0 /\ r = 0 /\ ~edge,
         Cancelling' <=> edge,
         RetiredFit',
         NEW out, out = IF drain THEN 1 ELSE 0,
         NEW c2, c2 = c + r - out, NEW h2, h2 = IF cancel THEN c2 ELSE h + l - out
  PROVE  StqShape(c2, h2)' /\ CommitFacts(c, r, out) /\ h + l <= STU_DEPTH
<1> DEFINE d == STU_DEPTH
           rd == stq_rd_ptr
           x == stq_wr_ptr
           cr == stu_credit_cnt
<1>1. /\ d \in Nat /\ d > 2 /\ rd \in 0 .. d - 1 /\ h \in 0 .. d /\ c \in 0 .. h
      /\ x \in 0 .. d - 1 /\ wr_ptr_commit = Wrap(rd + c, d) /\ stq_commit_cnt = c
      /\ cr \in 0 .. d
      /\ \A i \in 0 .. d - 1 : /\ stq_commit[i] <=> Place(i, rd, d) < c
                               /\ stq_en[i] => Place(i, rd, d) < h
  BY Depths DEF StqShape, Stq, Off
<1>2. /\ Cancelling => h = c
      /\ ~Cancelling => /\ \A i \in 0 .. d - 1 : Place(i, rd, d) \in c .. h - 1 => stq_en[i]
                        /\ x = Wrap(rd + h, d)
                        /\ d - cr - h \in {0, 1}
  BY DEF StqShape, Stq, Off
<1>3. l \in 0 .. 2 /\ (l > 0 => cr > 1)
  BY TakenBounds
<1>4. h + l <= d
  <2>1. CASE Cancelling
    <3>1. l = 0
      BY <2>1
    <3> HIDE DEF d
    <3> QED BY <1>1, <3>1
  <2>2. CASE ~Cancelling
    <3>1. d - cr - h \in {0, 1}
      BY <1>2, <2>2
    <3> HIDE DEF d, cr
    <3> QED BY <1>1, <1>3, <3>1
  <2> QED BY <2>1, <2>2
<1>5. CommitFacts(c, r, out)
  BY NextCommits
<1>6. /\ stu_credit_cnt' = IF cancel THEN d - c ELSE cr + out - l
      /\ stq_wr_ptr' = IF cancel THEN Wrap(rd + c, d) ELSE (x + l) % d
      /\ stq_rd_ptr' = (rd + out) % d
  BY <1>1 DEF NextCredits, NextStqPtr
<1> DEFINE written == {StqEntry(k) : k \in 1 .. l}
           drained == IF drain THEN {rd} ELSE {}
<1>7. stq_en' = [i \in 0 .. d - 1 |-> /\ cancel => stq_commit[i]
                                      /\ i \in written \/ (stq_en[i] /\ i \notin drained)]
  BY DEF NextStqFlags, Stq
<1>8. stq_en' \in [0 .. d - 1 -> BOOLEAN]
  <2> HIDE DEF written, drained, d
  <2> QED BY <1>7
<1>9. /\ out \in 0 .. 1 /\ out <= c /\ c2 \in 0 .. d - 1
      /\ stq_rd_ptr' \in 0 .. d - 1 /\ wr_ptr_commit' = Wrap(stq_rd_ptr' + c2, d)
      /\ stq_commit_cnt' = c2 /\ stq_commit' \in [0 .. d - 1 -> BOOLEAN]
      /\ \A i \in 0 .. d - 1 : stq_commit'[i] <=> Place(i, stq_rd_ptr', d) < c2
      /\ \A i \in 0 .. d - 1 : Place(i, stq_rd_ptr', d) =
                                IF Place(i, rd, d) < out THEN d - 1 ELSE Place(i, rd, d) - out
  BY <1>5 DEF CommitFacts, Off, Stq
<1>10. ASSUME NEW i \in 0 .. d - 1
       PROVE  /\ Place(i, rd, d) \in 0 .. d - 1
              /\ i \in drained <=> drain /\ Place(i, rd, d) = 0
  BY <1>1 DEF Place
<1>11. CASE Cancelling
  <2>1. l = 0 /\ r = 0 /\ ~edge /\ cancel /\ h = c /\ ~Cancelling' /\ h2 = c2 /\ c2 = c - out
    <3> HIDE DEF d
    <3> QED BY <1>1, <1>2, <1>11
  <2>2. /\ stu_credit_cnt' = d - c /\ stq_wr_ptr' = Wrap(rd + c, d)
    BY <1>6, <2>1
  <2>3. Wrap(rd + c, d) = Wrap(stq_rd_ptr' + c2, d) /\ Wrap(rd + c, d) \in 0 .. d - 1
    <3>1. stq_rd_ptr' = Wrap(rd + out, d)
      <4>1. rd + out \in 0 .. 2 * d - 1 /\ d \in Nat \ {0} /\ stq_rd_ptr' = (rd + out) % d
        <5> HIDE DEF d, rd
        <5> QED BY <1>1, <1>6, <1>9
      <4> HIDE DEF d, rd
      <4> QED BY <4>1, WrapIsMod, Zenon
    <3> HIDE DEF d, rd
    <3> QED BY <1>1, <1>9, <2>1, <3>1 DEF Wrap
  <2>4. d - (d - c) - c2 \in {0, 1} /\ d - c \in 0 .. d
    <3>1. d - (d - c) - c2 = out /\ d - c \in 0 .. d
      <4> HIDE DEF d
      <4> QED BY <1>1, <1>9, <2>1
    <3> QED BY <1>9, <3>1
  <2>5. ASSUME NEW i \in 0 .. d - 1, stq_en'[i] PROVE Place(i, stq_rd_ptr', d) < c2
    <3> DEFINE p == Place(i, rd, d)
    <3>1. written = {} /\ stq_en[i] /\ i \notin drained
      <4>1. written = {}
        <5>1. 1 .. l = {}
          BY <2>1
        <5> QED BY <5>1
      <4> HIDE DEF written, drained, d
      <4> QED BY <1>7, <2>5, <4>1
    <3>2. p < c /\ ~(drain /\ p = 0) /\ p \in 0 .. d - 1
      BY <1>1, <1>10, <2>1, <3>1
    <3>3. Place(i, stq_rd_ptr', d) = IF p < out THEN d - 1 ELSE p - out
      BY <1>9
    <3> HIDE DEF d, p
    <3> QED BY <1>1, <1>9, <2>1, <3>2, <3>3
  <2>6. c2 \in 0 .. c2 /\ c2 \in 0 .. d /\ \A o : o \notin c2 .. c2 - 1
    <3> HIDE DEF d
    <3> QED BY <1>1, <1>9
  <2>7. c2 \in 0 .. h2 /\ h2 \in 0 .. STU_DEPTH /\ stu_credit_cnt' \in 0 .. STU_DEPTH
        /\ stq_wr_ptr' \in Stq /\ stq_en' \in [Stq -> BOOLEAN]
    BY <1>8, <1>9, <2>1, <2>2, <2>3, <2>4, <2>5, <2>6 DEF Stq
  <2>8. \A i \in Stq : (stq_commit'[i] <=> Off(i)' < c2) /\ (stq_en'[i] => Off(i)' < h2)
    BY <1>8, <1>9, <2>1, <2>2, <2>3, <2>4, <2>5, <2>6 DEF Stq, Off
  <2>9. ~Cancelling' =>
            /\ \A i \in Stq : Off(i)' \in c2 .. h2 - 1 => stq_en'[i]
            /\ stq_wr_ptr' = Wrap(stq_rd_ptr' + h2, STU_DEPTH)
            /\ STU_DEPTH - stu_credit_cnt' - h2 \in {0, 1}
    BY <1>8, <1>9, <2>1, <2>2, <2>3, <2>4, <2>5, <2>6 DEF Stq, Off
  <2>10. /\ stq_rd_ptr' \in Stq /\ wr_ptr_commit' = Wrap(stq_rd_ptr' + c2, STU_DEPTH)
        /\ stq_commit_cnt' = c2 /\ stq_commit' \in [Stq -> BOOLEAN]
    BY <1>9 DEF Stq
  <2> HIDE DEF d, rd, x, cr, written, drained
  <2>11. StqShape(c2, h2)'
    BY <2>1, <2>7, <2>8, <2>9, <2>10 DEF StqShape
  <2> QED BY <1>4, <1>5, <2>11 DEF d
<1>12. CASE ~Cancelling /\ edge
  <2>1. cancel /\ Cancelling' /\ h2 = c2
    BY <1>12
  <2>2. /\ stu_credit_cnt' = d - c /\ stq_wr_ptr' = Wrap(rd + c, d)
    BY <1>6, <2>1
  <2>3. Wrap(rd + c, d) \in 0 .. d - 1 /\ d - c \in 0 .. d
    <3> HIDE DEF d, rd
    <3> QED BY <1>1 DEF Wrap
  <2>4. ASSUME NEW i \in 0 .. d - 1, stq_en'[i] PROVE Place(i, stq_rd_ptr', d) < c2
    <3> DEFINE p == Place(i, rd, d)
    <3>1. stq_commit[i] /\ (i \in written \/ i \notin drained)
      <4> HIDE DEF written, drained, d
      <4> QED BY <1>7, <2>1, <2>4
    <3>2. p < c /\ p \in 0 .. d - 1
      BY <1>1, <1>10, <3>1
    <3>3. i \notin written
      <4>1. x = Wrap(rd + h, d)
        BY <1>2, <1>12
      <4>2. SUFFICES ASSUME NEW k \in 1 .. l, i = StqEntry(k) PROVE FALSE
        OBVIOUS
      <4>3. i = (x + k - 1) % d
        BY <4>2 DEF StqEntry
      <4>4. rd + 0 \in 0 .. 2 * d - 1 /\ d \in Nat \ {0} /\ rd + 0 = rd
        <5> HIDE DEF d, rd
        <5> QED BY <1>1
      <4> DEFINE z == (x + l) % d
      <4>5. CircleMoved(d, rd, h, 0, l, x, (rd + 0) % d, z)
        <5>1. 0 \in 0 .. 1 /\ 0 <= h /\ l \in Nat
          <6> HIDE DEF d, rd
          <6> QED BY <1>1, <1>3
        <5>2. z = (x + l) % d
          OBVIOUS
        <5> HIDE DEF d, rd, x, z
        <5> QED BY <1>1, <1>4, <4>1, <5>1, <5>2, CircleMoves, Zenon
      <4>6. p = h + k - 1
        BY <4>3, <4>5 DEF CircleMoved
      <4> HIDE DEF d, p
      <4> QED BY <1>1, <1>3, <3>2, <4>6
    <3>4. ~(drain /\ p = 0)
      BY <1>10, <3>1, <3>3
    <3>5. Place(i, stq_rd_ptr', d) = IF p < out THEN d - 1 ELSE p - out
      BY <1>9
    <3> HIDE DEF d, p
    <3> QED BY <1>1, <1>9, <3>2, <3>4, <3>5
  <2>6. c2 \in 0 .. c2 /\ c2 \in 0 .. d
    <3> HIDE DEF d
    <3> QED BY <1>1, <1>9
  <2>7. c2 \in 0 .. h2 /\ h2 \in 0 .. STU_DEPTH /\ stu_credit_cnt' \in 0 .. STU_DEPTH
        /\ stq_wr_ptr' \in Stq /\ stq_en' \in [Stq -> BOOLEAN]
    BY <1>8, <1>9, <2>1, <2>2, <2>3, <2>4, <2>6 DEF Stq
  <2>8. \A i \in Stq : (stq_commit'[i] <=> Off(i)' < c2) /\ (stq_en'[i] => Off(i)' < h2)
    BY <1>8, <1>9, <2>1, <2>2, <2>3, <2>4, <2>6 DEF Stq, Off
  <2>9. ~Cancelling' =>
            /\ \A i \in Stq : Off(i)' \in c2 .. h2 - 1 => stq_en'[i]
            /\ stq_wr_ptr' = Wrap(stq_rd_ptr' + h2, STU_DEPTH)
            /\ STU_DEPTH - stu_credit_cnt' - h2 \in {0, 1}
    BY <1>8, <1>9, <2>1, <2>2, <2>3, <2>4, <2>6 DEF Stq, Off
  <2>10. /\ stq_rd_ptr' \in Stq /\ wr_ptr_commit' = Wrap(stq_rd_ptr' + c2, STU_DEPTH)
        /\ stq_commit_cnt' = c2 /\ stq_commit' \in [Stq -> BOOLEAN]
    BY <1>9 DEF Stq
  <2> HIDE DEF d, rd, x, cr, written, drained
  <2>11. StqShape(c2, h2)'
    BY <2>1, <2>7, <2>8, <2>9, <2>10 DEF StqShape
  <2> QED BY <1>4, <1>5, <2>11 DEF d
<1>13. CASE ~Cancelling /\ ~edge
  <2> DEFINE x2 == (x + l) % d
             rd2 == stq_rd_ptr'
  <2>1. /\ ~cancel /\ ~Cancelling' /\ h2 = h + l - out
        /\ stu_credit_cnt' = cr + out - l /\ stq_wr_ptr' = x2
    BY <1>6, <1>13
  <2>2. CircleMoved(d, rd, h, out, l, x, rd2, x2)
    <3>1. x = Wrap(rd + h, d) /\ l \in Nat /\ out <= h /\ x2 = (x + l) % d /\ rd2 = (rd + out) % d
      <4>1. x = Wrap(rd + h, d)
        BY <1>2, <1>13
      <4>2. l \in Nat /\ out <= h
        <5> HIDE DEF d, rd
        <5> QED BY <1>1, <1>3, <1>9
      <4> QED BY <1>6, <4>1, <4>2
    <3> HIDE DEF d, rd, x, x2, rd2
    <3> QED BY <1>1, <1>4, <1>9, <3>1, CircleMoves, Zenon
  <2>3. /\ x \in 0 .. d - 1 /\ h2 \in 0 .. d /\ x2 = Wrap(rd2 + h2, d)
        /\ \A k \in 1 .. l : StqEntry(k) \in 0 .. d - 1 /\ Place(StqEntry(k), rd, d) = h + k - 1
    <3> HIDE DEF d, rd, x2, rd2
    <3> QED BY <2>1, <2>2 DEF CircleMoved, StqEntry, d
  <2>4. x2 \in 0 .. d - 1
    <3>1. rd2 \in 0 .. d - 1
      BY <1>9
    <3> HIDE DEF d, rd, x2, rd2
    <3> QED BY <1>1, <2>3, <3>1 DEF Wrap
  <2>5. d - (cr + out - l) - h2 \in {0, 1} /\ cr + out - l \in 0 .. d /\ c2 \in 0 .. h2
    <3>1. d - cr - h \in {0, 1}
      BY <1>2, <1>13
    <3>2. c + r <= h
      BY <1>1
    <3> HIDE DEF d, cr
    <3> QED BY <1>1, <1>3, <1>4, <1>9, <2>1, <3>1, <3>2
  <2>6. ASSUME NEW i \in 0 .. d - 1
        PROVE  /\ stq_en'[i] => Place(i, rd2, d) < h2
               /\ Place(i, rd2, d) \in c2 .. h2 - 1 => stq_en'[i]
    <3> DEFINE p == Place(i, rd, d)
    <3>1. i \in written <=> p \in h .. h + l - 1
      <4>1. ASSUME NEW k \in 1 .. l, i = StqEntry(k) PROVE p \in h .. h + l - 1
        <5>1. p = h + k - 1
          BY <2>3, <4>1
        <5> HIDE DEF p, d
        <5> QED BY <1>1, <1>3, <5>1
      <4>2. ASSUME p \in h .. h + l - 1 PROVE i \in written
        <5> DEFINE k == p - h + 1
        <5>1. k \in 1 .. l /\ h + k - 1 = p
          <6> HIDE DEF p, d
          <6> QED BY <1>1, <1>3, <4>2
        <5>2. /\ StqEntry(k) \in 0 .. d - 1 /\ Place(StqEntry(k), rd, d) = p
          BY <2>3, <5>1
        <5>3. StqEntry(k) = i
          BY <1>1, <5>2, Places
        <5> QED BY <5>1, <5>3
      <4> QED BY <4>1, <4>2
    <3>2. stq_en'[i] <=> p \in h .. h + l - 1 \/ (stq_en[i] /\ ~(drain /\ p = 0))
      <4>1. stq_en'[i] <=> i \in written \/ (stq_en[i] /\ i \notin drained)
        <5> HIDE DEF written, drained, d
        <5> QED BY <1>7, <2>1
      <4> HIDE DEF written, drained, d, p
      <4> QED BY <1>10, <3>1, <4>1 DEF p
    <3>3. (stq_en[i] => p < h) /\ (p \in c .. h - 1 => stq_en[i]) /\ p \in 0 .. d - 1
      BY <1>1, <1>2, <1>10, <1>13
    <3>4. Place(i, rd2, d) = IF p < out THEN d - 1 ELSE p - out
      BY <1>9
    <3>5. r \in Nat
      BY <1>1
    <3> HIDE DEF p, d, rd2
    <3> QED BY <1>1, <1>3, <1>4, <1>9, <2>1, <3>2, <3>3, <3>4, <3>5
  <2>7. c2 \in 0 .. h2 /\ h2 \in 0 .. STU_DEPTH /\ stu_credit_cnt' \in 0 .. STU_DEPTH
        /\ stq_wr_ptr' \in Stq /\ stq_en' \in [Stq -> BOOLEAN]
    BY <1>8, <1>9, <2>1, <2>3, <2>4, <2>5, <2>6 DEF Stq
  <2>8. \A i \in Stq : (stq_commit'[i] <=> Off(i)' < c2) /\ (stq_en'[i] => Off(i)' < h2)
    BY <1>8, <1>9, <2>1, <2>3, <2>4, <2>5, <2>6 DEF Stq, Off
  <2>9. ~Cancelling' =>
            /\ \A i \in Stq : Off(i)' \in c2 .. h2 - 1 => stq_en'[i]
            /\ stq_wr_ptr' = Wrap(stq_rd_ptr' + h2, STU_DEPTH)
            /\ STU_DEPTH - stu_credit_cnt' - h2 \in {0, 1}
    BY <1>8, <1>9, <2>1, <2>3, <2>4, <2>5, <2>6 DEF Stq, Off
  <2>10. /\ stq_rd_ptr' \in Stq /\ wr_ptr_commit' = Wrap(stq_rd_ptr' + c2, STU_DEPTH)
        /\ stq_commit_cnt' = c2 /\ stq_commit' \in [Stq -> BOOLEAN]
    BY <1>9 DEF Stq
  <2> HIDE DEF d, rd, x, cr, written, drained
  <2>11. StqShape(c2, h2)'
    BY <2>1, <2>7, <2>8, <2>9, <2>10 DEF StqShape
  <2> QED BY <1>4, <1>5, <2>11 DEF d
<1> QED BY <1>4, <1>5, <1>11, <1>12, <1>13


-----------------------------------------------------------------------------
(* The operations in flight have different ids.                            *)
LEMMA OpsDiffer ==
  ASSUME RobShape, workload \in Workloads,
         NEW j \in 1 .. Len(rob), NEW k \in 1 .. Len(rob), rob[j].op.id = rob[k].op.id
  PROVE  j = k
<1> DEFINE f == workload.in_flight
           n == Len(rob)
           b == rob[1].op.id
<1>1. f \in Nat \ {0} /\ n \in Nat /\ n <= f
  BY LsuAssumption, SeqType DEF RobShape
<1>2. b \in 0 .. f - 1
  <2>1. rob # <<>>
    BY <1>1, SeqType DEF RobShape
  <2> QED BY <2>1 DEF RobShape
<1>3. Wrap(b + j - 1, f) = Wrap(b + k - 1, f)
  BY DEF RobShape
<1> HIDE DEF f, n, b
<1>4. j \in 1 .. n /\ k \in 1 .. n
  BY DEF n
<1> QED BY <1>1, <1>2, <1>3, <1>4 DEF Wrap

(* Which operations of rob are reported.                                   *)
StoreAt(j) == \E k \in 1 .. StoresTaken : j = In + Pos(FALSE, k)
LoadAt(j) ==
  \/ \E k \in 1 .. 2 : v_ldq_ack_flag(k) /\ j = In + Pos(TRUE, k)
  \/ j \in 1 .. In /\ ~rob[j].done /\ answer # NONE /\ rob[j].op = ldq_pld[answer.entry]

(* The operations of an offer are in rob.                                  *)
LEMMA OfferInRob ==
  ASSUME BufOK, RobShape, NEW s, NEW ld \in BOOLEAN, OfferFacts(s, ld), NEW k \in 1 .. Len(s)
  PROVE  /\ In \in Nat /\ In + Pos(ld, k) \in 1 .. Len(rob) /\ In + Pos(ld, k) > In
         /\ rob[In + Pos(ld, k)].op = s[k] /\ s[k].ld = ld
         /\ ~rob[In + Pos(ld, k)].done
<1> DEFINE p == Pos(ld, k)
           n == Len(rob)
           b == Len(lsu_buf)
<1>1. p \in 1 .. 2 /\ p <= b /\ s[k] = lsu_buf[p] /\ lsu_buf[p].ld = ld
  BY DEF OfferFacts
<1>2. n \in Nat /\ b \in Nat
  BY SeqType DEF BufOK, RobShape
<1>3. In = n - b /\ In >= 0 /\ \A i \in 1 .. b : rob[In + i].op = lsu_buf[i] /\ ~rob[In + i].done
  BY DEF RobShape, In
<1> HIDE DEF p, n, b
<1>4. In \in Nat /\ In + p \in 1 .. n /\ In + p > In /\ p \in 1 .. b
  BY <1>1, <1>2, <1>3
<1> QED BY <1>1, <1>3, <1>4 DEF p, n

LEMMA StoreReportsAre ==
  ASSUME BufOK, RobShape, workload \in Workloads, NEW j \in 1 .. Len(rob)
  PROVE  \A r : (r \in StoreReports /\ r.op.id = rob[j].op.id) <=>
           \E k \in 1 .. StoresTaken : j = In + Pos(FALSE, k) /\ r = [op |-> StuOffer[k], entry |-> StqEntry(k)]
<1>1. ASSUME NEW k \in 1 .. StoresTaken
      PROVE  In + Pos(FALSE, k) \in 1 .. Len(rob) /\ rob[In + Pos(FALSE, k)].op = StuOffer[k]
  <2>1. OfferFacts(StuOffer, FALSE) /\ FALSE \in BOOLEAN
    BY OffersAre
  <2>2. k \in 1 .. Len(StuOffer)
    BY TakenBounds
  <2> QED BY <2>1, <2>2, OfferInRob, Zenon
<1>2. ASSUME NEW r, r \in StoreReports, r.op.id = rob[j].op.id
      PROVE  \E k \in 1 .. StoresTaken : j = In + Pos(FALSE, k) /\ r = [op |-> StuOffer[k], entry |-> StqEntry(k)]
  <2>1. PICK k \in 1 .. StoresTaken : r = [op |-> StuOffer[k], entry |-> StqEntry(k)]
    BY <1>2 DEF StoreReports
  <2>2. rob[In + Pos(FALSE, k)].op.id = rob[j].op.id
    BY <1>1, <1>2, <2>1
  <2>3. j = In + Pos(FALSE, k)
    BY <1>1, <2>2, OpsDiffer
  <2> QED BY <2>1, <2>3
<1>3. ASSUME NEW r, NEW k \in 1 .. StoresTaken, j = In + Pos(FALSE, k), r = [op |-> StuOffer[k], entry |-> StqEntry(k)]
      PROVE  r \in StoreReports /\ r.op.id = rob[j].op.id
  BY <1>1, <1>3 DEF StoreReports
<1> QED BY <1>2, <1>3

LEMMA AnswerAsks ==
  ASSUME LdqFlags, NEW g, LdqShape(g), answer # NONE, ~Cancelling
  PROVE  answer.entry \in Ldq /\ Asks(answer.entry) /\ branch_ack_vld(FALSE) /\ ~stq_ack[answer.entry]
<1>1. answer.entry \in Ldq /\ answer.branch = req_branch_id
  BY DEF LdqFlags
<1>2. mem_req[answer.entry] /\ ~mem_ack[answer.entry]
  BY <1>1 DEF LdqFlags
<1>3. ldq_en[answer.entry] /\ ~stq_ack[answer.entry]
  BY <1>1, <1>2 DEF LdqFlags
<1> QED BY <1>1, <1>2, <1>3 DEF Asks, branch_ack_vld, req_branch_id_nxt

LEMMA LoadReportsAre ==
  ASSUME BufOK, RobShape, workload \in Workloads, LdqFlags, RobLoads, ~Cancelling,
         NEW g, LdqShape(g), NEW j \in 1 .. Len(rob)
  PROVE  rob[j].op.id \in {r.op.id : r \in LoadReports(FALSE)} <=> LoadAt(j)
<1> DEFINE flagged == {[op |-> LduOffer[k], data |-> Met(k).data] : k \in {i \in 1 .. 2 : v_ldq_ack_flag(i)}}
           acked == IF branch_ack_vld(FALSE) /\ ~stq_ack[answer.entry]
                    THEN {[op |-> ldq_pld[answer.entry], data |-> answer.data]} ELSE {}
<1>1. LoadReports(FALSE) = flagged \cup acked
  BY DEF LoadReports
<1>2. ASSUME NEW k \in 1 .. 2, v_ldq_ack_flag(k)
      PROVE  In + Pos(TRUE, k) \in 1 .. Len(rob) /\ rob[In + Pos(TRUE, k)].op = LduOffer[k]
  <2>1. OfferFacts(LduOffer, TRUE) /\ TRUE \in BOOLEAN
    BY OffersAre
  <2>2. k <= Len(LduOffer) /\ Len(LduOffer) \in 0 .. 2
    BY <1>2, TakenBounds DEF v_ldq_ack_flag
  <2>3. k \in 1 .. Len(LduOffer)
    BY <2>2
  <2> QED BY <2>1, <2>3, OfferInRob, Zenon
<1>3. ASSUME NEW r \in LoadReports(FALSE), r.op.id = rob[j].op.id PROVE LoadAt(j)
  <2>1. CASE r \in flagged
    <3>1. PICK k \in 1 .. 2 : v_ldq_ack_flag(k) /\ r = [op |-> LduOffer[k], data |-> Met(k).data]
      BY <2>1
    <3>2. In + Pos(TRUE, k) \in 1 .. Len(rob) /\ rob[In + Pos(TRUE, k)].op.id = rob[j].op.id
      BY <1>2, <1>3, <3>1
    <3>3. j = In + Pos(TRUE, k)
      BY <3>2, OpsDiffer
    <3> QED BY <3>1, <3>3 DEF LoadAt
  <2>2. CASE r \in acked
    <3>1. branch_ack_vld(FALSE) /\ r.op = ldq_pld[answer.entry]
      <4>1. branch_ack_vld(FALSE) /\ ~stq_ack[answer.entry]
        BY <2>2
      <4>2. r = [op |-> ldq_pld[answer.entry], data |-> answer.data]
        BY <2>2, <4>1
      <4> QED BY <4>1, <4>2
    <3>2. answer # NONE /\ answer.entry \in Ldq /\ Asks(answer.entry)
      BY <3>1, AnswerAsks DEF branch_ack_vld
    <3>3. PICK i \in 1 .. In : ~rob[i].done /\ rob[i].op = ldq_pld[answer.entry]
      BY <3>2 DEF RobLoads
    <3>4. i \in 1 .. Len(rob) /\ rob[i].op.id = rob[j].op.id
      <4>1. Len(rob) \in Nat /\ Len(lsu_buf) \in Nat
        BY SeqType DEF RobShape, BufOK
      <4>2. i \in 1 .. Len(rob)
        BY <4>1 DEF In
      <4> QED BY <1>3, <3>1, <3>3, <4>2
    <3>5. i = j
      BY <3>4, OpsDiffer
    <3> QED BY <3>2, <3>3, <3>5 DEF LoadAt
  <2> QED BY <1>1, <2>1, <2>2
<1>4. ASSUME LoadAt(j) PROVE \E r \in LoadReports(FALSE) : r.op.id = rob[j].op.id
  <2>1. CASE \E k \in 1 .. 2 : v_ldq_ack_flag(k) /\ j = In + Pos(TRUE, k)
    <3>1. PICK k \in 1 .. 2 : v_ldq_ack_flag(k) /\ j = In + Pos(TRUE, k)
      BY <2>1
    <3> DEFINE r == [op |-> LduOffer[k], data |-> Met(k).data]
    <3>2. r \in flagged /\ r.op = LduOffer[k]
      BY <3>1
    <3>3. rob[j].op = LduOffer[k]
      BY <1>2, <3>1
    <3> QED BY <1>1, <3>2, <3>3
  <2>2. CASE answer # NONE /\ rob[j].op = ldq_pld[answer.entry]
    <3>1. branch_ack_vld(FALSE) /\ ~stq_ack[answer.entry]
      BY <2>2, AnswerAsks
    <3> DEFINE r == [op |-> ldq_pld[answer.entry], data |-> answer.data]
    <3>2. r \in acked /\ r.op = ldq_pld[answer.entry]
      BY <3>1
    <3> QED BY <1>1, <2>2, <3>2
  <2> QED BY <1>4, <2>1, <2>2 DEF LoadAt
<1> QED BY <1>3, <1>4


LEMMA PosOrder ==
  ASSUME BufOK
  PROVE  /\ \A j, k \in 1 .. StoresTaken : j < k => Pos(FALSE, j) < Pos(FALSE, k)
         /\ \A j, k \in 1 .. Len(LduOffer) : j < k => Pos(TRUE, j) < Pos(TRUE, k)
         /\ \A j \in 1 .. StoresTaken : Pos(FALSE, j) \in 1 .. 2
         /\ \A j \in 1 .. Len(LduOffer) : Pos(TRUE, j) \in 1 .. 2
<1>1. /\ Len(StuOffer) = 0 \/ Len(StuOffer) = Num(FALSE)
      /\ Len(LduOffer) = 0 \/ Len(LduOffer) = Num(TRUE)
  BY OffersAre, Zenon
<1>2. Len(StuOffer) \in 0 .. 2 /\ Len(LduOffer) \in 0 .. 2 /\ StoresTaken \in 0 .. Len(StuOffer)
  BY TakenBounds
<1> DEFINE s == StoresTaken
           o == Len(StuOffer)
           l == Len(LduOffer)
<1>3. ASSUME NEW ld \in BOOLEAN, NEW m \in 0 .. 2, m = 0 \/ m = Num(ld), NEW j \in 1 .. m, NEW k \in 1 .. m
      PROVE  Pos(ld, j) \in 1 .. 2 /\ (j < k => Pos(ld, j) < Pos(ld, k))
  <2>1. m = 2 => First(ld)
    BY <1>3 DEF Num
  <2>2. (First(ld) => Pos(ld, j) = j /\ Pos(ld, k) = k) /\ (~First(ld) => Pos(ld, j) = IF j = 1 THEN 2 ELSE j)
    BY DEF Pos
  <2> QED BY <2>1, <2>2
<1>4. ASSUME NEW j \in 1 .. s, NEW k \in 1 .. s PROVE j \in 1 .. o /\ k \in 1 .. o
  <2> HIDE DEF s, o
  <2> QED BY <1>2 DEF s, o
<1> QED BY <1>1, <1>2, <1>3, <1>4, Zenon

-----------------------------------------------------------------------------
(* rob in a cycle.                                                         *)
JoinFacts(r, s, t) ==
  /\ IsSeq(r) /\ Len(r) = Len(s) + Len(t)
  /\ \A k \in 1 .. Len(s) : r[k] = s[k]
  /\ \A k \in 1 .. Len(t) : r[Len(s) + k] = t[k]

LEMMA Joined ==
  ASSUME NEW s, IsSeq(s), NEW t, IsSeq(t), NEW r, r = s \o t
  PROVE  JoinFacts(r, s, t)
<1> DEFINE n == Len(s)
           l == Len(t)
           X == {s[k] : k \in 1 .. n} \cup {t[k] : k \in 1 .. l}
<1>1. n \in Nat /\ l \in Nat /\ s \in Seq(X) /\ t \in Seq(X)
  <2>1. n \in Nat /\ l \in Nat
    BY SeqType
  <2>2. /\ s \in Seq({s[k] : k \in 1 .. n}) /\ {s[k] : k \in 1 .. n} \subseteq X
        /\ t \in Seq({t[k] : k \in 1 .. l}) /\ {t[k] : k \in 1 .. l} \subseteq X
    BY DEF IsSeq
  <2> HIDE DEF X
  <2> QED BY <2>1, <2>2, SeqMonotonic
<1> HIDE DEF X
<1>2. /\ r \in Seq(X) /\ Len(r) = n + l
      /\ \A k \in 1 .. n + l : r[k] = IF k <= n THEN s[k] ELSE t[k - n]
  BY <1>1, ConcatProperties
<1>3. IsSeq(r)
  <2>1. n + l \in Nat /\ DOMAIN r = 1 .. n + l /\ r \in [1 .. n + l -> X]
    BY <1>1, <1>2, LenProperties
  <2>2. r = [k \in 1 .. n + l |-> r[k]]
    BY <2>1
  <2> QED BY <2>1, <2>2, SeqIntro
<1>4. ASSUME NEW k \in 1 .. n PROVE r[k] = s[k]
  BY <1>1, <1>2
<1>5. ASSUME NEW k \in 1 .. l PROVE r[n + k] = t[k]
  <2>1. n + k \in 1 .. n + l /\ ~(n + k <= n) /\ (n + k) - n = k
    BY <1>1
  <2> QED BY <1>2, <2>1
<1> QED BY <1>2, <1>3, <1>4, <1>5 DEF JoinFacts

Moved(j, n) ==
  /\ rob'[j] = [op |-> rob'[j].op, done |-> rob'[j].done, entry |-> rob'[j].entry]
  /\ rob'[j].op = rob[n + j].op /\ rob'[j].done \in BOOLEAN
  /\ rob'[j].done <=> rob[n + j].done \/ StoreAt(n + j) \/ LoadAt(n + j)
  /\ ~StoreAt(n + j) => rob'[j].entry = rob[n + j].entry
  /\ \A k \in 1 .. StoresTaken : n + j = In + Pos(FALSE, k) => rob'[j].entry = StqEntry(k)

LEMMA NextRobIs ==
  ASSUME BufOK, RobShape, workload \in Workloads, LdqFlags, RobLoads, ~Cancelling,
         NEW g, LdqShape(g), NEW new, IsSeq(new), NEW n \in Nat, LegalRetire(n),
         NextRob(new, n, FALSE, FALSE)
  PROVE  /\ n <= In /\ IsSeq(rob') /\ Len(rob') = Len(rob) - n + Len(new)
         /\ \A j \in 1 .. Len(rob) - n : Moved(j, n)
         /\ \A k \in 1 .. Len(new) :
              rob'[Len(rob) - n + k] = [op |-> new[k], done |-> FALSE, entry |-> NONE]
<1> DEFINE ids == {r.op.id : r \in LoadReports(FALSE)}
           mark(e) == Reported(e, StoreReports, ids)
           L == Len(rob)
           b == Len(lsu_buf)
           old == [k \in 1 .. L - n |-> mark(rob[n + k])]
           added == [k \in 1 .. Len(new) |-> [op |-> new[k], done |-> FALSE, entry |-> NONE]]
<1>1. L \in Nat /\ b \in Nat /\ Len(new) \in Nat /\ n <= L
  BY SeqType DEF BufOK, RobShape, LegalRetire
<1>2. n <= In
  <2>1. In = L - b /\ In >= 0 /\ \A i \in 1 .. b : ~rob[In + i].done
    BY DEF RobShape, In
  <2>2. SUFFICES ASSUME n > In PROVE FALSE
    <3> HIDE DEF L, b
    <3> QED BY <1>1, <2>1
  <2>3. 1 \in 1 .. b /\ In + 1 \in 1 .. n
    <3> HIDE DEF L, b
    <3> QED BY <1>1, <2>1, <2>2
  <2>4. rob[In + 1].done
    BY <2>3 DEF LegalRetire
  <2> QED BY <2>1, <2>3, <2>4
<1>3. rob' = old \o added
  BY DEF NextRob
<1>4. IsSeq(old) /\ Len(old) = L - n
  <2> DEFINE m == L - n
  <2>1. m \in Nat
    <3> HIDE DEF L
    <3> QED BY <1>1
  <2>2. old = [k \in 1 .. m |-> old[k]]
    OBVIOUS
  <2> HIDE DEF old, m
  <2>3. IsSeq(old) /\ Len(old) = m
    BY <2>1, <2>2, SeqIntro
  <2> QED BY <2>3 DEF m
<1>5. IsSeq(added) /\ Len(added) = Len(new)
  <2>1. added = [k \in 1 .. Len(new) |-> added[k]]
    OBVIOUS
  <2> HIDE DEF added
  <2> QED BY <1>1, <2>1, SeqIntro
<1>6. /\ IsSeq(rob') /\ Len(rob') = L - n + Len(new)
      /\ \A k \in 1 .. L - n : rob'[k] = old[k]
      /\ \A k \in 1 .. Len(new) : rob'[L - n + k] = added[k]
  <2> HIDE DEF old, added, L
  <2>1. PICK q : q = rob'
    OBVIOUS
  <2>3. q = old \o added
    BY <1>3, <2>1
  <2>2. JoinFacts(q, old, added)
    BY <1>4, <1>5, <2>3, Joined, Zenon
  <2> QED BY <1>4, <1>5, <2>1, <2>2, Zenon DEF JoinFacts
<1>7. ASSUME NEW j \in 1 .. L - n PROVE Moved(j, n)
  <2> DEFINE e == rob[n + j]
  <2>1. n + j \in 1 .. L
    <3> HIDE DEF L
    <3> QED BY <1>1
  <2>2. rob'[j] = mark(e)
    <3> HIDE DEF mark
    <3> QED BY <1>6
  <2>3. e = [op |-> e.op, done |-> e.done, entry |-> e.entry] /\ e.done \in BOOLEAN
    BY <2>1 DEF RobShape
  <2>4. \A r : (r \in StoreReports /\ r.op.id = e.op.id) <=>
          \E k \in 1 .. StoresTaken : n + j = In + Pos(FALSE, k) /\ r = [op |-> StuOffer[k], entry |-> StqEntry(k)]
    BY <2>1, StoreReportsAre
  <2>5. e.op.id \in ids <=> LoadAt(n + j)
    BY <2>1, LoadReportsAre
  <2>6. CASE StoreAt(n + j)
    <3>1. \E r \in StoreReports : r.op.id = e.op.id
      <4>1. PICK k \in 1 .. StoresTaken : n + j = In + Pos(FALSE, k)
        BY <2>6 DEF StoreAt
      <4> DEFINE r == [op |-> StuOffer[k], entry |-> StqEntry(k)]
      <4>2. r \in StoreReports /\ r.op.id = e.op.id
        <5> HIDE DEF r, e
        <5> QED BY <2>4, <4>1, Zenon DEF r
      <4> QED BY <4>2
    <3> DEFINE q == CHOOSE r \in StoreReports : r.op.id = e.op.id
    <3>2. q \in StoreReports /\ q.op.id = e.op.id
      <4> HIDE DEF e
      <4> QED BY <3>1
    <3>3. rob'[j] = [e EXCEPT !.done = TRUE, !.entry = q.entry]
      <4> HIDE DEF e
      <4> QED BY <2>2, <3>1 DEF Reported
    <3> HIDE DEF q, e
    <3>4. rob'[j] = [op |-> e.op, done |-> TRUE, entry |-> q.entry]
      BY <2>3, <3>3
    <3>5. PICK k \in 1 .. StoresTaken : n + j = In + Pos(FALSE, k) /\ q = [op |-> StuOffer[k], entry |-> StqEntry(k)]
      BY <2>4, <3>2
    <3>6. \A i \in 1 .. StoresTaken : n + j = In + Pos(FALSE, i) => i = k
      <4>1. TAKE i \in 1 .. StoresTaken
      <4>2. HAVE n + j = In + Pos(FALSE, i)
      <4>3. In \in Int /\ Pos(FALSE, i) \in 1 .. 2 /\ Pos(FALSE, k) \in 1 .. 2 /\ i \in Nat /\ k \in Nat
        <5>1. In \in Int
          BY <1>1 DEF In
        <5>2. Pos(FALSE, i) \in 1 .. 2 /\ Pos(FALSE, k) \in 1 .. 2
          BY PosOrder
        <5>3. \A m \in Nat : \A x \in 1 .. m : x \in Nat
          OBVIOUS
        <5>4. \A m \in 0 .. 2 : m \in Nat
          OBVIOUS
        <5>5. StoresTaken \in Nat
          BY <5>4, TakenBounds
        <5> QED BY <5>1, <5>2, <5>3, <5>5, Zenon
      <4>4. Pos(FALSE, i) = Pos(FALSE, k)
        <5>1. ASSUME NEW x \in Int, NEW y \in 1 .. 2, NEW z \in 1 .. 2, x + y = x + z PROVE y = z
          BY <5>1
        <5> QED BY <3>5, <4>2, <4>3, <5>1
      <4>5. ~(i < k) /\ ~(k < i)
        <5>1. \A x \in 1 .. 2 : ~(x < x)
          OBVIOUS
        <5> QED BY <4>3, <4>4, <5>1, PosOrder, Zenon
      <4> QED BY <4>3, <4>5
    <3>7. q.entry = StqEntry(k)
      BY <3>5
    <3>8. rob'[j].op = e.op /\ rob'[j].done = TRUE /\ rob'[j].entry = q.entry
      BY <3>4
    <3> QED BY <2>6, <3>4, <3>6, <3>7, <3>8 DEF Moved, e
  <2>7. CASE ~StoreAt(n + j)
    <3>1. ~(\E r \in StoreReports : r.op.id = e.op.id)
      <4> HIDE DEF e
      <4> QED BY <2>4, <2>7 DEF StoreAt
    <3> DEFINE dn == e.done \/ e.op.id \in ids
    <3>2. rob'[j] = [e EXCEPT !.done = dn]
      <4> HIDE DEF e, ids
      <4> QED BY <2>2, <3>1 DEF Reported
    <3> HIDE DEF dn, e
    <3>3. rob'[j] = [op |-> e.op, done |-> dn, entry |-> e.entry]
      BY <2>3, <3>2
    <3>4. dn \in BOOLEAN /\ (dn <=> e.done \/ LoadAt(n + j))
      <4> HIDE DEF ids
      <4> QED BY <2>5 DEF dn
    <3>5. rob'[j].op = e.op /\ rob'[j].done = dn /\ rob'[j].entry = e.entry
      BY <3>3
    <3>6. \A k \in 1 .. StoresTaken : n + j # In + Pos(FALSE, k)
      BY <2>7 DEF StoreAt
    <3> QED BY <2>7, <3>3, <3>4, <3>5, <3>6 DEF Moved, e
  <2> QED BY <2>6, <2>7
<1> QED BY <1>2, <1>6, <1>7


-----------------------------------------------------------------------------
(* The entries of what is taken, and what is written into them.            *)
LEMMA NewStores ==
  ASSUME BufOK, NEW c, NEW h, StqShape(c, h), ~Cancelling
  PROVE  \A k \in 1 .. StoresTaken : StqEntry(k) \in Stq /\ Off(StqEntry(k)) = h + k - 1
<1> DEFINE d == STU_DEPTH
           r == stq_rd_ptr
           x == stq_wr_ptr
           l == StoresTaken
           x2 == (x + l) % d
           r2 == (r + 0) % d
<1>1. /\ d \in Nat /\ d > 2 /\ r \in 0 .. d - 1 /\ h \in 0 .. d /\ x = Wrap(r + h, d)
      /\ d - stu_credit_cnt - h \in {0, 1} /\ stu_credit_cnt \in 0 .. d
  BY Depths DEF StqShape, Stq
<1>2. l \in 0 .. 2 /\ (l > 0 => stu_credit_cnt > 1)
  BY TakenBounds
<1>3. h + l <= d /\ l \in Nat /\ 0 \in 0 .. 1 /\ 0 <= h
  <2> HIDE DEF d, l
  <2> QED BY <1>1, <1>2
<1>4. x2 = (x + l) % d /\ r2 = (r + 0) % d
  OBVIOUS
<1>5. CircleMoved(d, r, h, 0, l, x, r2, x2)
  <2> HIDE DEF d, r, x, l, x2, r2
  <2> QED BY <1>1, <1>3, <1>4, CircleMoves, Zenon
<1>6. \A k \in 1 .. l : (x + k - 1) % d \in 0 .. d - 1 /\ Place((x + k - 1) % d, r, d) = h + k - 1
  <2> HIDE DEF d, r, x, l, x2, r2
  <2> QED BY <1>5 DEF CircleMoved
<1> QED BY <1>6 DEF StqEntry, Off, Stq

LEMMA NewLoads ==
  ASSUME BufOK, NEW g, LdqShape(g)
  PROVE  /\ \A k \in 1 .. LoadsTaken : LdqEntry(k) \in Ldq /\ LOff(LdqEntry(k)) = g + k - 1
         /\ LdqEntry(1) = ldq_wr_ptr /\ ldq_wr_ptr \in Ldq
<1> DEFINE d == LDU_DEPTH
           r == ldq_rd_ptr
           x == ldq_wr_ptr
           l == LoadsTaken
           x2 == (x + l) % d
           r2 == (r + 0) % d
<1>1. /\ d \in Nat /\ d > 2 /\ r \in 0 .. d - 1 /\ g \in 0 .. d /\ x = Wrap(r + g, d)
      /\ ldu_credit_cnt = d - g
  BY Depths DEF LdqShape, Ldq
<1>2. l \in 0 .. 2 /\ (l > 0 => ldu_credit_cnt > 1)
  BY TakenBounds
<1>3. g + l <= d /\ l \in Nat /\ 0 \in 0 .. 1 /\ 0 <= g
  <2> HIDE DEF d, l
  <2> QED BY <1>1, <1>2
<1>4. x2 = (x + l) % d /\ r2 = (r + 0) % d
  OBVIOUS
<1>5. CircleMoved(d, r, g, 0, l, x, r2, x2)
  <2> HIDE DEF d, r, x, l, x2, r2
  <2> QED BY <1>1, <1>3, <1>4, CircleMoves, Zenon
<1>6. /\ \A k \in 1 .. l : (x + k - 1) % d \in 0 .. d - 1 /\ Place((x + k - 1) % d, r, d) = g + k - 1
      /\ x \in 0 .. d - 1
  <2> HIDE DEF d, r, x, l, x2, r2
  <2> QED BY <1>5 DEF CircleMoved
<1>7. LdqEntry(1) = x
  <2>1. LdqEntry(1) = (x + 1 - 1) % d
    BY DEF LdqEntry
  <2>2. x \in Nat /\ x < d
    <3> HIDE DEF d, x
    <3> QED BY <1>1, <1>6
  <2>3. (x + 1 - 1) % d = x
    <3>1. x + 1 - 1 = x
      BY <2>2
    <3>2. x % d = x
      <4> HIDE DEF d, x
      <4> QED BY <1>1, <2>2
    <3> QED BY <3>1, <3>2
  <2> QED BY <2>1, <2>3
<1> QED BY <1>6, <1>7 DEF LdqEntry, LOff, Ldq

LEMMA StqPldIs ==
  ASSUME BufOK, NEW c, NEW h, StqShape(c, h), ~Cancelling, NextStqPld(StoresTaken),
         NEW i \in Stq, stq_en'[i] \/ stq_commit'[i]
  PROVE  /\ Off(i) < h => stq_pld'[i] = stq_pld[i]
         /\ \A k \in 1 .. StoresTaken : i = StqEntry(k) => stq_pld'[i] = StuOffer[k]
<1> DEFINE W == {k \in 1 .. StoresTaken : i = StqEntry(k)}
<1>1. stq_pld'[i] = IF \E k \in 1 .. StoresTaken : i = StqEntry(k)
                    THEN StuOffer[CHOOSE k \in 1 .. StoresTaken : i = StqEntry(k)] ELSE stq_pld[i]
  BY DEF NextStqPld
<1>2. \A k \in 1 .. StoresTaken : i = StqEntry(k) => Off(i) = h + k - 1
  BY NewStores
<1>3. h \in Nat /\ StoresTaken \in 0 .. 2
  <2>1. h \in 0 .. STU_DEPTH /\ STU_DEPTH \in Nat
    BY Depths DEF StqShape
  <2>2. StoresTaken \in 0 .. 2
    BY TakenBounds
  <2> QED BY <2>1, <2>2
<1>4. ASSUME Off(i) < h PROVE stq_pld'[i] = stq_pld[i]
  <2>1. ASSUME NEW k \in 1 .. StoresTaken, i = StqEntry(k) PROVE FALSE
    <3>1. Off(i) = h + k - 1
      BY <1>2, <2>1
    <3> QED BY <1>3, <1>4, <3>1
  <2> QED BY <1>1, <2>1
<1>5. ASSUME NEW k \in 1 .. StoresTaken, i = StqEntry(k) PROVE stq_pld'[i] = StuOffer[k]
  <2> DEFINE m == CHOOSE j \in 1 .. StoresTaken : i = StqEntry(j)
  <2>1. m \in 1 .. StoresTaken /\ i = StqEntry(m)
    BY <1>5
  <2> HIDE DEF m
  <2>2. h + m - 1 = h + k - 1
    <3>1. Off(i) = h + m - 1 /\ Off(i) = h + k - 1
      BY <1>2, <1>5, <2>1
    <3> QED BY <3>1
  <2>3. m = k
    BY <1>3, <2>1, <2>2
  <2>4. stq_pld'[i] = StuOffer[m]
    BY <1>1, <1>5 DEF m
  <2> QED BY <2>3, <2>4
<1> QED BY <1>4, <1>5

LEMMA LdqPldIs ==
  ASSUME BufOK, NEW g, LdqShape(g), NEW request, NextLdqPld(LoadsTaken, request),
         NEW i \in Ldq, ldq_en'[i] \/ i = request
  PROVE  /\ ldq_en[i] => ldq_pld'[i] = ldq_pld[i]
         /\ \A k \in 1 .. LoadsTaken : i = LdqEntry(k) => ldq_pld'[i] = LduOffer[k]
<1>1. ldq_pld'[i] = IF \E k \in 1 .. LoadsTaken : i = LdqEntry(k)
                    THEN LduOffer[CHOOSE k \in 1 .. LoadsTaken : i = LdqEntry(k)] ELSE ldq_pld[i]
  BY DEF NextLdqPld
<1>2. \A k \in 1 .. LoadsTaken : i = LdqEntry(k) => LOff(i) = g + k - 1
  BY NewLoads
<1>3. g \in Nat /\ LoadsTaken \in 0 .. 2 /\ (ldq_en[i] => LOff(i) < g)
  <2>1. g \in 0 .. LDU_DEPTH /\ LDU_DEPTH \in Nat /\ (ldq_en[i] => LOff(i) < g)
    BY Depths DEF LdqShape
  <2>2. LoadsTaken \in 0 .. 2
    BY TakenBounds
  <2> QED BY <2>1, <2>2
<1>4. ASSUME ldq_en[i] PROVE ldq_pld'[i] = ldq_pld[i]
  <2>1. ASSUME NEW k \in 1 .. LoadsTaken, i = LdqEntry(k) PROVE FALSE
    <3>1. LOff(i) = g + k - 1
      BY <1>2, <2>1
    <3> QED BY <1>3, <1>4, <3>1
  <2> QED BY <1>1, <2>1
<1>5. ASSUME NEW k \in 1 .. LoadsTaken, i = LdqEntry(k) PROVE ldq_pld'[i] = LduOffer[k]
  <2> DEFINE m == CHOOSE j \in 1 .. LoadsTaken : i = LdqEntry(j)
  <2>1. m \in 1 .. LoadsTaken /\ i = LdqEntry(m)
    BY <1>5
  <2> HIDE DEF m
  <2>2. g + m - 1 = g + k - 1
    <3>1. LOff(i) = g + m - 1 /\ LOff(i) = g + k - 1
      BY <1>2, <1>5, <2>1
    <3> QED BY <3>1
  <2>3. m = k
    BY <1>3, <2>1, <2>2
  <2>4. ldq_pld'[i] = LduOffer[m]
    BY <1>1, <1>5 DEF m
  <2> QED BY <2>3, <2>4
<1> QED BY <1>4, <1>5


-----------------------------------------------------------------------------
(* What an invariant says of rob and of the store queue, one cycle later.  *)
NewRob(new, n) ==
  /\ n \in Nat /\ n <= In /\ IsSeq(rob') /\ Len(new) \in Nat /\ Len(rob') = Len(rob) - n + Len(new)
  /\ \A j \in 1 .. Len(rob) - n : Moved(j, n)
  /\ \A k \in 1 .. Len(new) :
       rob'[Len(rob) - n + k] = [op |-> new[k], done |-> FALSE, entry |-> NONE]

LEMMA LoadAtLoads ==
  ASSUME BufOK, RobShape, LdqFlags, RobLoads, ~Cancelling, NEW g, LdqShape(g), NEW j, LoadAt(j)
  PROVE  rob[j].op.ld
<1>1. CASE \E k \in 1 .. 2 : v_ldq_ack_flag(k) /\ j = In + Pos(TRUE, k)
  <2>1. PICK k \in 1 .. 2 : v_ldq_ack_flag(k) /\ j = In + Pos(TRUE, k)
    BY <1>1
  <2>2. OfferFacts(LduOffer, TRUE) /\ TRUE \in BOOLEAN
    BY OffersAre
  <2>3. k \in 1 .. Len(LduOffer)
    <3>1. k <= Len(LduOffer) /\ Len(LduOffer) \in 0 .. 2
      BY <2>1, TakenBounds DEF v_ldq_ack_flag
    <3> QED BY <3>1
  <2>4. rob[In + Pos(TRUE, k)].op = LduOffer[k] /\ LduOffer[k].ld = TRUE
    BY <2>2, <2>3, OfferInRob, Zenon
  <2> QED BY <2>1, <2>4
<1>2. CASE answer # NONE /\ rob[j].op = ldq_pld[answer.entry]
  <2>1. answer.entry \in Ldq /\ ldq_en[answer.entry]
    BY <1>2, AnswerAsks DEF Asks
  <2> QED BY <1>2, <2>1 DEF RobLoads
<1> QED BY <1>1, <1>2 DEF LoadAt

(* The stores of rob that are done in the next cycle.                      *)
LEMMA DoneStoresAre ==
  ASSUME BufOK, RobShape, LdqFlags, RobLoads, ~Cancelling, NEW g, LdqShape(g),
         NEW new, NEW n, NewRob(new, n)
  PROVE  /\ \A k : k \in DoneStores' <=>
                   k \in 1 .. Len(rob) - n /\ (n + k \in DoneStores \/ StoreAt(n + k))
         /\ \A j \in DoneStores : j \in 1 .. In /\ ~StoreAt(j)
<1> DEFINE L == Len(rob)
           b == Len(lsu_buf)
<1>1. /\ L \in Nat /\ b \in Nat /\ Len(new) \in Nat /\ n \in Nat /\ n <= In /\ In = L - b
      /\ Len(rob') = L - n + Len(new)
  BY SeqType DEF BufOK, RobShape, NewRob, In
<1>2. ASSUME NEW k \in 1 .. L - n
      PROVE  k \in DoneStores' <=> n + k \in DoneStores \/ StoreAt(n + k)
  <2>1. k \in 1 .. Len(rob') /\ n + k \in 1 .. L
    <3> HIDE DEF L, b
    <3> QED BY <1>1
  <2>2. /\ rob'[k].op = rob[n + k].op
        /\ rob'[k].done <=> rob[n + k].done \/ StoreAt(n + k) \/ LoadAt(n + k)
    BY DEF NewRob, Moved
  <2>3. StoreAt(n + k) => ~rob[n + k].op.ld
    <3>1. SUFFICES ASSUME StoreAt(n + k) PROVE ~rob[n + k].op.ld
      OBVIOUS
    <3>2. PICK s \in 1 .. StoresTaken : n + k = In + Pos(FALSE, s)
      BY <3>1 DEF StoreAt
    <3>3. OfferFacts(StuOffer, FALSE) /\ FALSE \in BOOLEAN /\ s \in 1 .. Len(StuOffer)
      BY TakenOffered, Zenon
    <3>4. rob[In + Pos(FALSE, s)].op = StuOffer[s] /\ StuOffer[s].ld = FALSE
      BY <3>3, OfferInRob, Zenon
    <3> QED BY <3>2, <3>4
  <2>4. LoadAt(n + k) => rob[n + k].op.ld
    BY LoadAtLoads
  <2>5. k \in DoneStores' <=> rob'[k].done /\ ~rob'[k].op.ld
    BY <2>1 DEF DoneStores
  <2>6. n + k \in DoneStores <=> rob[n + k].done /\ ~rob[n + k].op.ld
    BY <2>1 DEF DoneStores
  <2> QED BY <2>2, <2>3, <2>4, <2>5, <2>6
<1>3. ASSUME NEW k, k \in DoneStores' PROVE k \in 1 .. L - n
  <2>1. k \in 1 .. Len(rob') /\ rob'[k].done
    BY <1>3 DEF DoneStores
  <2>2. SUFFICES ASSUME k \notin 1 .. L - n PROVE FALSE
    OBVIOUS
  <2> DEFINE m == k - (L - n)
  <2>3. m \in 1 .. Len(new) /\ L - n + m = k
    <3> HIDE DEF L, b
    <3> QED BY <1>1, <2>1, <2>2
  <2>4. rob'[L - n + m] = [op |-> new[m], done |-> FALSE, entry |-> NONE]
    BY <2>3 DEF NewRob
  <2> QED BY <2>1, <2>3, <2>4
<1>4. ASSUME NEW j \in DoneStores PROVE j \in 1 .. In /\ ~StoreAt(j)
  <2>1. j \in 1 .. L /\ rob[j].done
    BY DEF DoneStores
  <2>2. j \in 1 .. In
    <3>1. SUFFICES ASSUME j \notin 1 .. In PROVE FALSE
      OBVIOUS
    <3> DEFINE m == j - In
    <3>2. m \in 1 .. b /\ In + m = j
      <4> HIDE DEF L, b
      <4> QED BY <1>1, <2>1, <3>1
    <3>3. ~rob[In + m].done
      BY <3>2 DEF RobShape
    <3> QED BY <2>1, <3>2, <3>3
  <2>3. ~StoreAt(j)
    <3>1. ASSUME NEW s \in 1 .. StoresTaken, j = In + Pos(FALSE, s) PROVE FALSE
      <4>1. OfferFacts(StuOffer, FALSE) /\ FALSE \in BOOLEAN /\ s \in 1 .. Len(StuOffer)
        BY TakenOffered, Zenon
      <4>2. ~rob[In + Pos(FALSE, s)].done
        BY <4>1, OfferInRob, Zenon
      <4> QED BY <2>1, <3>1, <4>2
    <3> QED BY <3>1 DEF StoreAt
  <2> QED BY <2>2, <2>3
<1> QED BY <1>2, <1>3, <1>4


LEMMA NextRobStores ==
  ASSUME BufOK, RobShape, LdqFlags, RobLoads, ~Cancelling, NEW g, LdqShape(g),
         NEW new, NEW n, NewRob(new, n),
         NEW c, NEW h, StqShape(c, h), RobStores(c, h), NEW r \in 0 .. h - c, RetiredFacts(n, c, r),
         NextStqPld(StoresTaken), NEW out, CommitFacts(c, r, out),
         NEW l, l = StoresTaken, NEW c2, c2 = c + r - out, NEW h2, h2 = h + l - out,
         StqShape(c2, h2)', ~Cancelling'
  PROVE  RobStores(c2, h2)'
<1> DEFINE L == Len(rob)
           off2(i) == Place(i, stq_rd_ptr', STU_DEPTH)
           entry(j) == rob'[j].entry
           D2 == {j \in 1 .. Len(rob') : rob'[j].done /\ ~rob'[j].op.ld}
<1>1. /\ L \in Nat /\ n \in Nat /\ n <= In /\ In \in Nat /\ In <= L
      /\ c \in Nat /\ h \in Nat /\ c <= h /\ l \in 0 .. 2 /\ r \in Nat /\ out \in 0 .. 1 /\ out <= c
  <2>1. L \in Nat /\ Len(lsu_buf) \in Nat /\ n \in Nat /\ n <= In /\ In = L - Len(lsu_buf)
    BY SeqType DEF BufOK, RobShape, NewRob, In
  <2>2. n \in Nat /\ n <= In /\ In \in Nat /\ In <= L
    BY <2>1
  <2>3. c \in 0 .. h /\ h \in 0 .. STU_DEPTH /\ STU_DEPTH \in Nat
    BY Depths DEF StqShape
  <2>4. c \in Nat /\ h \in Nat /\ c <= h
    BY <2>3
  <2> QED BY <2>1, <2>2, <2>4, TakenBounds DEF CommitFacts
<1>2. \A i \in Stq : off2(i) = IF Off(i) < out THEN STU_DEPTH - 1 ELSE Off(i) - out
  BY DEF CommitFacts, Off
<1>3. /\ \A j \in DoneStores : /\ rob[j].entry \in Stq /\ Off(rob[j].entry) \in c .. h - 1
                               /\ stq_pld[rob[j].entry] = rob[j].op
      /\ \A j, k \in DoneStores : j < k => Off(rob[j].entry) < Off(rob[k].entry)
      /\ \A o \in c .. h - 1 : \E j \in DoneStores : Off(rob[j].entry) = o
  BY DEF RobStores
<1>4. /\ \A k : k \in DoneStores' <=> k \in 1 .. L - n /\ (n + k \in DoneStores \/ StoreAt(n + k))
      /\ \A j \in DoneStores : j \in 1 .. In /\ ~StoreAt(j)
  BY DoneStoresAre
<1>5. DoneStores' = D2
  BY DEF DoneStores
<1>6. \A j \in DoneStores : j <= n <=> Off(rob[j].entry) < c + r
  BY DEF RetiredFacts
<1>7. \A k \in 1 .. l : StqEntry(k) \in Stq /\ Off(StqEntry(k)) = h + k - 1
  BY NewStores
<1>8. ASSUME NEW k \in DoneStores', n + k \in DoneStores
      PROVE  /\ entry(k) = rob[n + k].entry /\ entry(k) \in Stq
             /\ Off(entry(k)) \in c + r .. h - 1 /\ rob'[k].op = stq_pld[entry(k)]
  <2>1. Moved(k, n) /\ ~StoreAt(n + k) /\ k \in 1 .. L - n
    BY <1>4, <1>8 DEF NewRob
  <2>2. entry(k) = rob[n + k].entry /\ rob'[k].op = rob[n + k].op
    BY <2>1 DEF Moved
  <2>3. ~(n + k <= n)
    BY <1>1, <2>1
  <2>4. /\ Off(rob[n + k].entry) \in c .. h - 1 /\ ~(Off(rob[n + k].entry) < c + r)
        /\ rob[n + k].entry \in Stq /\ stq_pld[rob[n + k].entry] = rob[n + k].op
    BY <1>3, <1>6, <1>8, <2>3
  <2>5. \A o \in c .. h - 1 : ~(o < c + r) => o \in c + r .. h - 1
    BY <1>1
  <2> QED BY <2>2, <2>4, <2>5
<1>9. ASSUME NEW k \in DoneStores', NEW s \in 1 .. l, n + k = In + Pos(FALSE, s)
      PROVE  entry(k) = StqEntry(s) /\ rob'[k].op = StuOffer[s]
  <2>1. Moved(k, n)
    BY <1>4 DEF NewRob
  <2>2. entry(k) = StqEntry(s) /\ rob'[k].op = rob[In + Pos(FALSE, s)].op
    BY <1>9, <2>1 DEF Moved
  <2>3. rob[In + Pos(FALSE, s)].op = StuOffer[s]
    <3>1. s \in 1 .. StoresTaken
      OBVIOUS
    <3> QED BY <3>1, TakenOffered, OfferInRob, Zenon
  <2> QED BY <2>2, <2>3
<1>10. ASSUME NEW k \in DoneStores'
       PROVE  \/ n + k \in DoneStores
              \/ \E s \in 1 .. l : n + k = In + Pos(FALSE, s)
  BY <1>4 DEF StoreAt
<1> HIDE DEF L, entry, off2, D2
<1>11. ASSUME NEW k \in DoneStores'
       PROVE  entry(k) \in Stq /\ Off(entry(k)) \in c + r .. h + l - 1
  <2>1. CASE n + k \in DoneStores
    <3>1. \A o \in c + r .. h - 1 : o \in c + r .. h + l - 1
      BY <1>1
    <3> QED BY <1>8, <2>1, <3>1
  <2>2. CASE \E s \in 1 .. l : n + k = In + Pos(FALSE, s)
    <3>1. PICK s \in 1 .. l : n + k = In + Pos(FALSE, s)
      BY <2>2
    <3>2. entry(k) \in Stq /\ Off(entry(k)) = h + s - 1
      BY <1>7, <1>9, <3>1
    <3> QED BY <1>1, <3>1, <3>2
  <2> QED BY <1>10, <2>1, <2>2
<1>12. ASSUME NEW k \in DoneStores'
       PROVE  /\ off2(entry(k)) = Off(entry(k)) - out /\ off2(entry(k)) \in c2 .. h2 - 1
              /\ stq_pld'[entry(k)] = rob'[k].op
  <2> DEFINE i == entry(k)
  <2>1. i \in Stq /\ Off(i) \in c + r .. h + l - 1
    BY <1>11
  <2>2. off2(i) = Off(i) - out /\ off2(i) \in c2 .. h2 - 1
    <3>1. ~(Off(i) < out)
      <4> HIDE DEF i
      <4> QED BY <1>1, <2>1
    <3>2. off2(i) = Off(i) - out
      BY <1>2, <2>1, <3>1
    <3>3. \A o \in c + r .. h + l - 1 : o - out \in c2 .. h2 - 1
      BY <1>1
    <3> QED BY <2>1, <3>2, <3>3
  <2>3. stq_en'[i]
    BY <2>1, <2>2 DEF StqShape, Off, off2
  <2>4. /\ Off(i) < h => stq_pld'[i] = stq_pld[i]
        /\ \A s \in 1 .. StoresTaken : i = StqEntry(s) => stq_pld'[i] = StuOffer[s]
    <3> HIDE DEF i
    <3> QED BY <2>1, <2>3, StqPldIs
  <2>5. CASE n + k \in DoneStores
    <3>1. Off(i) \in c + r .. h - 1 /\ rob'[k].op = stq_pld[i]
      BY <1>8, <2>5
    <3>2. Off(i) < h
      <4> HIDE DEF i
      <4> QED BY <1>1, <3>1
    <3> QED BY <2>2, <2>4, <3>1, <3>2
  <2>6. CASE \E s \in 1 .. l : n + k = In + Pos(FALSE, s)
    <3>1. PICK s \in 1 .. l : n + k = In + Pos(FALSE, s)
      BY <2>6
    <3>2. i = StqEntry(s) /\ rob'[k].op = StuOffer[s]
      BY <1>9, <3>1
    <3> QED BY <2>2, <2>4, <3>2
  <2> QED BY <1>10, <2>5, <2>6
<1>13. ASSUME NEW j \in DoneStores', NEW k \in DoneStores', j < k
       PROVE  Off(entry(j)) < Off(entry(k))
  <2>1. j \in Nat /\ k \in Nat
    <3>1. j \in 1 .. L - n /\ k \in 1 .. L - n
      BY <1>4
    <3> QED BY <1>1, <3>1
  <2>2. CASE n + j \in DoneStores /\ n + k \in DoneStores
    <3>1. n + j < n + k
      BY <1>1, <1>13, <2>1
    <3>2. Off(rob[n + j].entry) < Off(rob[n + k].entry)
      BY <1>3, <2>2, <3>1
    <3> QED BY <1>8, <2>2, <3>2
  <2>3. ASSUME n + j \in DoneStores, NEW s \in 1 .. l, n + k = In + Pos(FALSE, s)
        PROVE  Off(entry(j)) < Off(entry(k))
    <3>1. Off(entry(j)) \in c + r .. h - 1
      BY <1>8, <2>3
    <3>2. Off(entry(k)) = h + s - 1
      BY <1>7, <1>9, <2>3
    <3> QED BY <1>1, <3>1, <3>2
  <2>4. ASSUME NEW s \in 1 .. l, n + j = In + Pos(FALSE, s), n + k \in DoneStores PROVE FALSE
    <3>1. n + k \in 1 .. In /\ Pos(FALSE, s) \in 1 .. 2
      BY <1>4, <2>4, PosOrder
    <3>2. ASSUME NEW p \in 1 .. 2, n + j = In + p PROVE FALSE
      BY <1>1, <1>13, <2>1, <3>1, <3>2
    <3> QED BY <2>4, <3>1, <3>2
  <2>5. ASSUME NEW s \in 1 .. l, n + j = In + Pos(FALSE, s), NEW t \in 1 .. l, n + k = In + Pos(FALSE, t)
        PROVE  Off(entry(j)) < Off(entry(k))
    <3>1. Off(entry(j)) = h + s - 1 /\ Off(entry(k)) = h + t - 1
      BY <1>7, <1>9, <2>5
    <3>2. /\ Pos(FALSE, s) \in 1 .. 2 /\ Pos(FALSE, t) \in 1 .. 2
          /\ t < s => Pos(FALSE, t) < Pos(FALSE, s)
      BY PosOrder
    <3>3. ASSUME NEW p \in 1 .. 2, NEW q \in 1 .. 2, n + j = In + p, n + k = In + q
          PROVE  p # q /\ ~(q < p)
      BY <1>1, <1>13, <2>1, <3>3
    <3>4. s # t /\ ~(t < s)
      BY <2>5, <3>2, <3>3, Zenon
    <3> QED BY <1>1, <3>1, <3>4
  <2> QED BY <1>10, <2>2, <2>3, <2>4, <2>5
<1>14. ASSUME NEW o \in c + r .. h + l - 1 PROVE \E k \in DoneStores' : Off(entry(k)) = o
  <2>1. CASE o < h
    <3>1. o \in c .. h - 1 /\ ~(o < c + r)
      BY <1>1, <2>1
    <3>2. PICK j \in DoneStores : Off(rob[j].entry) = o
      BY <1>3, <3>1
    <3>3. j \in 1 .. In /\ ~(j <= n)
      BY <1>4, <1>6, <3>1, <3>2
    <3> DEFINE k == j - n
    <3>4. k \in 1 .. L - n /\ n + k = j
      BY <1>1, <3>3
    <3>5. k \in DoneStores'
      BY <1>4, <3>4
    <3>6. entry(k) = rob[j].entry
      BY <1>8, <3>4, <3>5
    <3> QED BY <3>2, <3>5, <3>6
  <2>2. CASE ~(o < h)
    <3> DEFINE s == o - h + 1
               k == (In + Pos(FALSE, s)) - n
    <3>1. s \in 1 .. l /\ h + s - 1 = o
      BY <1>1, <2>2
    <3>2. In + Pos(FALSE, s) \in 1 .. L /\ In + Pos(FALSE, s) > In
      <4> HIDE DEF s
      <4> USE DEF L
      <4>1. s \in 1 .. StoresTaken
        BY <3>1
      <4> QED BY <4>1, TakenOffered, OfferInRob, Zenon
    <3> HIDE DEF s
    <3>3. k \in 1 .. L - n /\ n + k = In + Pos(FALSE, s)
      <4> DEFINE p == In + Pos(FALSE, s)
      <4>1. p \in 1 .. L /\ p > In /\ k = p - n
        BY <3>2, Zenon
      <4> HIDE DEF p, k, L
      <4>2. k \in 1 .. L - n /\ n + k = p
        BY <1>1, <4>1
      <4> QED BY <4>2 DEF p
    <3> HIDE DEF k
    <3>4. StoreAt(n + k)
      BY <3>1, <3>3 DEF StoreAt
    <3>5. k \in DoneStores'
      BY <1>4, <3>3, <3>4
    <3>6. entry(k) = StqEntry(s)
      BY <1>9, <3>1, <3>3, <3>5
    <3> QED BY <1>7, <3>1, <3>5, <3>6
  <2> QED BY <2>1, <2>2
<1>15. \A j, k \in DoneStores' : j < k => off2(entry(j)) < off2(entry(k))
  <2>1. TAKE j, k \in DoneStores'
  <2>2. HAVE j < k
  <2>3. Off(entry(j)) < Off(entry(k)) /\ Off(entry(j)) \in c + r .. h + l - 1 /\ Off(entry(k)) \in c + r .. h + l - 1
    BY <1>11, <1>13, <2>2
  <2>4. off2(entry(j)) = Off(entry(j)) - out /\ off2(entry(k)) = Off(entry(k)) - out
    BY <1>12
  <2>5. ASSUME NEW x \in c + r .. h + l - 1, NEW y \in c + r .. h + l - 1, x < y PROVE x - out < y - out
    BY <1>1, <2>5
  <2> QED BY <2>3, <2>4, <2>5
<1>16. \A o \in c2 .. h2 - 1 : \E k \in DoneStores' : off2(entry(k)) = o
  <2>1. TAKE o \in c2 .. h2 - 1
  <2>2. o + out \in c + r .. h + l - 1 /\ (o + out) - out = o
    BY <1>1
  <2>3. PICK k \in DoneStores' : Off(entry(k)) = o + out
    BY <1>14, <2>2
  <2>4. off2(entry(k)) = o
    BY <1>12, <2>2, <2>3
  <2> QED BY <2>4
<1>17. \A k \in DoneStores' : /\ entry(k) \in Stq /\ off2(entry(k)) \in c2 .. h2 - 1
                              /\ stq_pld'[entry(k)] = rob'[k].op
  BY <1>11, <1>12
<1>18. RobStores(c2, h2)'
  <2> HIDE DEF DoneStores
  <2> QED BY <1>15, <1>16, <1>17 DEF RobStores, Off, off2, entry
<1> QED BY <1>18


-----------------------------------------------------------------------------
(* What arrives, and the buffer and rob in the next cycle.                 *)
LEMMA WrapSum ==
  ASSUME NEW f \in Nat \ {0}, NEW x \in Nat, NEW y \in Nat, x + y < 2 * f
  PROVE  Wrap(Wrap(x, f) + y, f) = Wrap(x + y, f) /\ Wrap(x + y, f) \in 0 .. f - 1
BY DEF Wrap

LEMMA BatchLen ==
  ASSUME NEW accs \in Batches
  PROVE  Len(accs) \in Nat /\ (accs = <<>> <=> Len(accs) = 0) /\ \A k \in 1 .. Len(accs) : accs[k] \in workload.accesses
<1>1. PICK n \in 0 .. S_CHANNEL : accs \in [1 .. n -> workload.accesses]
  BY DEF Batches
<1>2. n \in Nat
  BY LsuBufferAssumption
<1>3. accs = [k \in 1 .. n |-> accs[k]]
  BY <1>1
<1>4. IsSeq(accs) /\ Len(accs) = n
  BY <1>2, <1>3, SeqIntro
<1> QED BY <1>1, <1>2, <1>4, SeqType

Fits(accs) == Len(rob) + Len(accs) <= workload.in_flight

NewId(k) == IF Len(rob) = 0 THEN Wrap(k - 1, workload.in_flight)
            ELSE Wrap(rob[Len(rob)].op.id + k, workload.in_flight)

ArrivedFacts(new, accs) ==
  /\ IsSeq(new) /\ Len(new) = Len(accs)
  /\ \A k \in 1 .. Len(accs) :
       /\ new[k].id = NewId(k) /\ new[k].ld = accs[k].ld /\ new[k].ld \in BOOLEAN
       /\ new[k].addr = accs[k].addr /\ new[k].strb = accs[k].strb

LEMMA ArrivingIs ==
  ASSUME RobShape, workload \in Workloads, NEW accs \in Batches, Fits(accs)
  PROVE  ArrivedFacts(Arriving(accs), accs)
<1> DEFINE f == workload.in_flight
           first == IF rob = <<>> THEN 0 ELSE rob[Len(rob)].op.id + 1
           new == Arriving(accs)
           m == Len(accs)
           L == Len(rob)
<1>1. m \in Nat /\ L \in Nat /\ f \in Nat \ {0} /\ L + m <= f /\ (rob = <<>> <=> L = 0)
  BY BatchLen, SeqType, LsuAssumption DEF Fits, RobShape
<1>2. DOMAIN new = 1 .. m /\ new = [k \in 1 .. m |-> new[k]]
  BY DEF Arriving
<1>3. IsSeq(new) /\ Len(new) = m
  <2> HIDE DEF new, m
  <2> QED BY <1>1, <1>2, SeqIntro
<1>4. ASSUME NEW k \in 1 .. m
      PROVE  /\ new[k].id = (first + k - 1) % f /\ new[k].ld = accs[k].ld
             /\ new[k].addr = accs[k].addr /\ new[k].strb = accs[k].strb
  BY DEF Arriving
<1>5. \A k \in 1 .. m : accs[k].ld \in BOOLEAN
  BY BatchLen, LsuAssumption
<1>6. ASSUME NEW k \in 1 .. m PROVE (first + k - 1) % f = NewId(k)
  <2>1. CASE L = 0
    <3>1. first + k - 1 = k - 1
      BY <1>1, <2>1
    <3>2. k - 1 \in 0 .. 2 * f - 1
      <4> HIDE DEF m, f, L
      <4> QED BY <1>1
    <3>3. (k - 1) % f = Wrap(k - 1, f)
      <4> DEFINE y == k - 1
      <4>1. y \in 0 .. 2 * f - 1
        BY <3>2
      <4> HIDE DEF y, f
      <4>2. y % f = Wrap(y, f)
        BY <1>1, <4>1, WrapIsMod
      <4> QED BY <4>2 DEF y
    <3> QED BY <2>1, <3>1, <3>3 DEF NewId
  <2>2. CASE L # 0
    <3> DEFINE x == rob[Len(rob)].op.id
    <3>1. x \in 0 .. f - 1
      <4>1. L \in 1 .. L /\ rob # <<>>
        <5>1. \A z \in Nat : z # 0 => z \in 1 .. z
          OBVIOUS
        <5> QED BY <1>1, <2>2, <5>1
      <4>2. rob[L].op.id = Wrap(rob[1].op.id + L - 1, f) /\ rob[1].op.id \in 0 .. f - 1
        BY <4>1 DEF RobShape
      <4> DEFINE b == rob[1].op.id
      <4>3. Wrap(b + L - 1, f) \in 0 .. f - 1
        <5>1. b \in 0 .. f - 1
          BY <4>2
        <5> HIDE DEF b, L, f
        <5> QED BY <1>1, <2>2, <5>1 DEF Wrap
      <4> QED BY <4>2, <4>3
    <3>2. first = x + 1
      BY <1>1, <2>2
    <3> HIDE DEF x, f, m, first
    <3>3. first + k - 1 = x + k /\ x + k \in 0 .. 2 * f - 1
      <4> HIDE DEF L
      <4> QED BY <1>1, <2>2, <3>1, <3>2
    <3>4. (x + k) % f = Wrap(x + k, f)
      <4> DEFINE y == x + k
      <4>1. y \in 0 .. 2 * f - 1
        BY <3>3
      <4> HIDE DEF y
      <4>2. y % f = Wrap(y, f)
        BY <1>1, <4>1, WrapIsMod
      <4> QED BY <4>2 DEF y
    <3> QED BY <2>2, <3>3, <3>4 DEF NewId, x, f
  <2> QED BY <2>1, <2>2
<1> HIDE DEF new, first
<1> QED BY <1>3, <1>4, <1>5, <1>6 DEF ArrivedFacts, new

(* The ids stay consecutive.                                               *)
LEMMA NextIds ==
  ASSUME BufOK, RobShape, workload \in Workloads, NEW accs \in Batches, Fits(accs),
         NEW new, ArrivedFacts(new, accs), NEW n, NewRob(new, n)
  PROVE  /\ \A j \in 1 .. Len(rob') : rob'[j].op.id = Wrap(rob'[1].op.id + j - 1, workload.in_flight)
         /\ Len(rob') # 0 => rob'[1].op.id \in 0 .. workload.in_flight - 1
         /\ Len(rob') <= workload.in_flight
<1> DEFINE f == workload.in_flight
           m == Len(new)
           L == Len(rob)
           b == rob[1].op.id
           L2 == Len(rob')
           id(j) == rob'[j].op.id
           nid(k) == new[k].id
<1>1. /\ m \in Nat /\ L \in Nat /\ f \in Nat \ {0} /\ L + m <= f /\ (rob = <<>> <=> L = 0)
      /\ n \in Nat /\ n <= L /\ L2 = L - n + m
  <2>1. /\ m \in Nat /\ L \in Nat /\ f \in Nat \ {0} /\ L + m <= f /\ (rob = <<>> <=> L = 0)
    BY BatchLen, SeqType, LsuAssumption DEF Fits, RobShape, ArrivedFacts
  <2>2. n \in Nat /\ n <= In /\ In = L - Len(lsu_buf) /\ Len(lsu_buf) \in Nat /\ L2 = L - n + m
    BY SeqType DEF NewRob, In, BufOK
  <2> HIDE DEF m, L, f, L2
  <2>3. n <= L
    BY <2>1, <2>2
  <2> QED BY <2>1, <2>2, <2>3
<1>2. \A j \in 1 .. L - n : id(j) = Wrap(b + (n + j) - 1, f)
  <2> TAKE j \in 1 .. L - n
  <2>1. n + j \in 1 .. L
    <3> HIDE DEF L
    <3> QED BY <1>1
  <2>2. rob'[j].op = rob[n + j].op
    BY DEF NewRob, Moved
  <2>3. rob[n + j].op.id = Wrap(b + (n + j) - 1, f)
    BY <2>1 DEF RobShape
  <2> QED BY <2>2, <2>3
<1>3. \A k \in 1 .. m : id(L - n + k) = NewId(k)
  <2> TAKE k \in 1 .. m
  <2>1. rob'[L - n + k] = [op |-> new[k], done |-> FALSE, entry |-> NONE]
    BY DEF NewRob
  <2>2. new[k].id = NewId(k)
    BY DEF ArrivedFacts
  <2> QED BY <2>1, <2>2
<1>4. CASE L = 0
  <2>1. n = 0 /\ L2 = m /\ \A k \in 1 .. m : L - n + k = k
    <3> HIDE DEF L, m, f, L2
    <3> QED BY <1>1, <1>4
  <2>2. \A k \in 1 .. m : id(k) = Wrap(k - 1, f)
    <3>1. \A k \in 1 .. m : NewId(k) = Wrap(k - 1, f)
      BY <1>4 DEF NewId
    <3> HIDE DEF L, m, f, L2, id
    <3> QED BY <1>3, <2>1, <3>1
  <2> HIDE DEF L, m, f, L2, id
  <2>3. m > 0 => id(1) = 0
    BY <1>1, <2>2 DEF Wrap
  <2>4. \A k \in 1 .. L2 : id(k) = Wrap(id(1) + k - 1, f)
    BY <1>1, <2>1, <2>2, <2>3
  <2>5. L2 # 0 => id(1) \in 0 .. f - 1
    BY <1>1, <2>1, <2>3
  <2>6. L2 <= f
    BY <1>1, <1>4, <2>1
  <2> QED BY <2>4, <2>5, <2>6 DEF L2, id, f
<1>5. CASE L # 0
  <2>1. b \in 0 .. f - 1
    BY <1>1, <1>5 DEF RobShape
  <2>2. \A k \in 1 .. m : NewId(k) = Wrap(Wrap(b + L - 1, f) + k, f)
    <3>1. L \in 1 .. L
      <4>1. \A z \in Nat : z # 0 => z \in 1 .. z
        OBVIOUS
      <4> QED BY <1>1, <1>5, <4>1
    <3>2. rob[L].op.id = Wrap(b + L - 1, f)
      BY <3>1 DEF RobShape
    <3> QED BY <1>5, <3>2 DEF NewId
  <2> HIDE DEF L, m, f, L2, id, b
  <2>3. \A j \in 1 .. L2 : id(j) = Wrap(b + n + j - 1, f)
    <3> TAKE j \in 1 .. L2
    <3>1. CASE j \in 1 .. L - n
      <4>1. b + (n + j) - 1 = b + n + j - 1
        BY <1>1, <2>1
      <4> QED BY <1>2, <3>1, <4>1
    <3>2. CASE j \notin 1 .. L - n
      <4> DEFINE k == j - (L - n)
      <4>1. k \in 1 .. m /\ L - n + k = j
        BY <1>1, <3>2
      <4>2. id(j) = Wrap(Wrap(b + L - 1, f) + k, f)
        BY <1>3, <2>2, <4>1
      <4>3. b + L - 1 \in Nat /\ k \in Nat /\ (b + L - 1) + k < 2 * f /\ (b + L - 1) + k = b + n + j - 1
        BY <1>1, <1>5, <2>1, <4>1
      <4> DEFINE x == b + L - 1
      <4>4. Wrap(Wrap(x, f) + k, f) = Wrap(x + k, f)
        <5>1. x \in Nat /\ k \in Nat /\ x + k < 2 * f
          BY <4>3
        <5> HIDE DEF x, k
        <5> QED BY <1>1, <5>1, WrapSum
      <4> QED BY <4>2, <4>3, <4>4
    <3> QED BY <3>1, <3>2
  <2>4. CASE L2 # 0
    <3>1. id(1) = Wrap(b + n, f)
      <4>1. 1 \in 1 .. L2 /\ b + n + 1 - 1 = b + n
        BY <1>1, <2>1, <2>4
      <4> QED BY <2>3, <4>1
    <3>2. id(1) \in 0 .. f - 1
      BY <1>1, <2>1, <3>1 DEF Wrap
    <3>3. ASSUME NEW j \in 1 .. L2 PROVE id(j) = Wrap(id(1) + j - 1, f)
      <4> DEFINE x == b + n
                 y == j - 1
      <4>1. x \in Nat /\ y \in Nat /\ x + y < 2 * f /\ x + y = b + n + j - 1
        BY <1>1, <2>1
      <4>2. Wrap(Wrap(x, f) + y, f) = Wrap(x + y, f)
        <5> HIDE DEF x, y
        <5> QED BY <1>1, <4>1, WrapSum
      <4>3. id(1) + y = id(1) + j - 1
        BY <3>2
      <4> QED BY <2>3, <3>1, <4>1, <4>2, <4>3
    <3>4. L2 <= f
      BY <1>1
    <3> QED BY <3>2, <3>3, <3>4 DEF L2, id, f
  <2>5. CASE L2 = 0
    <3>1. 1 .. L2 = {} /\ L2 <= f
      BY <1>1, <2>5
    <3> QED BY <2>5, <3>1 DEF L2, id, f
  <2> QED BY <2>4, <2>5
<1> QED BY <1>4, <1>5


NewBuf(new) ==
  /\ Taken \in 0 .. 2 /\ Taken <= Len(lsu_buf) /\ Len(new) \in Nat
  /\ IsSeq(lsu_buf') /\ Len(lsu_buf') = Len(lsu_buf) - Taken + Len(new)
  /\ \A k \in 1 .. Len(lsu_buf) - Taken : lsu_buf'[k] = lsu_buf[k + Taken]
  /\ \A k \in 1 .. Len(new) : lsu_buf'[Len(lsu_buf) - Taken + k] = new[k]

LEMMA NextBufferIs ==
  ASSUME BufOK, NEW new, IsSeq(new), NextBuffer(new, StoresTaken, LoadsTaken, FALSE)
  PROVE  NewBuf(new)
<1> DEFINE b == Len(lsu_buf)
<1>1. Taken \in 0 .. 2 /\ Taken <= b /\ b \in Nat /\ Taken \in 0 .. b
  <2>1. /\ StoresTaken \in 0 .. Len(StuOffer) /\ LoadsTaken \in 0 .. Len(LduOffer)
        /\ Len(StuOffer) \in 0 .. 2 /\ Len(LduOffer) \in 0 .. 2
        /\ Len(StuOffer) + Len(LduOffer) <= b /\ Len(StuOffer) + Len(LduOffer) <= 2
    BY TakenBounds
  <2>2. b \in Nat
    BY SeqType DEF BufOK
  <2> DEFINE x == StoresTaken
             y == LoadsTaken
             s == Len(StuOffer)
             l == Len(LduOffer)
  <2> HIDE DEF b, x, y, s, l
  <2>3. x + y \in 0 .. 2 /\ x + y <= b /\ x + y \in 0 .. b
    BY <2>1, <2>2 DEF x, y, s, l
  <2> QED BY <2>2, <2>3 DEF Taken, x, y
<1> DEFINE t == Taken
<1>2. lsu_buf' = SubSeq(lsu_buf, t + 1, Len(lsu_buf)) \o new
  BY DEF NextBuffer, Taken
<1> HIDE DEF t
<1>3. PICK q : q = lsu_buf'
  OBVIOUS
<1>4. q = SubSeq(lsu_buf, t + 1, Len(lsu_buf)) \o new /\ IsSeq(lsu_buf) /\ t \in 0 .. Len(lsu_buf)
  BY <1>1, <1>2, <1>3 DEF BufOK, t
<1>5. /\ IsSeq(q) /\ Len(q) = Len(lsu_buf) - t + Len(new)
      /\ \A k \in 1 .. Len(lsu_buf) - t : q[k] = lsu_buf[k + t]
      /\ \A k \in 1 .. Len(new) : q[Len(lsu_buf) - t + k] = new[k]
  <2>1. RestFacts(q, lsu_buf, t, new)
    BY <1>4, RestAndNew, Zenon
  <2> QED BY <2>1, Zenon DEF RestFacts
<1>6. Len(new) \in Nat
  BY SeqType
<1>7. /\ IsSeq(lsu_buf') /\ Len(lsu_buf') = Len(lsu_buf) - t + Len(new)
      /\ \A k \in 1 .. Len(lsu_buf) - t : lsu_buf'[k] = lsu_buf[k + t]
      /\ \A k \in 1 .. Len(new) : lsu_buf'[Len(lsu_buf) - t + k] = new[k]
  BY <1>3, <1>5, Zenon
<1> QED BY <1>1, <1>6, <1>7 DEF NewBuf, t

(* What stays and what arrives are loads and stores.                       *)
LEMMA NewBufOK ==
  ASSUME BufOK, NEW new, NewBuf(new), \A k \in 1 .. Len(new) : new[k].ld \in BOOLEAN
  PROVE  BufOK'
<1> DEFINE b == Len(lsu_buf)
           m == Len(new)
           t == Taken
           b2 == Len(lsu_buf')
<1>1. /\ b \in Nat /\ m \in Nat /\ t \in 0 .. 2 /\ t <= b /\ b2 = b - t + m
  BY SeqType DEF BufOK, NewBuf
<1>2. ASSUME NEW k \in 1 .. b2 PROVE lsu_buf'[k].ld \in BOOLEAN
  <2>1. CASE k \in 1 .. b - t
    <3>1. k + t \in 1 .. b
      <4> HIDE DEF b, m, t, b2
      <4> QED BY <1>1, <2>1
    <3>2. lsu_buf'[k] = lsu_buf[k + t]
      BY <2>1 DEF NewBuf
    <3> QED BY <3>1, <3>2 DEF BufOK
  <2>2. CASE k \notin 1 .. b - t
    <3>1. PICK p \in 1 .. m : k = b - t + p
      <4> HIDE DEF b, m, t, b2
      <4>1. k - (b - t) \in 1 .. m /\ k = b - t + (k - (b - t))
        BY <1>1, <2>2
      <4> QED BY <4>1
    <3>2. lsu_buf'[k] = new[p]
      BY <3>1 DEF NewBuf
    <3> QED BY <3>1, <3>2
  <2> QED BY <2>1, <2>2
<1>3. PICK q : q = lsu_buf'
  OBVIOUS
<1>4. IsSeq(q) /\ \A k \in 1 .. Len(q) : q[k].ld \in BOOLEAN
  BY <1>2, <1>3 DEF NewBuf
<1> QED BY <1>3, <1>4 DEF BufOK, IsSeq

LEMMA AtTaken ==
  ASSUME BufOK, RobShape, OffersInOrder, AnswersTaken, NEW j, StoreAt(j) \/ LoadAt(j)
  PROVE  j \in 1 .. In + Taken
<1>1. In \in Nat /\ Taken \in 0 .. 2
  <2>1. In \in Nat
    <3>1. Len(rob) \in Nat /\ Len(lsu_buf) \in Nat /\ In >= 0
      BY SeqType DEF BufOK, RobShape
    <3> QED BY <3>1 DEF In
  <2>2. StoresTaken \in 0 .. Len(StuOffer) /\ LoadsTaken \in 0 .. Len(LduOffer)
        /\ Len(StuOffer) \in 0 .. 2 /\ Len(LduOffer) \in 0 .. 2
        /\ Len(StuOffer) + Len(LduOffer) <= 2
    BY TakenBounds
  <2>3. ASSUME NEW a \in 0 .. 2, NEW b \in 0 .. 2, a + b <= 2, NEW x \in 0 .. a, NEW y \in 0 .. b
        PROVE  x + y \in 0 .. 2
    BY <2>3
  <2> QED BY <2>1, <2>2, <2>3, Zenon DEF Taken
<1>2. ASSUME NEW p \in 1 .. Taken PROVE In + p \in 1 .. In + Taken
  BY <1>1
<1>3. CASE StoreAt(j)
  <2>1. PICK k \in 1 .. StoresTaken : j = In + Pos(FALSE, k)
    BY <1>3 DEF StoreAt
  <2>2. Pos(FALSE, k) \in 1 .. Taken
    BY TakenFirst
  <2> QED BY <1>2, <2>1, <2>2
<1>4. CASE \E k \in 1 .. 2 : v_ldq_ack_flag(k) /\ j = In + Pos(TRUE, k)
  <2>1. PICK k \in 1 .. 2 : v_ldq_ack_flag(k) /\ j = In + Pos(TRUE, k)
    BY <1>4
  <2>2. k <= LoadsTaken
    BY <2>1 DEF AnswersTaken
  <2>3. k \in 1 .. LoadsTaken
    <3>1. LoadsTaken \in 0 .. 2
      BY TakenBounds
    <3> QED BY <2>2, <3>1
  <2>4. Pos(TRUE, k) \in 1 .. Taken
    BY <2>3, TakenFirst
  <2> QED BY <1>2, <2>1, <2>4
<1>5. CASE j \in 1 .. In
  BY <1>1, <1>5
<1> QED BY <1>3, <1>4, <1>5 DEF LoadAt

LEMMA NextRobShape ==
  ASSUME BufOK, RobShape, workload \in Workloads, workload' = workload,
         OffersInOrder, AnswersTaken, ~Cancelling',
         LdqFlags, RobLoads, ~Cancelling, NEW g, LdqShape(g),
         NEW accs \in Batches, Fits(accs), NEW new, ArrivedFacts(new, accs),
         NEW n, NewRob(new, n), NewBuf(new)
  PROVE  RobShape' /\ BufOK' /\ In' = In - n + Taken
<1> DEFINE L == Len(rob)
           b == Len(lsu_buf)
           m == Len(new)
           t == Taken
           i == In
           L2 == Len(rob')
           b2 == Len(lsu_buf')
<1>1. /\ L \in Nat /\ b \in Nat /\ m \in Nat /\ i = L - b /\ i \in Nat
      /\ n \in Nat /\ n <= i /\ t \in 0 .. 2 /\ t <= b
      /\ L2 = L - n + m /\ b2 = b - t + m
  <2>1. L \in Nat /\ b \in Nat /\ i = L - b /\ i >= 0
    BY SeqType DEF BufOK, RobShape, In
  <2>2. m \in Nat /\ n \in Nat /\ n <= i /\ L2 = L - n + m
    BY DEF NewRob
  <2>3. t \in 0 .. 2 /\ t <= b /\ b2 = b - t + m
    BY DEF NewBuf
  <2> HIDE DEF L, b, i, m, t, L2, b2
  <2> QED BY <2>1, <2>2, <2>3
<1>2. In' = L2 - b2
  BY DEF In
<1>3. In' = i - n + t /\ L2 - b2 = i - n + t /\ L2 - b2 >= 0
  <2> HIDE DEF L, b, i, m, t, L2, b2
  <2> QED BY <1>1, <1>2
<1>4. IsSeq(rob') /\ IsSeq(lsu_buf')
  BY DEF NewRob, NewBuf
<1>5. /\ \A j \in 1 .. L2 : rob'[j].op.id = Wrap(rob'[1].op.id + j - 1, workload.in_flight)
      /\ L2 # 0 => rob'[1].op.id \in 0 .. workload.in_flight - 1
      /\ L2 <= workload.in_flight
  BY NextIds
<1>6. ASSUME NEW j \in 1 .. L2
      PROVE  \/ j \in 1 .. L - n
             \/ \E k \in 1 .. m : j = L - n + k
  <2> HIDE DEF L, m, L2
  <2>1. CASE j \notin 1 .. L - n
    <3>1. j - (L - n) \in 1 .. m /\ j = L - n + (j - (L - n))
      BY <1>1, <2>1
    <3> QED BY <3>1
  <2> QED BY <2>1
<1>7. ASSUME NEW j \in 1 .. L2
      PROVE  /\ rob'[j] = [op |-> rob'[j].op, done |-> rob'[j].done, entry |-> rob'[j].entry]
             /\ rob'[j].op.ld \in BOOLEAN /\ rob'[j].done \in BOOLEAN
  <2>1. CASE j \in 1 .. L - n
    <3>1. Moved(j, n)
      BY <2>1 DEF NewRob
    <3>2. n + j \in 1 .. L
      <4> HIDE DEF L, b, i, m, t, L2, b2
      <4> QED BY <1>1, <2>1
    <3>3. rob[n + j].op.ld \in BOOLEAN
      BY <3>2 DEF RobShape
    <3> QED BY <3>1, <3>3 DEF Moved
  <2>2. CASE \E k \in 1 .. m : j = L - n + k
    <3>1. PICK k \in 1 .. m : j = L - n + k
      BY <2>2
    <3>2. rob'[j] = [op |-> new[k], done |-> FALSE, entry |-> NONE]
      BY <3>1 DEF NewRob
    <3>3. new[k].ld \in BOOLEAN
      BY DEF ArrivedFacts
    <3> QED BY <3>2, <3>3
  <2> QED BY <1>6, <2>1, <2>2
<1>8. ASSUME NEW k \in 1 .. b2
      PROVE  rob'[(i - n + t) + k].op = lsu_buf'[k] /\ ~rob'[(i - n + t) + k].done
  <2> DEFINE j == (i - n + t) + k
  <2>1. CASE k \in 1 .. b - t
    <3>1. k + t \in 1 .. b /\ j \in 1 .. L - n /\ n + j = i + (k + t) /\ n + j \notin 1 .. i + t
      <4> HIDE DEF L, b, i, m, t, L2, b2
      <4> QED BY <1>1, <2>1
    <3>2. lsu_buf'[k] = lsu_buf[k + t]
      BY <2>1 DEF NewBuf
    <3>3. rob[i + (k + t)].op = lsu_buf[k + t] /\ ~rob[i + (k + t)].done
      BY <3>1 DEF RobShape
    <3>4. Moved(j, n)
      <4> HIDE DEF j
      <4> QED BY <3>1 DEF NewRob
    <3>5. ~StoreAt(n + j) /\ ~LoadAt(n + j)
      <4> HIDE DEF j, i, t
      <4> QED BY <3>1, AtTaken DEF i, t
    <3> HIDE DEF j, i, t
    <3> QED BY <3>1, <3>2, <3>3, <3>4, <3>5 DEF Moved, j
  <2>2. CASE k \notin 1 .. b - t
    <3> DEFINE o == k - (b - t)
    <3>1. o \in 1 .. m /\ b - t + o = k /\ j = L - n + o
      <4> HIDE DEF L, b, i, m, t, L2, b2
      <4> QED BY <1>1, <2>2
    <3> HIDE DEF j, o
    <3>2. lsu_buf'[k] = new[o]
      BY <3>1 DEF NewBuf
    <3>3. rob'[j] = [op |-> new[o], done |-> FALSE, entry |-> NONE]
      BY <3>1 DEF NewRob
    <3> QED BY <3>2, <3>3 DEF j
  <2> QED BY <2>1, <2>2
<1>9. \A k \in 1 .. b2 : lsu_buf'[k].ld \in BOOLEAN
  <2> TAKE k \in 1 .. b2
  <2>1. (i - n + t) + k \in 1 .. L2
    <3> HIDE DEF L, b, i, m, t, L2, b2
    <3> QED BY <1>1, <1>3
  <2> QED BY <1>7, <1>8, <2>1
<1>10. (rob' = <<>>) <=> L2 = 0
  <2>1. PICK q : q = rob'
    OBVIOUS
  <2>2. q = <<>> <=> Len(q) = 0
    BY <1>4, <2>1, SeqType
  <2> QED BY <2>1, <2>2
<1>11. BufOK'
  BY <1>4, <1>9 DEF BufOK
<1>12. RobShape'
  <2>1. \A k \in 1 .. b2 : rob'[In' + k].op = lsu_buf'[k] /\ ~rob'[In' + k].done
    BY <1>3, <1>8
  <2>2. In' >= 0
    BY <1>2, <1>3
  <2> QED BY <1>4, <1>5, <1>7, <1>10, <2>1, <2>2 DEF RobShape
<1> QED BY <1>3, <1>11, <1>12


-----------------------------------------------------------------------------
(* A set of numbers below some bound has a least one.                      *)
LEMMA Least ==
  ASSUME NEW m \in Nat, NEW T \in SUBSET (0 .. m - 1), T # {}
  PROVE  \E u \in T : \A t \in T : u <= t
<1> DEFINE U == {u \in 0 .. m - 1 : \A t \in T : u <= t}
<1> PICK t0 \in T : TRUE
  OBVIOUS
<1>1. U \in SUBSET (0 .. m - 1) /\ 0 \in U /\ \A j \in U : \A i \in 0 .. j : i \in U
  <2>1. 0 \in 0 .. m - 1 /\ \A t \in T : 0 <= t
    BY t0 \in 0 .. m - 1
  <2>2. ASSUME NEW j \in U, NEW i \in 0 .. j PROVE i \in U
    <3>1. \A t \in T : j <= t /\ t \in 0 .. m - 1
      OBVIOUS
    <3> QED BY <3>1
  <2> QED BY <2>1, <2>2
<1>2. Cardinality(U) \in 0 .. m /\ U = 0 .. Cardinality(U) - 1
  <2> HIDE DEF U
  <2> QED BY <1>1, DownClosed
<1> DEFINE u == Cardinality(U) - 1
<1>3. u \in Nat /\ u \in U /\ u + 1 \notin U
  <2> DEFINE k == Cardinality(U)
  <2>1. k \in 0 .. m /\ U = 0 .. k - 1 /\ 0 \in U
    BY <1>1, <1>2
  <2> HIDE DEF k, U
  <2>2. k - 1 \in Nat /\ k - 1 \in U /\ (k - 1) + 1 \notin U
    BY <2>1
  <2> QED BY <2>2 DEF k
<1> HIDE DEF u
<1>4. u \in T
  <2>1. SUFFICES ASSUME u \notin T PROVE FALSE
    OBVIOUS
  <2>2. \A t \in T : u + 1 <= t
    BY <1>3, <2>1
  <2>3. u + 1 \in 0 .. m - 1
    BY <1>3, <2>2, u + 1 <= t0, t0 \in 0 .. m - 1
  <2> QED BY <1>3, <2>2, <2>3
<1> QED BY <1>3, <1>4

-----------------------------------------------------------------------------
(* The load queue in a cycle that does not cancel.                         *)
Written(i) == \E k \in 1 .. LoadsTaken : i = LdqEntry(k)
MetAt(i)   == \E k \in 1 .. LoadsTaken : i = LdqEntry(k) /\ v_ldq_ack_flag(k)
Leaves(i)  == ldq_rd_en /\ i = ldq_rd_ptr

LEMMA LdqPlaces ==
  ASSUME BufOK, NEW g, LdqShape(g), LdqFlags, NEW i \in Ldq
  PROVE  /\ Written(i) => ~ldq_en[i]
         /\ MetAt(i) => Written(i)
         /\ Leaves(i) => ldq_en[i] /\ ((mem_req[i] /\ mem_ack[i]) \/ stq_ack[i])
         /\ Asks(i) => ~Leaves(i)
         /\ i \in v_mem_not_req => ~Leaves(i) /\ ldq_en[i] /\ ~mem_req[i] /\ ~stq_ack[i]
         /\ \A j, k \in 1 .. LoadsTaken : LdqEntry(j) = LdqEntry(k) => j = k
<1>1. \A k \in 1 .. LoadsTaken : LdqEntry(k) \in Ldq /\ LOff(LdqEntry(k)) = g + k - 1
  BY NewLoads
<1>2. g \in Nat /\ LoadsTaken \in 0 .. 2 /\ (ldq_en[i] => LOff(i) < g)
  <2>1. g \in 0 .. LDU_DEPTH /\ LDU_DEPTH \in Nat /\ (ldq_en[i] => LOff(i) < g)
    BY Depths DEF LdqShape
  <2> QED BY <2>1, TakenBounds
<1>3. ASSUME Written(i) PROVE ~ldq_en[i]
  <2>1. PICK k \in 1 .. LoadsTaken : i = LdqEntry(k)
    BY <1>3 DEF Written
  <2>2. LOff(i) = g + k - 1
    BY <1>1, <2>1
  <2> QED BY <1>2, <2>2
<1>4. ASSUME NEW j \in 1 .. LoadsTaken, NEW k \in 1 .. LoadsTaken, LdqEntry(j) = LdqEntry(k) PROVE j = k
  <2>1. g + j - 1 = g + k - 1
    BY <1>1, <1>4
  <2> QED BY <1>2, <2>1
<1>5. MetAt(i) => Written(i)
  BY DEF MetAt, Written
<1>6. Leaves(i) => ldq_en[i] /\ ((mem_req[i] /\ mem_ack[i]) \/ stq_ack[i])
  BY DEF Leaves, ldq_rd_en, LdqFlags
<1>7. Asks(i) => ~Leaves(i)
  BY <1>6 DEF Asks
<1>8. i \in v_mem_not_req => ~Leaves(i) /\ ldq_en[i] /\ ~mem_req[i] /\ ~stq_ack[i]
  BY <1>6 DEF v_mem_not_req
<1> QED BY <1>3, <1>4, <1>5, <1>6, <1>7, <1>8

LEMMA RequestIs ==
  ASSUME NEW g, LdqShape(g)
  PROVE  \/ Request \in v_mem_not_req
         \/ /\ v_mem_not_req = {} /\ LoadsTaken > 0 /\ ~v_ldq_ack_flag(1) /\ Request = ldq_wr_ptr
         \/ /\ v_mem_not_req = {} /\ Request = NONE
<1> DEFINE V == v_mem_not_req
           T == {Waited(i) : i \in V}
<1>1. LDU_DEPTH \in Nat \ {0} /\ ldq_wr_ptr \in Int
  BY Depths DEF LdqShape, Wrap, Ldq
<1>2. V \subseteq Ldq
  BY DEF v_mem_not_req
<1>3. T \in SUBSET (0 .. LDU_DEPTH - 1)
  <2>1. ASSUME NEW i \in V PROVE Waited(i) \in 0 .. LDU_DEPTH - 1
    <3>1. i \in Int
      BY <1>1, <1>2 DEF Ldq
    <3> QED BY <1>1, <3>1 DEF Waited
  <2> QED BY <2>1
<1>4. CASE V # {}
  <2>1. PICK u \in T : \A t \in T : u <= t
    <3>1. T # {}
      BY <1>4
    <3> HIDE DEF T
    <3> QED BY <1>1, <1>3, <3>1, Least
  <2>2. \E i \in V : \A j \in V : Waited(i) <= Waited(j)
    BY <2>1
  <2>3. Request = CHOOSE i \in V : \A j \in V : Waited(i) <= Waited(j)
    BY <1>4 DEF Request
  <2> HIDE DEF V
  <2>4. Request \in V
    BY <2>2, <2>3
  <2> QED BY <2>4 DEF V
<1>5. CASE V = {}
  BY <1>5 DEF Request
<1> QED BY <1>4, <1>5


NewLdq ==
  /\ stq_flag' = stq_ack'
  /\ \A f \in {ldq_en', stq_ack', mem_req', mem_ack'} : f \in [Ldq -> BOOLEAN]
  /\ \A i \in Ldq :
       /\ ldq_en'[i] <=> Written(i) \/ (ldq_en[i] /\ ~Leaves(i))
       /\ stq_ack'[i] <=> MetAt(i) \/ (stq_ack[i] /\ ~Leaves(i))
       /\ mem_req'[i] <=> i = Request \/ (mem_req[i] /\ ~Leaves(i))
       /\ mem_ack'[i] <=> (answer # NONE /\ i = answer.entry) \/ (mem_ack[i] /\ ~Leaves(i))

LEMMA NewLdqIs ==
  ASSUME BufOK, LdqFlags, AnswersTaken,
         NextLdqFlags(LoadsTaken, Request, branch_ack_vld(FALSE), FALSE)
  PROVE  NewLdq
<1> DEFINE written == {LdqEntry(k) : k \in 1 .. LoadsTaken}
           met == {LdqEntry(k) : k \in {j \in 1 .. 2 : v_ldq_ack_flag(j)}}
           some == IF LoadsTaken > 0 THEN met ELSE {}
           leaving == IF ldq_rd_en THEN {ldq_rd_ptr} ELSE {}
           acked == IF branch_ack_vld(FALSE) THEN {answer.entry} ELSE {}
<1>1. /\ ldq_en' = [i \in Ldq |-> ~FALSE /\ (i \in written \/ (ldq_en[i] /\ i \notin leaving))]
      /\ stq_flag' = [i \in Ldq |-> ~FALSE /\ (i \in some \/ (stq_flag[i] /\ i \notin leaving))]
      /\ stq_ack' = [i \in Ldq |-> ~FALSE /\ (i \in met \/ (stq_ack[i] /\ i \notin leaving))]
      /\ mem_req' = [i \in Ldq |-> ~FALSE /\ (i \in {Request} \/ (mem_req[i] /\ i \notin leaving))]
      /\ mem_ack' = [i \in Ldq |-> ~FALSE /\ (i \in acked \/ (mem_ack[i] /\ i \notin leaving))]
  BY Zenon DEF NextLdqFlags
<1>2. LoadsTaken \in 0 .. 2 /\ \A k \in 1 .. 2 : v_ldq_ack_flag(k) => k \in 1 .. LoadsTaken
  <2>1. LoadsTaken \in 0 .. 2 /\ \A k \in 1 .. 2 : v_ldq_ack_flag(k) => k <= LoadsTaken
    BY TakenBounds DEF AnswersTaken
  <2> QED BY <2>1
<1>3. \A k \in 1 .. LoadsTaken : k \in 1 .. 2
  BY <1>2
<1>4. some = met
  <2>1. CASE LoadsTaken > 0
    BY <2>1
  <2>2. CASE ~(LoadsTaken > 0)
    <3>1. 1 .. LoadsTaken = {}
      BY <1>2, <2>2
    <3>2. met = {}
      BY <1>2, <3>1
    <3> QED BY <2>2, <3>2
  <2> QED BY <2>1, <2>2
<1>5. ASSUME NEW i \in Ldq
      PROVE  /\ i \in written <=> Written(i)
             /\ i \in met <=> MetAt(i)
             /\ i \in leaving <=> Leaves(i)
             /\ i \in acked <=> answer # NONE /\ i = answer.entry
  <2>1. i \in written <=> Written(i)
    BY DEF Written
  <2>2. i \in met <=> MetAt(i)
    BY <1>2, <1>3 DEF MetAt
  <2>3. i \in leaving <=> Leaves(i)
    BY DEF Leaves
  <2>4. branch_ack_vld(FALSE) <=> answer # NONE
    BY DEF branch_ack_vld, LdqFlags
  <2> QED BY <2>1, <2>2, <2>3, <2>4
<1> HIDE DEF written, met, some, leaving, acked
<1>6. stq_flag' = stq_ack'
  <2>1. stq_flag = stq_ack
    BY DEF LdqFlags
  <2> QED BY <1>1, <1>4, <2>1
<1>7. /\ ldq_en' \in [Ldq -> BOOLEAN] /\ stq_ack' \in [Ldq -> BOOLEAN]
      /\ mem_req' \in [Ldq -> BOOLEAN] /\ mem_ack' \in [Ldq -> BOOLEAN]
  BY <1>1
<1>8. ASSUME NEW i \in Ldq
      PROVE  /\ ldq_en'[i] <=> Written(i) \/ (ldq_en[i] /\ ~Leaves(i))
             /\ stq_ack'[i] <=> MetAt(i) \/ (stq_ack[i] /\ ~Leaves(i))
             /\ mem_req'[i] <=> i = Request \/ (mem_req[i] /\ ~Leaves(i))
             /\ mem_ack'[i] <=> (answer # NONE /\ i = answer.entry) \/ (mem_ack[i] /\ ~Leaves(i))
  BY <1>1, <1>5
<1> QED BY <1>6, <1>7, <1>8 DEF NewLdq

(* The request asked in a cycle is what memory answers in the next one.    *)
NewAnswer(branch) ==
  /\ Request = NONE => answer' = NONE
  /\ Request # NONE => answer' # NONE /\ answer'.entry = Request /\ answer'.branch = branch

LEMMA NextLdqFlagsAre ==
  ASSUME BufOK, NEW g, LdqShape(g), LdqFlags, AnswersTaken, ~Cancelling, ~Cancelling',
         NONE \notin Ldq, NewLdq, NewAnswer(req_branch_id'), req_branch_id' = req_branch_id
  PROVE  LdqFlags'
<1>1. /\ stq_ack \in [Ldq -> BOOLEAN] /\ mem_req \in [Ldq -> BOOLEAN] /\ mem_ack \in [Ldq -> BOOLEAN]
      /\ \A i \in Ldq : ~ldq_en[i] => ~stq_ack[i] /\ ~mem_req[i] /\ ~mem_ack[i]
      /\ \A i \in Ldq : (mem_ack[i] => mem_req[i]) /\ (mem_req[i] => ~stq_ack[i])
      /\ \A i \in Ldq : mem_req[i] /\ ~mem_ack[i] <=> answer # NONE /\ answer.entry = i
  BY DEF LdqFlags
<1>2. ldq_wr_ptr \in Ldq /\ ldq_wr_ptr = LdqEntry(1)
  BY NewLoads
<1>3. Request # NONE => Request \in Ldq
  BY <1>2, RequestIs DEF v_mem_not_req
<1>4. ASSUME NEW i \in Ldq
      PROVE  /\ ~ldq_en'[i] => ~stq_ack'[i] /\ ~mem_req'[i] /\ ~mem_ack'[i]
             /\ mem_ack'[i] => mem_req'[i]
             /\ mem_req'[i] => ~stq_ack'[i]
             /\ mem_req'[i] /\ ~mem_ack'[i] <=> answer' # NONE /\ answer'.entry = i
  <2>1. /\ ldq_en'[i] <=> Written(i) \/ (ldq_en[i] /\ ~Leaves(i))
        /\ stq_ack'[i] <=> MetAt(i) \/ (stq_ack[i] /\ ~Leaves(i))
        /\ mem_req'[i] <=> i = Request \/ (mem_req[i] /\ ~Leaves(i))
        /\ mem_ack'[i] <=> (answer # NONE /\ i = answer.entry) \/ (mem_ack[i] /\ ~Leaves(i))
    BY DEF NewLdq
  <2>2. /\ Written(i) => ~ldq_en[i]
        /\ MetAt(i) => Written(i)
        /\ Leaves(i) => ldq_en[i] /\ ((mem_req[i] /\ mem_ack[i]) \/ stq_ack[i])
        /\ i \in v_mem_not_req => ~Leaves(i) /\ ldq_en[i] /\ ~mem_req[i] /\ ~stq_ack[i]
    BY LdqPlaces
  <2>3. i = Request =>
          \/ i \in v_mem_not_req
          \/ Written(i) /\ ~MetAt(i)
    <3>1. SUFFICES ASSUME i = Request, i \notin v_mem_not_req PROVE Written(i) /\ ~MetAt(i)
      OBVIOUS
    <3>2. LoadsTaken > 0 /\ ~v_ldq_ack_flag(1) /\ i = ldq_wr_ptr
      BY <3>1, RequestIs
    <3>3. 1 \in 1 .. LoadsTaken
      <4>1. LoadsTaken \in 0 .. 2
        BY TakenBounds
      <4> QED BY <3>2, <4>1
    <3>4. \A k \in 1 .. LoadsTaken : LdqEntry(k) = LdqEntry(1) => k = 1
      BY <3>3, LdqPlaces
    <3> QED BY <1>2, <3>2, <3>3, <3>4 DEF Written, MetAt
  <2>4. (answer' # NONE /\ answer'.entry = i) <=> i = Request
    BY DEF NewAnswer
  <2> QED BY <1>1, <2>1, <2>2, <2>3, <2>4
<1>5. answer' # NONE => answer'.entry \in Ldq /\ answer'.branch = req_branch_id'
  BY <1>3 DEF NewAnswer
<1>6. /\ stq_flag' = stq_ack' /\ stq_ack' \in [Ldq -> BOOLEAN]
      /\ mem_req' \in [Ldq -> BOOLEAN] /\ mem_ack' \in [Ldq -> BOOLEAN]
  BY DEF NewLdq
<1> QED BY <1>4, <1>5, <1>6 DEF LdqFlags


-----------------------------------------------------------------------------
(* Who asks memory in the next cycle, and with what.                       *)
NewAsks ==
  /\ \A k \in 1 .. LoadsTaken : \E i \in Ldq : i = LdqEntry(k)
  /\ \A i \in Ldq : \A k \in 1 .. LoadsTaken : i = LdqEntry(k) =>
       /\ Written(i) /\ ldq_pld'[i] = LduOffer[k]
       /\ Asks(i)' <=> ~v_ldq_ack_flag(k)
  /\ \A i \in Ldq : ~Written(i) =>
       /\ ldq_en'[i] => ldq_en[i] /\ ldq_pld'[i] = ldq_pld[i]
       /\ Asks(i)' <=> Asks(i) /\ ~(answer # NONE /\ i = answer.entry)
  /\ \A i \in Ldq : Asks(i) => ~Written(i)

LEMMA NewAsksAre ==
  ASSUME BufOK, NEW g, LdqShape(g), LdqFlags, ~Cancelling, NewLdq,
         NextLdqPld(LoadsTaken, Request)
  PROVE  NewAsks
<1>1. \A i \in Ldq :
       /\ ldq_en'[i] <=> Written(i) \/ (ldq_en[i] /\ ~Leaves(i))
       /\ stq_ack'[i] <=> MetAt(i) \/ (stq_ack[i] /\ ~Leaves(i))
       /\ mem_ack'[i] <=> (answer # NONE /\ i = answer.entry) \/ (mem_ack[i] /\ ~Leaves(i))
  BY DEF NewLdq
<1>2. \A i \in Ldq : /\ Written(i) => ~ldq_en[i]
                     /\ MetAt(i) => Written(i)
                     /\ Asks(i) => ~Leaves(i)
  BY LdqPlaces
<1>3. /\ \A i \in Ldq : ~ldq_en[i] => ~stq_ack[i] /\ ~mem_ack[i]
      /\ answer # NONE => answer.entry \in Ldq /\ ldq_en[answer.entry]
  BY AnswerAsks DEF LdqFlags, Asks
<1>4. ASSUME NEW i \in Ldq, NEW k \in 1 .. LoadsTaken, i = LdqEntry(k)
      PROVE  /\ Written(i) /\ ldq_pld'[i] = LduOffer[k]
             /\ Asks(i)' <=> ~v_ldq_ack_flag(k)
  <2>1. Written(i)
    BY <1>4 DEF Written
  <2>2. MetAt(i) <=> v_ldq_ack_flag(k)
    <3>1. \A m \in 1 .. LoadsTaken : LdqEntry(m) = LdqEntry(k) => m = k
      BY LdqPlaces
    <3> QED BY <1>4, <3>1 DEF MetAt
  <2>3. ldq_en'[i] /\ (stq_ack'[i] <=> MetAt(i)) /\ ~mem_ack'[i]
    BY <1>1, <1>2, <1>3, <2>1
  <2>4. ldq_pld'[i] = LduOffer[k]
    BY <1>4, <2>3, LdqPldIs
  <2> QED BY <2>1, <2>2, <2>3, <2>4 DEF Asks
<1>5. ASSUME NEW i \in Ldq, ~Written(i)
      PROVE  /\ ldq_en'[i] => ldq_en[i] /\ ldq_pld'[i] = ldq_pld[i]
             /\ Asks(i)' <=> Asks(i) /\ ~(answer # NONE /\ i = answer.entry)
  <2>1. ldq_en'[i] => ldq_en[i]
    BY <1>1, <1>5
  <2>2. ldq_en'[i] => ldq_pld'[i] = ldq_pld[i]
    BY <2>1, LdqPldIs
  <2>3. /\ ldq_en'[i] <=> ldq_en[i] /\ ~Leaves(i)
        /\ stq_ack'[i] <=> stq_ack[i] /\ ~Leaves(i)
        /\ mem_ack'[i] <=> (answer # NONE /\ i = answer.entry) \/ (mem_ack[i] /\ ~Leaves(i))
    BY <1>1, <1>2, <1>5
  <2>4. Asks(i) => ~Leaves(i)
    BY <1>2
  <2> QED BY <2>1, <2>2, <2>3, <2>4 DEF Asks
<1>6. \A k \in 1 .. LoadsTaken : \E i \in Ldq : i = LdqEntry(k)
  BY NewLoads
<1>7. \A i \in Ldq : Asks(i) => ~Written(i)
  BY <1>2 DEF Asks
<1> QED BY <1>4, <1>5, <1>6, <1>7 DEF NewAsks

(* The loads taken, in rob.                                                *)
LEMMA TakenLoads ==
  ASSUME BufOK, RobShape, OffersInOrder, AnswersTaken, NEW k \in 1 .. LoadsTaken
  PROVE  /\ Pos(TRUE, k) \in 1 .. Taken
         /\ In + Pos(TRUE, k) \in 1 .. Len(rob) /\ In + Pos(TRUE, k) > In
         /\ rob[In + Pos(TRUE, k)].op = LduOffer[k] /\ ~rob[In + Pos(TRUE, k)].done
         /\ LduOffer[k].ld = TRUE
         /\ ~StoreAt(In + Pos(TRUE, k))
         /\ LoadAt(In + Pos(TRUE, k)) <=> v_ldq_ack_flag(k)
<1>1. OfferFacts(LduOffer, TRUE) /\ TRUE \in BOOLEAN /\ k \in 1 .. Len(LduOffer)
      /\ OfferFacts(StuOffer, FALSE) /\ FALSE \in BOOLEAN
  BY TakenOffered, Zenon
<1>2. /\ In \in Nat /\ In + Pos(TRUE, k) \in 1 .. Len(rob) /\ In + Pos(TRUE, k) > In
      /\ rob[In + Pos(TRUE, k)].op = LduOffer[k] /\ LduOffer[k].ld = TRUE
      /\ ~rob[In + Pos(TRUE, k)].done
  BY <1>1, OfferInRob, Zenon
<1>3. Pos(TRUE, k) \in 1 .. Taken
  BY TakenFirst
<1>4. ~StoreAt(In + Pos(TRUE, k))
  <2>1. ASSUME NEW s \in 1 .. StoresTaken, In + Pos(TRUE, k) = In + Pos(FALSE, s) PROVE FALSE
    <3>1. s \in 1 .. Len(StuOffer)
      BY TakenOffered, Zenon
    <3>2. rob[In + Pos(FALSE, s)].op = StuOffer[s] /\ StuOffer[s].ld = FALSE
      BY <1>1, <3>1, OfferInRob, Zenon
    <3> QED BY <1>2, <2>1, <3>2
  <2> QED BY <2>1 DEF StoreAt
<1>5. LoadAt(In + Pos(TRUE, k)) <=> v_ldq_ack_flag(k)
  <2>1. ASSUME NEW j \in 1 .. 2, v_ldq_ack_flag(j), In + Pos(TRUE, k) = In + Pos(TRUE, j)
        PROVE  j = k
    <3>1. j \in 1 .. Len(LduOffer)
      BY <2>1, TakenOffered, Zenon
    <3>2. /\ \A a, b \in 1 .. Len(LduOffer) : a < b => Pos(TRUE, a) < Pos(TRUE, b)
          /\ Pos(TRUE, k) \in 1 .. 2 /\ Pos(TRUE, j) \in 1 .. 2
      BY <1>1, <3>1, PosOrder
    <3>3. Pos(TRUE, k) = Pos(TRUE, j)
      <4>1. \A a, b \in 1 .. 2 : \A i \in Nat : i + a = i + b => a = b
        OBVIOUS
      <4> QED BY <1>2, <2>1, <3>2, <4>1, Zenon
    <3>4. \A a, b \in 1 .. 2 : a < b => a # b
      OBVIOUS
    <3>5. ~(j < k) /\ ~(k < j)
      BY <1>1, <3>1, <3>2, <3>3, <3>4
    <3>6. k \in Int /\ j \in Int
      OBVIOUS
    <3> QED BY <3>5, <3>6
  <2>2. In + Pos(TRUE, k) \notin 1 .. In
    <3>1. \A i \in Nat : \A x : x > i => x \notin 1 .. i
      OBVIOUS
    <3> QED BY <1>2, <3>1, Zenon
  <2>3. v_ldq_ack_flag(k) => k \in 1 .. 2
    <3>1. LoadsTaken \in 0 .. 2
      BY TakenBounds
    <3> QED BY <3>1
  <2> QED BY <2>1, <2>2, <2>3 DEF LoadAt
<1> QED BY <1>2, <1>3, <1>4, <1>5


(* Which operations are not done in the next cycle.                        *)
LEMMA NotDone ==
  ASSUME BufOK, RobShape, OffersInOrder, AnswersTaken,
         NEW new, NEW n, NewRob(new, n), NewBuf(new), In' = In - n + Taken
  PROVE  /\ In \in Nat /\ n \in Nat /\ n <= In /\ Taken \in 0 .. 2 /\ In' = In - n + Taken
         /\ In + Taken <= Len(rob) /\ Len(rob) \in Nat
         /\ \A j \in 1 .. In' : /\ n + j \in 1 .. In + Taken /\ rob'[j].op = rob[n + j].op
                                /\ ~rob'[j].done <=> ~rob[n + j].done /\ ~StoreAt(n + j) /\ ~LoadAt(n + j)
<1> DEFINE L == Len(rob)
           b == Len(lsu_buf)
           i == In
           t == Taken
<1>1. /\ L \in Nat /\ b \in Nat /\ i = L - b /\ i \in Nat /\ n \in Nat /\ n <= i
      /\ t \in 0 .. 2 /\ t <= b
  <2>1. L \in Nat /\ b \in Nat /\ i = L - b /\ i >= 0
    BY SeqType DEF BufOK, RobShape, In
  <2>2. n \in Nat /\ n <= i /\ t \in 0 .. 2 /\ t <= b
    BY DEF NewRob, NewBuf
  <2> HIDE DEF L, b, i, t
  <2> QED BY <2>1, <2>2
<1>2. i + t <= L
  <2> HIDE DEF L, b, i, t
  <2> QED BY <1>1
<1>3. ASSUME NEW j \in 1 .. In'
      PROVE  /\ n + j \in 1 .. i + t /\ rob'[j].op = rob[n + j].op
             /\ ~rob'[j].done <=> ~rob[n + j].done /\ ~StoreAt(n + j) /\ ~LoadAt(n + j)
  <2>1. j \in 1 .. i - n + t
    OBVIOUS
  <2>2. n + j \in 1 .. i + t /\ j \in 1 .. L - n
    <3> HIDE DEF L, b, i, t
    <3> QED BY <1>1, <2>1
  <2>3. Moved(j, n)
    BY <2>2 DEF NewRob
  <2> QED BY <2>2, <2>3 DEF Moved
<1> QED BY <1>1, <1>2, <1>3

LEMMA NextRobLoads ==
  ASSUME BufOK, RobShape, workload \in Workloads, OffersInOrder, AnswersTaken,
         LdqFlags, RobLoads, ~Cancelling, NEW g, LdqShape(g), NEW new, NEW n, LegalRetire(n),
         NewRob(new, n), NewBuf(new), In' = In - n + Taken,
         NewLdq, NextLdqPld(LoadsTaken, Request)
  PROVE  RobLoads'
<1> DEFINE i0 == In
           t == Taken
           L == Len(rob)
<1>1. /\ i0 \in Nat /\ n \in Nat /\ n <= i0 /\ t \in 0 .. 2 /\ In' = i0 - n + t
      /\ i0 + t <= L /\ L \in Nat
      /\ \A j \in 1 .. In' : /\ n + j \in 1 .. i0 + t /\ rob'[j].op = rob[n + j].op
                             /\ ~rob'[j].done <=> ~rob[n + j].done /\ ~StoreAt(n + j) /\ ~LoadAt(n + j)
  BY NotDone
<1>2. /\ \A k \in 1 .. LoadsTaken : \E i \in Ldq : i = LdqEntry(k)
      /\ \A i \in Ldq : \A k \in 1 .. LoadsTaken : i = LdqEntry(k) =>
           /\ Written(i) /\ ldq_pld'[i] = LduOffer[k]
           /\ Asks(i)' <=> ~v_ldq_ack_flag(k)
      /\ \A i \in Ldq : ~Written(i) =>
           /\ ldq_en'[i] => ldq_en[i] /\ ldq_pld'[i] = ldq_pld[i]
           /\ Asks(i)' <=> Asks(i) /\ ~(answer # NONE /\ i = answer.entry)
      /\ \A i \in Ldq : Asks(i) => ~Written(i)
  BY NewAsksAre DEF NewAsks
<1>3. \A k \in 1 .. LoadsTaken :
         /\ Pos(TRUE, k) \in 1 .. t
         /\ i0 + Pos(TRUE, k) \in 1 .. L /\ i0 + Pos(TRUE, k) > i0
         /\ rob[i0 + Pos(TRUE, k)].op = LduOffer[k] /\ ~rob[i0 + Pos(TRUE, k)].done
         /\ LduOffer[k].ld = TRUE
         /\ ~StoreAt(i0 + Pos(TRUE, k))
         /\ LoadAt(i0 + Pos(TRUE, k)) <=> v_ldq_ack_flag(k)
  BY TakenLoads
<1>4. /\ \A i \in Ldq : ldq_en[i] => ldq_pld[i].ld
      /\ \A i \in Ldq : Asks(i) => \E j \in 1 .. i0 : ~rob[j].done /\ rob[j].op = ldq_pld[i]
      /\ \A j \in 1 .. i0 : ~rob[j].done => \E i \in Ldq : Asks(i) /\ ldq_pld[i] = rob[j].op
      /\ \A i, k \in Ldq : Asks(i) /\ Asks(k) /\ ldq_pld[i] = ldq_pld[k] => i = k
  BY DEF RobLoads
<1>5. \A i \in Ldq : Written(i) => \E k \in 1 .. LoadsTaken : i = LdqEntry(k)
  BY DEF Written
<1>6. \A i \in Ldq : Asks(i)' => ldq_en'[i]
  BY DEF Asks
<1>7. answer # NONE => answer.entry \in Ldq /\ Asks(answer.entry)
  BY AnswerAsks
<1>8. \A j, k \in 1 .. L : rob[j].op = rob[k].op => j = k
  BY OpsDiffer
<1>9. \A j \in 1 .. i0 : ~StoreAt(j) /\ (LoadAt(j) <=> ~rob[j].done /\ answer # NONE /\ rob[j].op = ldq_pld[answer.entry])
  <2> TAKE j \in 1 .. i0
  <2>1. \A x : x > i0 => j # x
    BY <1>1
  <2>2. ASSUME NEW k \in 1 .. StoresTaken PROVE j # i0 + Pos(FALSE, k)
    <3>1. k \in 1 .. Len(StuOffer) /\ OfferFacts(StuOffer, FALSE) /\ FALSE \in BOOLEAN
      BY TakenOffered, Zenon
    <3>2. i0 + Pos(FALSE, k) > i0
      BY <3>1, OfferInRob, Zenon
    <3> QED BY <2>1, <3>2, Zenon
  <2>3. ASSUME NEW k \in 1 .. 2, v_ldq_ack_flag(k) PROVE j # i0 + Pos(TRUE, k)
    <3>1. k \in 1 .. Len(LduOffer) /\ OfferFacts(LduOffer, TRUE) /\ TRUE \in BOOLEAN
      BY <2>3, TakenOffered, Zenon
    <3>2. i0 + Pos(TRUE, k) > i0
      BY <3>1, OfferInRob, Zenon
    <3> QED BY <2>1, <3>2, Zenon
  <2> QED BY <2>2, <2>3 DEF StoreAt, LoadAt
<1>10. \A k \in 1 .. n : rob[k].done
  BY DEF LegalRetire
<1> HIDE DEF i0, t, L
<1>11. ASSUME NEW i \in Ldq, ldq_en'[i] PROVE ldq_pld'[i].ld
  <2>1. CASE Written(i)
    <3>1. PICK k \in 1 .. LoadsTaken : i = LdqEntry(k)
      BY <1>5, <2>1
    <3> QED BY <1>2, <1>3, <3>1
  <2>2. CASE ~Written(i)
    BY <1>2, <1>4, <1>11, <2>2
  <2> QED BY <2>1, <2>2
<1>12. ASSUME NEW i \in Ldq, Asks(i)'
       PROVE  \E j \in 1 .. In' : ~rob'[j].done /\ rob'[j].op = ldq_pld'[i]
  <2>1. CASE Written(i)
    <3>1. PICK k \in 1 .. LoadsTaken : i = LdqEntry(k)
      BY <1>5, <2>1
    <3>2. PICK p \in 1 .. t : p = Pos(TRUE, k)
      BY <1>3
    <3>3. /\ rob[i0 + p].op = LduOffer[k] /\ ~rob[i0 + p].done
          /\ ~StoreAt(i0 + p) /\ (LoadAt(i0 + p) <=> v_ldq_ack_flag(k))
      BY <1>3, <3>2
    <3> DEFINE j == i0 - n + p
    <3>4. j \in 1 .. In' /\ n + j = i0 + p
      BY <1>1
    <3>5. ~v_ldq_ack_flag(k) /\ ldq_pld'[i] = LduOffer[k]
      BY <1>2, <1>12, <3>1
    <3> HIDE DEF j
    <3>6. rob'[j].op = rob[i0 + p].op /\ ~rob'[j].done
      BY <1>1, <3>3, <3>4, <3>5
    <3> QED BY <3>3, <3>4, <3>5, <3>6
  <2>2. CASE ~Written(i)
    <3>1. Asks(i) /\ ~(answer # NONE /\ i = answer.entry) /\ ldq_pld'[i] = ldq_pld[i]
      BY <1>2, <1>6, <1>12, <2>2
    <3>2. PICK m \in 1 .. i0 : ~rob[m].done /\ rob[m].op = ldq_pld[i]
      BY <1>4, <3>1
    <3>3. ~StoreAt(m) /\ ~LoadAt(m)
      BY <1>4, <1>7, <1>9, <3>1, <3>2
    <3>4. m \notin 1 .. n
      BY <1>10, <3>2
    <3> DEFINE j == m - n
    <3>5. j \in 1 .. In' /\ n + j = m
      BY <1>1, <3>4
    <3> HIDE DEF j
    <3>6. rob'[j].op = rob[m].op /\ ~rob'[j].done
      BY <1>1, <3>2, <3>3, <3>5
    <3> QED BY <3>1, <3>2, <3>5, <3>6
  <2> QED BY <2>1, <2>2
<1>13. ASSUME NEW j \in 1 .. In', ~rob'[j].done
       PROVE  \E i \in Ldq : Asks(i)' /\ ldq_pld'[i] = rob'[j].op
  <2>1. /\ rob'[j].op = rob[n + j].op /\ ~rob[n + j].done /\ ~StoreAt(n + j) /\ ~LoadAt(n + j)
        /\ n + j \in 1 .. i0 + t
    BY <1>1, <1>13
  <2>2. CASE n + j \in 1 .. i0
    <3>1. PICK i \in Ldq : Asks(i) /\ ldq_pld[i] = rob[n + j].op
      BY <1>4, <2>1, <2>2
    <3>2. ~(answer # NONE /\ i = answer.entry)
      BY <1>9, <2>1, <2>2, <3>1
    <3>3. Asks(i)' /\ ldq_pld'[i] = ldq_pld[i]
      BY <1>2, <1>6, <3>1, <3>2
    <3> QED BY <2>1, <3>1, <3>3
  <2>3. CASE n + j \notin 1 .. i0
    <3>1. PICK p \in 1 .. t : n + j = i0 + p
      <4>1. n + j - i0 \in 1 .. t /\ n + j = i0 + (n + j - i0)
        BY <1>1, <2>1, <2>3
      <4> QED BY <4>1
    <3>2. IF lsu_buf[p].ld THEN \E k \in 1 .. LoadsTaken : Pos(TRUE, k) = p
                           ELSE \E k \in 1 .. StoresTaken : Pos(FALSE, k) = p
      BY TakenFirst DEF t
    <3>3. PICK k \in 1 .. LoadsTaken : Pos(TRUE, k) = p
      BY <2>1, <3>1, <3>2 DEF StoreAt, i0
    <3>4. /\ rob[i0 + p].op = LduOffer[k] /\ (LoadAt(i0 + p) <=> v_ldq_ack_flag(k))
      BY <1>3, <3>3
    <3>5. PICK i \in Ldq : i = LdqEntry(k)
      BY <1>2
    <3>6. Asks(i)' /\ ldq_pld'[i] = LduOffer[k]
      BY <1>2, <2>1, <3>1, <3>4, <3>5
    <3> QED BY <2>1, <3>1, <3>4, <3>6
  <2> QED BY <2>2, <2>3
<1>14. ASSUME NEW i \in Ldq, NEW m \in Ldq, Asks(i)', Asks(m)', ldq_pld'[i] = ldq_pld'[m], Written(i)
       PROVE  i = m
  <2>1. PICK k \in 1 .. LoadsTaken : i = LdqEntry(k)
    BY <1>5, <1>14
  <2>2. /\ ldq_pld'[i] = rob[i0 + Pos(TRUE, k)].op
        /\ i0 + Pos(TRUE, k) \in 1 .. L /\ i0 + Pos(TRUE, k) > i0 /\ Pos(TRUE, k) \in 1 .. t
    BY <1>2, <1>3, <2>1
  <2>3. CASE Written(m)
    <3>1. PICK o \in 1 .. LoadsTaken : m = LdqEntry(o)
      BY <1>5, <2>3
    <3>2. /\ ldq_pld'[m] = rob[i0 + Pos(TRUE, o)].op
          /\ i0 + Pos(TRUE, o) \in 1 .. L
      BY <1>2, <1>3, <3>1
    <3>3. i0 + Pos(TRUE, k) = i0 + Pos(TRUE, o)
      BY <1>8, <1>14, <2>2, <3>2
    <3>4. k = o
      <4>1. k \in 1 .. Len(LduOffer) /\ o \in 1 .. Len(LduOffer)
        BY TakenOffered, Zenon
      <4>2. /\ \A a, b \in 1 .. Len(LduOffer) : a < b => Pos(TRUE, a) < Pos(TRUE, b)
            /\ Pos(TRUE, k) \in 1 .. 2 /\ Pos(TRUE, o) \in 1 .. 2
        BY <4>1, PosOrder
      <4>3. Pos(TRUE, k) = Pos(TRUE, o)
        <5>1. \A a, b \in 1 .. 2 : i0 + a = i0 + b => a = b
          BY <1>1
        <5> QED BY <3>3, <4>2, <5>1, Zenon
      <4>4. \A a, b \in 1 .. 2 : a < b => a # b
        OBVIOUS
      <4>5. ~(k < o) /\ ~(o < k)
        BY <4>1, <4>2, <4>3, <4>4
      <4>6. k \in Int /\ o \in Int
        OBVIOUS
      <4> QED BY <4>5, <4>6
    <3> QED BY <2>1, <3>1, <3>4
  <2>4. CASE ~Written(m)
    <3>1. Asks(m) /\ ldq_pld'[m] = ldq_pld[m]
      BY <1>2, <1>6, <1>14, <2>4
    <3>2. PICK j \in 1 .. i0 : rob[j].op = ldq_pld[m]
      BY <1>4, <3>1
    <3>3. j \in 1 .. L /\ \A x : x > i0 => j # x
      BY <1>1
    <3>4. j = i0 + Pos(TRUE, k)
      BY <1>8, <1>14, <2>2, <3>1, <3>2, <3>3
    <3> QED BY <2>2, <3>3, <3>4, Zenon
  <2> QED BY <2>3, <2>4
<1>15. ASSUME NEW i \in Ldq, NEW m \in Ldq, Asks(i)', Asks(m)', ldq_pld'[i] = ldq_pld'[m]
       PROVE  i = m
  <2>1. CASE Written(i)
    BY <1>14, <1>15, <2>1
  <2>2. CASE Written(m)
    BY <1>14, <1>15, <2>2
  <2>3. CASE ~Written(i) /\ ~Written(m)
    BY <1>2, <1>4, <1>6, <1>15, <2>3
  <2> QED BY <2>1, <2>2, <2>3
<1> QED BY <1>11, <1>12, <1>13, <1>15 DEF RobLoads


-----------------------------------------------------------------------------
(* A cycle, part by part.                                                  *)
Parts(new, n, edge, cancel) ==
  /\ NextBuffer(new, StoresTaken, LoadsTaken, cancel)
  /\ NextCredits(StoresTaken, LoadsTaken, ldq_rd_en, Drain, cancel, stq_commit_cnt)
  /\ NextStqPtr(StoresTaken, Cardinality(RetiringStores(n)), Drain, cancel)
  /\ NextStqFlags(StoresTaken, Retiring(n), Drain, cancel)
  /\ NextStqPld(StoresTaken)
  /\ NextLdqFlags(LoadsTaken, Request, branch_ack_vld(edge), cancel)
  /\ NextLdqPld(LoadsTaken, Request)
  /\ NextLdqPtr(LoadsTaken, edge, cancel)
  /\ NextMemory(Request, Drain, edge)
  /\ NextRob(new, n, edge, cancel)
  /\ workload' = workload
  /\ refill' = IF edge THEN REFILL ELSE IF refill > 0 THEN refill - 1 ELSE 0

LEMMA CycleParts ==
  ASSUME NEW accs, NEW n, NEW edge, Queues(n, edge), Arrive(accs, n, edge)
  PROVE  Parts(Arriving(accs), n, edge, edge \/ refill = REFILL) /\ LegalArrival(accs)
BY Zenon DEF Queues, Arrive, Parts

(* What arrives and retires in a step.                                     *)
Legal(accs, n, edge) ==
  /\ accs \in Batches /\ n \in Nat /\ n <= COMMIT_REL_CHANNEL /\ edge \in BOOLEAN
  /\ LegalRetire(n) /\ LegalArrival(accs)
  /\ edge => ~Cancelling

LEMMA Steps ==
  ASSUME Next
  PROVE  \E accs, n, edge : Legal(accs, n, edge) /\ Parts(Arriving(accs), n, edge, edge \/ Cancelling)
<1>1. \A n \in 0 .. COMMIT_REL_CHANNEL : n \in Nat /\ n <= COMMIT_REL_CHANNEL
  BY LsuAssumption
<1>2. <<>> \in Batches /\ LegalArrival(<<>>)
  <2>1. <<>> \in [1 .. 0 -> workload.accesses]
    OBVIOUS
  <2>2. 0 \in 0 .. S_CHANNEL
    BY LsuBufferAssumption
  <2> QED BY <2>1, <2>2 DEF Batches, LegalArrival
<1>3. CASE Run
  <2>1. PICK n \in 0 .. COMMIT_REL_CHANNEL, accs \in Batches :
          LegalRetire(n) /\ Queues(n, FALSE) /\ Arrive(accs, n, FALSE)
    BY <1>3, Zenon DEF Run
  <2>2. Parts(Arriving(accs), n, FALSE, FALSE \/ Cancelling) /\ LegalArrival(accs)
    BY <2>1, CycleParts, Zenon DEF Cancelling
  <2>3. Legal(accs, n, FALSE)
    BY <1>1, <2>1, <2>2, Zenon DEF Legal
  <2> QED BY <2>2, <2>3, Zenon
<1>4. CASE Cancel
  <2>1. PICK n \in 0 .. COMMIT_REL_CHANNEL : LegalRetire(n) /\ Queues(n, TRUE) /\ Arrive(<<>>, n, TRUE)
    BY <1>4, Zenon DEF Cancel
  <2>2. Parts(Arriving(<<>>), n, TRUE, TRUE \/ Cancelling)
    BY <2>1, CycleParts, Zenon DEF Cancelling
  <2>3. Legal(<<>>, n, TRUE)
    BY <1>1, <1>2, <1>4, <2>1, Zenon DEF Legal, Cancel, Cancelling
  <2> QED BY <2>2, <2>3, Zenon
<1> QED BY <1>3, <1>4 DEF Next


(* In the second cycle of a cancel nothing is in flight.                   *)
LEMMA Quiet ==
  ASSUME BufOK, RobShape, LdqFlags, NEW g, LdqShape(g), Cancelling
  PROVE  /\ StoresTaken = 0 /\ LoadsTaken = 0 /\ Request = NONE
         /\ \A n \in Nat : LegalRetire(n) => n = 0
<1>1. rob = <<>> /\ Len(rob) = 0
  BY DEF RobShape
<1>2. Len(lsu_buf) = 0
  <2>1. Len(rob) - Len(lsu_buf) >= 0 /\ Len(lsu_buf) \in Nat
    BY SeqType DEF RobShape, In, BufOK
  <2>2. \A x, y : x = 0 /\ y \in Nat /\ x - y >= 0 => y = 0
    OBVIOUS
  <2> QED BY <1>1, <2>1, <2>2, Zenon
<1>3. StoresTaken = 0 /\ LoadsTaken = 0
  <2>1. /\ StoresTaken \in 0 .. Len(StuOffer) /\ LoadsTaken \in 0 .. Len(LduOffer)
        /\ Len(StuOffer) \in 0 .. 2 /\ Len(LduOffer) \in 0 .. 2
        /\ Len(StuOffer) + Len(LduOffer) <= Len(lsu_buf)
    BY TakenBounds
  <2>2. \A a, b \in 0 .. 2 : \A x \in 0 .. a, y \in 0 .. b : a + b <= 0 => x = 0 /\ y = 0
    OBVIOUS
  <2> QED BY <1>2, <2>1, <2>2, Zenon
<1>4. Request = NONE
  <2>1. v_mem_not_req = {}
    BY DEF v_mem_not_req, LdqFlags
  <2>2. ~(LoadsTaken > 0)
    BY <1>3
  <2> QED BY <2>1, <2>2 DEF Request
<1>5. ASSUME NEW n \in Nat, LegalRetire(n) PROVE n = 0
  BY <1>1, <1>5 DEF LegalRetire
<1> QED BY <1>3, <1>4, <1>5

(* The store queue in a cycle.                                             *)
StoresNext(c, h, n, cancel, r, out, c2, h2) ==
  /\ r \in 0 .. h - c /\ RetiredFacts(n, c, r) /\ CommitFacts(c, r, out)
  /\ c2 = c + r - out /\ h2 = IF cancel THEN c2 ELSE h + StoresTaken - out
  /\ out = IF Drain THEN 1 ELSE 0

LEMMA NextStores ==
  ASSUME BufOK, RobShape, LdqFlags, NEW g, LdqShape(g),
         NEW c, NEW h, StqShape(c, h), RobStores(c, h),
         NEW accs, NEW n, NEW edge, Legal(accs, n, edge), NEW new,
         NEW cancel \in BOOLEAN, cancel <=> edge \/ Cancelling,
         Parts(new, n, edge, cancel), Cancelling' <=> edge, RetiredFit'
  PROVE  \E r, out, c2, h2 : StoresNext(c, h, n, cancel, r, out, c2, h2) /\ StqShape(c2, h2)'
<1> DEFINE drain == Drain
<1> PICK r : r = Cardinality(RetiringStores(n))
  OBVIOUS
<1> PICK out : out = IF drain THEN 1 ELSE 0
  OBVIOUS
<1> PICK c2 : c2 = c + r - out
  OBVIOUS
<1> PICK l : l = StoresTaken
  OBVIOUS
<1> PICK h2 : h2 = IF cancel THEN c2 ELSE h + l - out
  OBVIOUS
<1>1. n \in Nat /\ edge \in BOOLEAN /\ LegalRetire(n) /\ (edge => ~Cancelling)
  BY DEF Legal
<1>2. c \in Nat /\ h \in Nat /\ c <= h /\ stq_rd_ptr \in Stq
  <2>1. c \in 0 .. h /\ h \in 0 .. STU_DEPTH /\ STU_DEPTH \in Nat /\ stq_rd_ptr \in Stq
    BY Depths DEF StqShape
  <2> QED BY <2>1
<1>3. IsSeq(rob) /\ \A j \in 1 .. Len(rob) : rob[j].op.ld \in BOOLEAN /\ rob[j].done \in BOOLEAN
  BY DEF RobShape
<1>4. r \in 0 .. h - c /\ RetiredFacts(n, c, r)
  <2>1. Cardinality(RetiringStores(n)) \in 0 .. h - c /\ RetiredFacts(n, c, Cardinality(RetiringStores(n)))
    BY <1>1, <1>2, <1>3, RetiredFirst, Zenon
  <2> QED BY <2>1
<1>5. drain \in BOOLEAN /\ (drain => s_mem_req_vld)
  BY DEF StqShape, Drain, s_mem_req_vld
<1>6. Cancelling => l = 0 /\ r = 0 /\ ~edge
  <2>1. SUFFICES ASSUME Cancelling PROVE l = 0 /\ r = 0 /\ ~edge
    OBVIOUS
  <2>2. l = 0
    BY <2>1, Quiet
  <2>3. h = c
    BY <2>1 DEF StqShape
  <2> QED BY <1>1, <1>2, <1>4, <2>1, <2>2, <2>3
<1>7. /\ NextCredits(l, LoadsTaken, ldq_rd_en, drain, cancel, stq_commit_cnt)
      /\ NextStqPtr(l, r, drain, cancel)
      /\ NextStqFlags(l, Retiring(n), drain, cancel)
  BY DEF Parts
<1>11. out = IF Drain THEN 1 ELSE 0
  OBVIOUS
<1> HIDE DEF drain
<1>8. StqShape(c2, h2)' /\ CommitFacts(c, r, out)
  BY <1>1, <1>4, <1>5, <1>6, <1>7, NextStqShape
<1>9. h2 = IF cancel THEN c2 ELSE h + StoresTaken - out
  OBVIOUS
<1>10. StoresNext(c, h, n, cancel, r, out, c2, h2)
  BY <1>4, <1>8, <1>9, <1>11, Zenon DEF StoresNext
<1> QED BY <1>8, <1>10, Zenon


(* The state after a cycle that cancels.                                   *)
LEMMA CancelStep ==
  ASSUME BufOK, RobShape, LdqFlags, workload \in Workloads, NEW g, LdqShape(g),
         NEW c, NEW h, StqShape(c, h), RobStores(c, h),
         NEW accs, NEW n, NEW edge, Legal(accs, n, edge), NEW new,
         edge \/ Cancelling, Parts(new, n, edge, TRUE), Cancelling' <=> edge, RetiredFit',
         NONE \notin Ldq, NewAnswer(req_branch_id_nxt(edge))
  PROVE  BufOK' /\ RobShape' /\ LdqFlags' /\ RobLoads' /\ StoreInv'
<1>1. lsu_buf' = <<>> /\ rob' = <<>> /\ workload' = workload
  BY DEF Parts, NextBuffer, NextRob
<1>2. \A f \in {ldq_en', stq_flag', stq_ack', mem_req', mem_ack'} : f = [i \in Ldq |-> FALSE]
  BY DEF Parts, NextLdqFlags
<1>3. IsSeq(<<>>) /\ Len(<<>>) = 0 /\ 1 .. 0 = {}
  BY DEF IsSeq
<1>4. BufOK'
  BY <1>1, <1>3 DEF BufOK
<1>5. Len(rob') = 0 /\ Len(lsu_buf') = 0 /\ In' = 0
  BY <1>1, <1>3 DEF In
<1>6. RobShape'
  <2>1. workload'.in_flight \in Nat
    BY <1>1, LsuAssumption
  <2>2. IsSeq(rob') /\ In' >= 0 /\ Len(rob') <= workload'.in_flight
    BY <1>1, <1>3, <1>5, <2>1
  <2>3. 1 .. Len(rob') = {} /\ 1 .. Len(lsu_buf') = {}
    BY <1>3, <1>5
  <2> QED BY <1>1, <2>2, <2>3 DEF RobShape
<1>7. RobLoads'
  <2>1. \A i \in Ldq : ~ldq_en'[i] /\ ~Asks(i)'
    BY <1>2 DEF Asks
  <2>2. 1 .. In' = {}
    BY <1>3, <1>5
  <2> QED BY <2>1, <2>2 DEF RobLoads
<1>8. LdqFlags'
  <2>1. /\ stq_flag' = stq_ack'
        /\ stq_ack' \in [Ldq -> BOOLEAN] /\ mem_req' \in [Ldq -> BOOLEAN] /\ mem_ack' \in [Ldq -> BOOLEAN]
        /\ \A i \in Ldq : ~ldq_en'[i] /\ ~stq_ack'[i] /\ ~mem_req'[i] /\ ~mem_ack'[i]
    BY <1>2
  <2>2. req_branch_id' = req_branch_id_nxt(edge)
    BY DEF Parts, NextLdqPtr
  <2>3. Request # NONE => Request \in Ldq
    <3>1. ldq_wr_ptr \in Ldq
      BY NewLoads
    <3> QED BY <3>1, RequestIs DEF v_mem_not_req
  <2>4. answer' # NONE => answer'.entry \in Ldq /\ answer'.branch = req_branch_id'
    BY <2>2, <2>3 DEF NewAnswer
  <2>5. ~Cancelling' => answer' = NONE
    <3>1. SUFFICES ASSUME ~Cancelling' PROVE answer' = NONE
      OBVIOUS
    <3>2. Request = NONE
      BY <3>1, Quiet
    <3> QED BY <3>2 DEF NewAnswer
  <2> QED BY <2>1, <2>4, <2>5 DEF LdqFlags
<1>9. StoreInv'
  <2>1. PICK r, out, c2, h2 : StoresNext(c, h, n, TRUE, r, out, c2, h2) /\ StqShape(c2, h2)'
    <3>1. PICK q \in BOOLEAN : q = TRUE
      OBVIOUS
    <3>2. (q <=> edge \/ Cancelling) /\ Parts(new, n, edge, q)
      BY <3>1
    <3>3. \E r, out, c2, h2 : StoresNext(c, h, n, q, r, out, c2, h2) /\ StqShape(c2, h2)'
      BY <3>2, NextStores
    <3> QED BY <3>1, <3>3
  <2>2. h2 = c2
    BY <2>1 DEF StoresNext
  <2>3. c2 \in 0 .. STU_DEPTH /\ h2 \in 0 .. STU_DEPTH
    <3>1. c2 \in 0 .. h2 /\ h2 \in 0 .. STU_DEPTH /\ STU_DEPTH \in Nat
      BY <2>1, Depths DEF StqShape
    <3> QED BY <3>1
  <2>4. RobStores(c2, h2)'
    <3>1. \A j : j \notin DoneStores'
      BY <1>3, <1>5 DEF DoneStores
    <3>2. c2 .. h2 - 1 = {}
      BY <2>2, <2>3
    <3> QED BY <3>1, <3>2 DEF RobStores
  <2> QED BY <2>1, <2>3, <2>4 DEF StoreInv
<1> QED BY <1>4, <1>6, <1>7, <1>8, <1>9

LEMMA ArrivalFits ==
  ASSUME RobShape, NEW accs, LegalArrival(accs)
  PROVE  Fits(accs)
<1>1. CASE accs = <<>>
  <2>1. Len(accs) = 0 /\ Len(rob) \in Nat /\ Len(rob) <= workload.in_flight
    BY <1>1, SeqType DEF RobShape
  <2>2. \A x, y, z : x = 0 /\ y \in Nat /\ y <= z => y + x <= z
    OBVIOUS
  <2> QED BY <2>1, <2>2, Zenon DEF Fits
<1>2. CASE accs # <<>>
  BY <1>2 DEF LegalArrival, Fits
<1> QED BY <1>1, <1>2

(* The state after a cycle that does not.                                  *)
LEMMA RunStep ==
  ASSUME BufOK, RobShape, LdqFlags, RobLoads, workload \in Workloads, NEW g, LdqShape(g),
         NEW c, NEW h, StqShape(c, h), RobStores(c, h),
         NEW accs, NEW n, Legal(accs, n, FALSE), ~Cancelling, Parts(Arriving(accs), n, FALSE, FALSE),
         ~Cancelling', OffersInOrder, AnswersTaken, RetiredFit',
         NONE \notin Ldq, NewAnswer(req_branch_id)
  PROVE  BufOK' /\ RobShape' /\ LdqFlags' /\ RobLoads' /\ StoreInv'
<1> DEFINE new == Arriving(accs)
<1>1. accs \in Batches /\ n \in Nat /\ LegalRetire(n) /\ LegalArrival(accs)
  BY DEF Legal
<1>2. Fits(accs)
  BY <1>1, ArrivalFits
<1>3. ArrivedFacts(new, accs) /\ IsSeq(new)
  <2>1. ArrivedFacts(new, accs)
    BY <1>1, <1>2, ArrivingIs
  <2> QED BY <2>1 DEF ArrivedFacts
<1>4. /\ NextBuffer(new, StoresTaken, LoadsTaken, FALSE)
      /\ NextStqPld(StoresTaken)
      /\ NextLdqFlags(LoadsTaken, Request, branch_ack_vld(FALSE), FALSE)
      /\ NextLdqPld(LoadsTaken, Request)
      /\ NextRob(new, n, FALSE, FALSE)
      /\ workload' = workload /\ req_branch_id' = req_branch_id
  BY DEF Parts, NextLdqPtr, req_branch_id_nxt
<1> HIDE DEF new
<1>5. NewRob(new, n)
  <2>1. /\ n <= In /\ IsSeq(rob') /\ Len(rob') = Len(rob) - n + Len(new)
        /\ \A j \in 1 .. Len(rob) - n : Moved(j, n)
        /\ \A k \in 1 .. Len(new) :
             rob'[Len(rob) - n + k] = [op |-> new[k], done |-> FALSE, entry |-> NONE]
    BY <1>1, <1>3, <1>4, NextRobIs
  <2>2. Len(new) \in Nat
    BY <1>3, SeqType
  <2> QED BY <1>1, <2>1, <2>2, Zenon DEF NewRob
<1>6. NewBuf(new)
  BY <1>3, <1>4, NextBufferIs
<1>7. NewLdq
  BY <1>4, NewLdqIs
<1>8. RobShape' /\ BufOK' /\ In' = In - n + Taken
  BY <1>1, <1>2, <1>3, <1>4, <1>5, <1>6, NextRobShape
<1>9. RobLoads'
  BY <1>1, <1>4, <1>5, <1>6, <1>7, <1>8, NextRobLoads
<1>10. LdqFlags'
  BY <1>4, <1>7, NextLdqFlagsAre
<1>11. StoreInv'
  <2>1. PICK r, out, c2, h2 : StoresNext(c, h, n, FALSE, r, out, c2, h2) /\ StqShape(c2, h2)'
    <3>1. FALSE \in BOOLEAN /\ (FALSE <=> FALSE \/ Cancelling)
      OBVIOUS
    <3>2. Cancelling' <=> FALSE
      OBVIOUS
    <3> QED BY <3>1, <3>2, NextStores, Zenon DEF new
  <2>2. /\ r \in 0 .. h - c /\ RetiredFacts(n, c, r) /\ CommitFacts(c, r, out)
        /\ c2 = c + r - out /\ h2 = h + StoresTaken - out
    BY <2>1 DEF StoresNext
  <2>3. c2 \in 0 .. STU_DEPTH /\ h2 \in 0 .. STU_DEPTH
    <3>1. c2 \in 0 .. h2 /\ h2 \in 0 .. STU_DEPTH /\ STU_DEPTH \in Nat
      BY <2>1, Depths DEF StqShape
    <3> QED BY <3>1
  <2>4. PICK l : l = StoresTaken
    OBVIOUS
  <2>5. RobStores(c2, h2)'
    BY <1>4, <1>5, <2>1, <2>2, <2>4, NextRobStores
  <2> QED BY <2>1, <2>3, <2>5 DEF StoreInv
<1> QED BY <1>8, <1>9, <1>10, <1>11


-----------------------------------------------------------------------------
(* The types of what is in the unit and in memory.                         *)
Value == 0 .. workload.values - 1
RobTyped == \A k \in 1 .. Len(rob) : IsOp(rob[k].op) /\ rob[k].entry \in Stq \cup {NONE}
StqTyped == \A i \in Stq : IF i \in HeldStores THEN IsOp(stq_pld[i]) /\ ~stq_pld[i].ld
                           ELSE stq_pld[i] = NONE
LdqTyped ==
  /\ \A i \in Ldq : ldq_en[i] => IsOp(ldq_pld[i])
  /\ answer # NONE => /\ IsOp(ldq_pld[answer.entry])
                      /\ answer.data \in Data(ldq_pld[answer.entry])
  /\ req_branch_id \in 1 .. BRANCH_NUM
DataInv ==
  /\ workload \in Workloads /\ refill \in 0 .. REFILL /\ Len(lsu_buf) <= LSU_DEPTH
  /\ RobTyped /\ StqTyped /\ LdqTyped
  /\ arch \in [Bytes -> Value] /\ mem \in [Bytes -> Value]

LEMMA Greatest ==
  ASSUME NEW n \in Nat, NEW S \in SUBSET (1 .. n), S # {}
  PROVE  Max(S) \in S /\ \A y \in S : Max(S) >= y
<1> DEFINE T == {n - x : x \in S}
<1>1. T \in SUBSET (0 .. n - 1) /\ T # {}
  <2>1. ASSUME NEW x \in S PROVE n - x \in 0 .. n - 1
    <3>1. x \in 1 .. n
      OBVIOUS
    <3> QED BY <3>1
  <2>2. T # {}
    OBVIOUS
  <2> QED BY <2>1, <2>2
<1>2. PICK u \in T : \A t \in T : u <= t
  <2> HIDE DEF T
  <2> QED BY <1>1, Least
<1>3. PICK x \in S : u = n - x
  BY <1>2
<1>4. \A y \in S : x >= y
  <2> TAKE y \in S
  <2>1. u <= n - y
    BY <1>2
  <2> QED BY <1>3, <2>1
<1> QED BY <1>4 DEF Max

(* An operation touches bytes of memory, with values of its workload.      *)
LEMMA OpBytes ==
  ASSUME workload \in Workloads, NEW op, IsOp(op)
  PROVE  /\ BytesOf(op) \subseteq Bytes /\ op.data \in [BytesOf(op) -> Value]
         /\ \A b \in BytesOf(op) : op.data[b] \in Value
<1> DEFINE a == [ld |-> op.ld, addr |-> op.addr, strb |-> op.strb]
<1>1. a \in workload.accesses /\ op.data \in [BytesOf(op) -> Value]
  BY DEF IsOp, Data, Value
<1>2. BytesOf(a) \subseteq Bytes
  <2> HIDE DEF a
  <2> QED BY <1>1, LsuAssumption
<1>3. BytesOf(a) = BytesOf(op)
  BY DEF BytesOf
<1> QED BY <1>1, <1>2, <1>3

(* Memory after some operations.                                           *)
LEMMA AfterType ==
  ASSUME NEW V, NEW m \in [Bytes -> V], NEW ops, Len(ops) \in Nat,
         \A k \in 1 .. Len(ops) : \A b \in BytesOf(ops[k]) : ops[k].data[b] \in V
  PROVE  After(m, ops) \in [Bytes -> V]
<1>1. ASSUME NEW b \in Bytes
      PROVE  (IF StoresTo(ops, b) = {} THEN m[b] ELSE ops[Max(StoresTo(ops, b))].data[b]) \in V
  <2>1. CASE StoresTo(ops, b) = {}
    BY <2>1
  <2>2. CASE StoresTo(ops, b) # {}
    <3>1. StoresTo(ops, b) \in SUBSET (1 .. Len(ops)) /\ \A k \in StoresTo(ops, b) : b \in BytesOf(ops[k])
      BY DEF StoresTo, Of
    <3>2. Max(StoresTo(ops, b)) \in StoresTo(ops, b)
      BY <2>2, <3>1, Greatest
    <3>3. PICK k \in 1 .. Len(ops) : k = Max(StoresTo(ops, b)) /\ b \in BytesOf(ops[k])
      BY <3>1, <3>2
    <3>4. ops[k].data[b] \in V
      BY <3>3
    <3> QED BY <2>2, <3>3, <3>4
  <2> QED BY <2>1, <2>2
<1> QED BY <1>1 DEF After

LEMMA ModRange ==
  ASSUME NEW x \in Int, NEW d \in Nat \ {0}
  PROVE  x % d \in 0 .. d - 1
OBVIOUS

(* What arrives has its type.                                              *)
LEMMA ArrivingTyped ==
  ASSUME workload \in Workloads, IsSeq(rob), RobTyped, arch \in [Bytes -> Value], NEW accs \in Batches,
         NEW k \in 1 .. Len(accs)
  PROVE  IsOp(Arriving(accs)[k])
<1> DEFINE first == IF rob = <<>> THEN 0 ELSE rob[Len(rob)].op.id + 1
           changes(b) == Cardinality({j \in StoresTo(accs, b) : j <= k})
           op == Arriving(accs)[k]
           f == workload.in_flight
           v == workload.values
<1>1. /\ op.id = (first + k - 1) % f /\ op.ld = accs[k].ld /\ op.addr = accs[k].addr
      /\ op.strb = accs[k].strb
      /\ op.data = [b \in BytesOf(accs[k]) |-> (Speculative[b] + changes(b)) % v]
  BY DEF Arriving
<1> HIDE DEF op, changes
<1>2. f \in Nat \ {0} /\ v \in Nat \ {0} /\ accs[k] \in workload.accesses /\ Len(accs) \in Nat
  BY BatchLen, LsuAssumption
<1>3. /\ accs[k] \in [ld : BOOLEAN, addr : Bytes, strb : Nat \ {0}] /\ BytesOf(accs[k]) \subseteq Bytes
  BY <1>2, LsuAssumption
<1>4. [ld |-> op.ld, addr |-> op.addr, strb |-> op.strb] \in workload.accesses
  <2>1. [ld |-> op.ld, addr |-> op.addr, strb |-> op.strb] = accs[k]
    BY <1>1, <1>3
  <2> QED BY <1>2, <2>1
<1>5. op.id \in 0 .. f - 1
  <2>1. first \in Int
    <3>1. CASE rob = <<>>
      BY <3>1
    <3>2. CASE rob # <<>>
      <4>1. Len(rob) \in 1 .. Len(rob)
        <5>1. Len(rob) \in Nat /\ Len(rob) # 0
          BY <3>2, SeqType
        <5> QED BY <5>1
      <4>2. rob[Len(rob)].op.id \in 0 .. f - 1
        BY <4>1 DEF RobTyped, IsOp
      <4> QED BY <1>2, <3>2, <4>2
    <3> QED BY <3>1, <3>2
  <2> HIDE DEF first, f
  <2>2. first + k - 1 \in Int
    BY <2>1
  <2> QED BY <1>1, <1>2, <2>2, ModRange
<1>6. Speculative \in [Bytes -> Value]
  <2> DEFINE ops == OpsOf(rob)
             L == Len(rob)
  <2>1. L \in Nat
    BY SeqType
  <2>2. ops = [j \in 1 .. L |-> ops[j]] /\ \A j \in 1 .. L : ops[j] = rob[j].op
    BY DEF OpsOf
  <2>3. Len(ops) = L
    <3> HIDE DEF ops, L
    <3> QED BY <2>1, <2>2, SeqIntro
  <2>4. \A j \in 1 .. L : \A b \in BytesOf(ops[j]) : ops[j].data[b] \in Value
    BY <2>2, OpBytes DEF RobTyped
  <2>5. Speculative = After(arch, ops)
    BY DEF Speculative
  <2> HIDE DEF ops
  <2>6. Len(ops) \in Nat /\ \A j \in 1 .. Len(ops) : \A b \in BytesOf(ops[j]) : ops[j].data[b] \in Value
    BY <2>1, <2>3, <2>4
  <2> QED BY <2>5, <2>6, AfterType
<1>7. ASSUME NEW b \in BytesOf(accs[k]) PROVE (Speculative[b] + changes(b)) % v \in Value
  <2>1. Speculative[b] \in Int
    <3>1. Speculative[b] \in Value
      BY <1>3, <1>6
    <3> QED BY <3>1 DEF Value
  <2>2. changes(b) \in Nat
    <3> DEFINE S == {j \in StoresTo(accs, b) : j <= k}
    <3>1. S \subseteq 1 .. Len(accs)
      BY DEF StoresTo, Of
    <3>2. IsFiniteSet(1 .. Len(accs))
      BY <1>2, FS_Interval
    <3> HIDE DEF S
    <3>3. IsFiniteSet(S)
      BY <3>1, <3>2, FS_Subset
    <3>4. Cardinality(S) \in Nat
      BY <3>3, FS_CardinalityType
    <3> QED BY <3>4 DEF changes, S
  <2>3. Speculative[b] + changes(b) \in Int
    BY <2>1, <2>2
  <2> HIDE DEF v
  <2> QED BY <1>2, <2>3, ModRange DEF Value, v
<1>8. op.data \in Data(op)
  <2>1. BytesOf(op) = BytesOf(accs[k])
    BY <1>1 DEF BytesOf
  <2> QED BY <1>1, <1>7, <2>1 DEF Data, Value
<1> QED BY <1>4, <1>5, <1>8 DEF IsOp, op


LEMMA OffersTyped ==
  ASSUME BufOK, RobShape, RobTyped
  PROVE  /\ \A k \in 1 .. LoadsTaken : IsOp(LduOffer[k])
         /\ \A k \in 1 .. StoresTaken : IsOp(StuOffer[k]) /\ ~StuOffer[k].ld
<1>1. /\ OfferFacts(StuOffer, FALSE) /\ OfferFacts(LduOffer, TRUE)
      /\ FALSE \in BOOLEAN /\ TRUE \in BOOLEAN
      /\ \A k \in 1 .. StoresTaken : k \in 1 .. Len(StuOffer)
      /\ \A k \in 1 .. LoadsTaken : k \in 1 .. Len(LduOffer)
  BY TakenOffered, Zenon
<1>2. ASSUME NEW k \in 1 .. LoadsTaken PROVE IsOp(LduOffer[k])
  <2>1. In + Pos(TRUE, k) \in 1 .. Len(rob) /\ rob[In + Pos(TRUE, k)].op = LduOffer[k]
    BY <1>1, OfferInRob, Zenon
  <2>2. IsOp(rob[In + Pos(TRUE, k)].op)
    BY <2>1, Zenon DEF RobTyped
  <2> QED BY <2>1, <2>2, Zenon
<1>3. ASSUME NEW k \in 1 .. StoresTaken PROVE IsOp(StuOffer[k]) /\ ~StuOffer[k].ld
  <2>1. /\ In + Pos(FALSE, k) \in 1 .. Len(rob) /\ rob[In + Pos(FALSE, k)].op = StuOffer[k]
        /\ StuOffer[k].ld = FALSE
    BY <1>1, OfferInRob, Zenon
  <2>2. IsOp(rob[In + Pos(FALSE, k)].op)
    BY <2>1, Zenon DEF RobTyped
  <2>3. IsOp(StuOffer[k])
    BY <2>1, <2>2, Zenon
  <2> QED BY <2>1, <2>3
<1> QED BY <1>2, <1>3

(* What memory is asked in a cycle, and its answer.                        *)
LEMMA RequestTyped ==
  ASSUME BufOK, RobShape, RobTyped, LdqTyped, workload \in Workloads, NEW g, LdqShape(g),
         NextLdqPld(LoadsTaken, Request), NONE \notin Ldq, Request # NONE
  PROVE  /\ Request \in Ldq /\ IsOp(RequestPld(Request))
         /\ ldq_pld'[Request] = RequestPld(Request)
<1>1. PICK q : q = Request
  OBVIOUS
<1>2. \/ q \in v_mem_not_req
      \/ q \notin v_mem_not_req /\ LoadsTaken > 0 /\ q = ldq_wr_ptr
  BY <1>1, RequestIs
<1>3. CASE q \in v_mem_not_req
  <2>1. q \in Ldq /\ ldq_en[q]
    BY <1>3 DEF v_mem_not_req
  <2>2. RequestPld(q) = ldq_pld[q]
    BY <1>3 DEF RequestPld
  <2>3. ldq_pld'[q] = ldq_pld[q]
    BY <1>1, <2>1, LdqPldIs
  <2>4. IsOp(ldq_pld[q])
    BY <2>1 DEF LdqTyped
  <2> QED BY <1>1, <2>1, <2>2, <2>3, <2>4
<1>4. CASE q \notin v_mem_not_req /\ LoadsTaken > 0 /\ q = ldq_wr_ptr
  <2>1. 1 \in 1 .. LoadsTaken
    <3>1. LoadsTaken \in 0 .. 2
      BY TakenBounds
    <3> QED BY <1>4, <3>1
  <2>2. q \in Ldq /\ q = LdqEntry(1)
    BY <1>4, NewLoads
  <2>3. ldq_pld'[q] = LduOffer[1]
    BY <1>1, <2>1, <2>2, LdqPldIs
  <2>4. RequestPld(q) = LduOffer[1]
    BY <1>4 DEF RequestPld
  <2>5. IsOp(LduOffer[1])
    BY <2>1, OffersTyped
  <2> QED BY <1>1, <2>2, <2>3, <2>4, <2>5
<1> QED BY <1>2, <1>3, <1>4

LEMMA NextAnswer ==
  ASSUME BufOK, RobShape, RobTyped, LdqTyped, workload \in Workloads, NEW g, LdqShape(g),
         mem \in [Bytes -> Value],
         NextLdqPld(LoadsTaken, Request), NEW drain, NEW edge \in BOOLEAN, NextMemory(Request, drain, edge)
  PROVE  /\ NewAnswer(req_branch_id_nxt(edge))
         /\ Request # NONE => answer'.data \in Data(RequestPld(Request))
         /\ req_branch_id_nxt(edge) \in 1 .. BRANCH_NUM
<1> DEFINE pld == RequestPld(Request)
           nxt == req_branch_id_nxt(edge)
           data == [b \in BytesOf(pld) |-> mem[b]]
<1>1. answer' = IF Request = NONE THEN NONE ELSE [entry |-> Request, branch |-> nxt, data |-> data]
  BY DEF NextMemory
<1>2. nxt \in 1 .. BRANCH_NUM
  BY BranchAssumption DEF req_branch_id_nxt, LdqTyped
<1>3. CASE Request = NONE
  BY <1>1, <1>2, <1>3 DEF NewAnswer
<1>4. CASE Request # NONE
  <2>1. Request \in Ldq /\ IsOp(pld)
    BY <1>4, NoneAssumption, RequestTyped
  <2>2. BytesOf(pld) \subseteq Bytes
    BY <2>1, OpBytes
  <2>3. data \in [BytesOf(pld) -> Value]
    BY <2>2
  <2>4. data \in [BytesOf(pld) -> Nat]
    <3>1. \A b \in BytesOf(pld) : mem[b] \in Nat
      BY <2>2 DEF Value
    <3> QED BY <3>1
  <2> DEFINE a == [entry |-> Request, branch |-> nxt, data |-> data]
  <2>5. a \in Answers
    <3> HIDE DEF data, pld, nxt
    <3>1. data \in Bits
      BY <2>2, <2>4 DEF Bits
    <3> QED BY <1>2, <2>1, <3>1 DEF Answers
  <2>6. a # NONE /\ answer' = a
    <3> HIDE DEF data, pld, nxt
    <3> QED BY <1>1, <1>4, <2>5, NoneAssumption
  <2>7. answer'.entry = Request /\ answer'.branch = nxt /\ answer'.data = data
    BY <2>6
  <2> HIDE DEF a, nxt
  <2>8. NewAnswer(nxt)
    BY <1>4, <2>6, <2>7 DEF NewAnswer
  <2>9. answer'.data \in Data(pld)
    BY <2>3, <2>7 DEF Data, Value
  <2> QED BY <1>2, <2>8, <2>9 DEF nxt
<1> QED BY <1>3, <1>4


LEMMA NextLdqTyped ==
  ASSUME BufOK, RobShape, RobTyped, LdqTyped, workload \in Workloads, NEW g, LdqShape(g),
         mem \in [Bytes -> Value], workload' = workload, NEW acked, NEW cancel \in BOOLEAN,
         NextLdqFlags(LoadsTaken, Request, acked, cancel), NextLdqPld(LoadsTaken, Request),
         NEW drain, NEW edge \in BOOLEAN, NextMemory(Request, drain, edge),
         req_branch_id' = req_branch_id_nxt(edge)
  PROVE  LdqTyped'
<1>1. ASSUME NEW i \in Ldq, ldq_en'[i] PROVE IsOp(ldq_pld'[i])
  <2>1. Written(i) \/ ldq_en[i]
    BY <1>1 DEF NextLdqFlags, Written
  <2>2. CASE Written(i)
    <3>1. PICK k \in 1 .. LoadsTaken : i = LdqEntry(k)
      BY <2>2 DEF Written
    <3>2. ldq_pld'[i] = LduOffer[k]
      BY <1>1, <3>1, LdqPldIs
    <3> QED BY <3>2, OffersTyped
  <2>3. CASE ldq_en[i]
    <3>1. ldq_pld'[i] = ldq_pld[i]
      BY <1>1, <2>3, LdqPldIs
    <3> QED BY <2>3, <3>1 DEF LdqTyped
  <2> QED BY <2>1, <2>2, <2>3
<1>2. /\ NewAnswer(req_branch_id_nxt(edge))
      /\ Request # NONE => answer'.data \in Data(RequestPld(Request))
      /\ req_branch_id' \in 1 .. BRANCH_NUM
  BY NextAnswer
<1>3. ASSUME answer' # NONE
      PROVE  IsOp(ldq_pld'[answer'.entry]) /\ answer'.data \in Data(ldq_pld'[answer'.entry])
  <2>1. Request # NONE /\ answer'.entry = Request
    BY <1>2, <1>3 DEF NewAnswer
  <2>2. ldq_pld'[Request] = RequestPld(Request) /\ IsOp(RequestPld(Request))
    BY <2>1, NoneAssumption, RequestTyped
  <2> QED BY <1>2, <2>1, <2>2
<1> QED BY <1>1, <1>2, <1>3 DEF LdqTyped, IsOp, Data

LEMMA NextStqTyped ==
  ASSUME BufOK, RobShape, RobTyped, StqTyped, workload' = workload,
         NEW c, NEW h, StqShape(c, h), NEW n, NEW r \in 0 .. h - c, RetiredFacts(n, c, r),
         NEW drain, NEW cancel, NextStqFlags(StoresTaken, Retiring(n), drain, cancel),
         NextStqPld(StoresTaken)
  PROVE  StqTyped'
<1>1. ASSUME NEW i \in Stq, stq_en'[i] \/ stq_commit'[i],
             ~(\E k \in 1 .. StoresTaken : i = StqEntry(k))
      PROVE  i \in HeldStores
  <2>1. stq_en[i] \/ stq_commit[i] \/ i \in Retiring(n)
    BY <1>1 DEF NextStqFlags
  <2>2. CASE i \in Retiring(n)
    <3>1. Off(i) \in c .. c + r - 1
      BY <2>2 DEF RetiredFacts
    <3>2. c \in Int /\ h \in Int
      <4>1. c \in 0 .. h /\ h \in 0 .. STU_DEPTH
        BY DEF StqShape
      <4> QED BY <4>1
    <3>3. Off(i) < h
      BY <3>1, <3>2
    <3> QED BY <3>3, StoresHeld
  <2> QED BY <2>1, <2>2 DEF HeldStores
<1>2. ASSUME NEW i \in Stq
      PROVE  IF stq_en'[i] \/ stq_commit'[i] THEN IsOp(stq_pld'[i]) /\ ~stq_pld'[i].ld
             ELSE stq_pld'[i] = NONE
  <2> DEFINE m == CHOOSE k \in 1 .. StoresTaken : i = StqEntry(k)
  <2>1. stq_pld'[i] = IF ~stq_en'[i] /\ ~stq_commit'[i] THEN NONE
                      ELSE IF \E k \in 1 .. StoresTaken : i = StqEntry(k) THEN StuOffer[m]
                      ELSE stq_pld[i]
    BY DEF NextStqPld
  <2>2. CASE ~stq_en'[i] /\ ~stq_commit'[i]
    BY <2>1, <2>2
  <2>3. CASE (stq_en'[i] \/ stq_commit'[i]) /\ \E k \in 1 .. StoresTaken : i = StqEntry(k)
    <3>1. m \in 1 .. StoresTaken
      BY <2>3
    <3> HIDE DEF m
    <3>2. stq_pld'[i] = StuOffer[m]
      BY <2>1, <2>3
    <3>3. IsOp(StuOffer[m]) /\ ~StuOffer[m].ld
      BY <3>1, OffersTyped
    <3> QED BY <2>3, <3>2, <3>3
  <2>4. CASE (stq_en'[i] \/ stq_commit'[i]) /\ ~(\E k \in 1 .. StoresTaken : i = StqEntry(k))
    <3>1. i \in HeldStores
      BY <1>1, <2>4
    <3>2. stq_pld'[i] = stq_pld[i]
      BY <2>1, <2>4
    <3>3. IsOp(stq_pld[i]) /\ ~stq_pld[i].ld
      BY <3>1 DEF StqTyped
    <3> QED BY <2>4, <3>2, <3>3
  <2> QED BY <2>2, <2>3, <2>4
<1>3. \A i \in Stq : (i \in HeldStores)' <=> stq_en'[i] \/ stq_commit'[i]
  BY DEF HeldStores
<1>4. ASSUME NEW i \in Stq, IsOp(stq_pld'[i]) PROVE IsOp(stq_pld[i])'
  BY <1>4 DEF IsOp, Data
<1>5. ASSUME NEW i \in Stq
      PROVE  IF (i \in HeldStores)' THEN IsOp(stq_pld[i])' /\ ~stq_pld'[i].ld ELSE stq_pld'[i] = NONE
  <2>1. CASE (i \in HeldStores)'
    BY <1>2, <1>3, <1>4, <2>1
  <2>2. CASE ~(i \in HeldStores)'
    BY <1>2, <1>3, <2>2
  <2> QED BY <2>1, <2>2
<1> QED BY <1>5 DEF StqTyped

LEMMA NextRobTyped ==
  ASSUME BufOK, RobShape, RobTyped, LdqFlags, RobLoads, workload \in Workloads, workload' = workload, ~Cancelling,
         NEW g, LdqShape(g), NEW c, NEW h, StqShape(c, h), arch \in [Bytes -> Value],
         NEW accs \in Batches, NEW n, NEW new, new = Arriving(accs), Len(new) = Len(accs), NewRob(new, n)
  PROVE  RobTyped'
<1> DEFINE L == Len(rob)
           m == Len(new)
           L2 == Len(rob')
<1>1. L \in Nat /\ m \in Nat /\ n \in Nat /\ L2 = L - n + m
  BY SeqType DEF RobShape, NewRob
<1>2. ASSUME NEW j \in 1 .. L2
      PROVE  IsOp(rob'[j].op) /\ rob'[j].entry \in Stq \cup {NONE}
  <2>1. CASE j \in 1 .. L - n
    <3>1. Moved(j, n)
      BY <2>1 DEF NewRob
    <3>2. n + j \in 1 .. L
      <4> HIDE DEF L, m, L2
      <4> QED BY <1>1, <2>1
    <3>3. IsOp(rob[n + j].op) /\ rob[n + j].entry \in Stq \cup {NONE}
      BY <3>2 DEF RobTyped
    <3>4. \A k \in 1 .. StoresTaken : StqEntry(k) \in Stq
      BY NewStores
    <3> QED BY <3>1, <3>3, <3>4 DEF Moved, StoreAt
  <2>2. CASE j \notin 1 .. L - n
    <3> DEFINE k == j - (L - n)
    <3>1. k \in 1 .. m /\ L - n + k = j
      <4> HIDE DEF L, m, L2
      <4> QED BY <1>1, <2>2
    <3> HIDE DEF k
    <3>2. rob'[j] = [op |-> new[k], done |-> FALSE, entry |-> NONE]
      BY <3>1 DEF NewRob
    <3>3. IsOp(new[k])
      <4>1. k \in 1 .. Len(accs) /\ IsSeq(rob)
        BY <3>1 DEF RobShape
      <4> QED BY <4>1, ArrivingTyped
    <3> QED BY <3>2, <3>3
  <2> QED BY <2>1, <2>2
<1>3. ASSUME NEW j \in 1 .. L2 PROVE IsOp(rob[j].op)'
  <2>1. IsOp(rob'[j].op)
    BY <1>2
  <2> QED BY <2>1 DEF IsOp, Data
<1> HIDE DEF L2
<1>4. \A j \in 1 .. L2 : IsOp(rob[j].op)' /\ rob'[j].entry \in Stq \cup {NONE}
  BY <1>2, <1>3
<1> QED BY <1>4 DEF RobTyped, L2

(* The operations that retire.                                             *)
LEMMA RetiredOps ==
  ASSUME IsSeq(rob), NEW n \in Nat, LegalRetire(n)
  PROVE  /\ Len(OpsOf(SubSeq(rob, 1, n))) = n
         /\ \A k \in 1 .. n : OpsOf(SubSeq(rob, 1, n))[k] = rob[k].op
<1> DEFINE s == SubSeq(rob, 1, n)
           ops == OpsOf(s)
           X == {rob[k] : k \in 1 .. Len(rob)}
<1>1. n <= Len(rob) /\ Len(rob) \in Nat /\ \A k \in 1 .. n : rob[k] \in X
  BY SeqType DEF LegalRetire
<1>2. Len(s) = n /\ \A k \in 1 .. n : s[k] = rob[k]
  <2> HIDE DEF X
  <2>1. /\ Len(s) = IF 1 <= n THEN n - 1 + 1 ELSE 0
        /\ \A k \in 1 .. n - 1 + 1 : s[k] = rob[1 + k - 1]
    BY <1>1, SubSeqProperties
  <2> HIDE DEF s
  <2>2. Len(s) = n
    BY <2>1
  <2>3. ASSUME NEW k \in 1 .. n PROVE s[k] = rob[k]
    <3>1. k \in 1 .. n - 1 + 1 /\ 1 + k - 1 = k
      OBVIOUS
    <3>2. s[k] = rob[1 + k - 1]
      BY <2>1, <3>1
    <3> QED BY <3>1, <3>2
  <2> QED BY <2>2, <2>3
<1> HIDE DEF s
<1>3. ops = [k \in 1 .. n |-> ops[k]] /\ \A k \in 1 .. n : ops[k] = rob[k].op
  BY <1>2 DEF OpsOf
<1> HIDE DEF ops, X
<1>4. Len(ops) = n
  BY <1>3, SeqIntro
<1> QED BY <1>3, <1>4 DEF ops, s

LEMMA NextMemTyped ==
  ASSUME RobShape, RobTyped, StqTyped, workload \in Workloads, workload' = workload,
         NEW c, NEW h, StqShape(c, h),
         arch \in [Bytes -> Value], mem \in [Bytes -> Value],
         NEW new, NEW n \in Nat, LegalRetire(n), NEW edge, NEW cancel, NextRob(new, n, edge, cancel),
         NEW request, NextMemory(request, Drain, edge)
  PROVE  (arch \in [Bytes -> Value])' /\ (mem \in [Bytes -> Value])'
<1>1. arch' \in [Bytes -> Value]
  <2> DEFINE ops == OpsOf(SubSeq(rob, 1, n))
  <2>1. n <= Len(rob) /\ Len(rob) \in Nat
    BY SeqType DEF LegalRetire, RobShape
  <2>2. Len(ops) = n /\ \A k \in 1 .. n : ops[k] = rob[k].op
    <3>1. IsSeq(rob)
      BY DEF RobShape
    <3> QED BY <3>1, RetiredOps
  <2>4. arch' = After(arch, ops)
    BY DEF NextRob
  <2> HIDE DEF ops
  <2>6. \A k \in 1 .. n : \A b \in BytesOf(ops[k]) : ops[k].data[b] \in Value
    <3> TAKE k \in 1 .. n
    <3>1. k \in 1 .. Len(rob)
      BY <2>1
    <3>2. IsOp(ops[k])
      BY <2>2, <3>1 DEF RobTyped
    <3> QED BY <3>2, OpBytes
  <2>7. Len(ops) \in Nat /\ \A k \in 1 .. Len(ops) : \A b \in BytesOf(ops[k]) : ops[k].data[b] \in Value
    BY <2>2, <2>6
  <2> QED BY <2>4, <2>7, AfterType
<1>2. mem' \in [Bytes -> Value]
  <2>1. CASE ~Drain
    BY <2>1 DEF NextMemory
  <2>2. CASE Drain
    <3> DEFINE op == stq_pld[stq_rd_ptr]
               ops == <<op>>
    <3>1. mem' = After(mem, ops)
      BY <2>2 DEF NextMemory
    <3>2. stq_rd_ptr \in Stq /\ stq_rd_ptr \in HeldStores
      BY <2>2 DEF Drain, s_mem_req_vld, StqShape, HeldStores
    <3>3. IsOp(op)
      BY <3>2 DEF StqTyped
    <3> HIDE DEF op
    <3>4. Len(ops) = 1 /\ ops[1] = op
      OBVIOUS
    <3>5. \A b \in BytesOf(op) : op.data[b] \in Value
      BY <3>3, OpBytes
    <3> HIDE DEF ops
    <3>6. Len(ops) \in Nat /\ \A k \in 1 .. Len(ops) : \A b \in BytesOf(ops[k]) : ops[k].data[b] \in Value
      BY <3>4, <3>5
    <3> QED BY <3>1, <3>6, AfterType
  <2> QED BY <2>1, <2>2
<1>3. Value' = Value
  BY DEF Value
<1> QED BY <1>1, <1>2, <1>3


-----------------------------------------------------------------------------
(* The inductive invariant.                                                *)
LsuInv == BufOK /\ LoadInv /\ StoreInv /\ RobShape /\ LdqFlags /\ RobLoads /\ DataInv

LEMMA InitInv == Init => LsuInv
<1> SUFFICES ASSUME Init PROVE LsuInv
  OBVIOUS
<1> USE DEF Init, BufferInit, StqInit, LdqInit
<1>1. /\ STU_DEPTH \in Nat /\ LDU_DEPTH \in Nat /\ STU_DEPTH > 2 /\ LDU_DEPTH > 2
      /\ REFILL \in Nat \ {0} /\ BRANCH_NUM \in Nat /\ BRANCH_NUM > 1 /\ LSU_DEPTH \in Nat
      /\ workload.in_flight \in Nat \ {0} /\ workload.values \in Nat \ {0}
  BY Depths, LsuAssumption, BranchAssumption, LsuBufferAssumption
<1>2. IsSeq(<<>>) /\ Len(<<>>) = 0 /\ 1 .. 0 = {}
  BY DEF IsSeq
<1>3. ~Cancelling
  BY <1>1 DEF Cancelling
<1>4. BufOK
  BY <1>2 DEF BufOK
<1>5. LoadInv
  <2>1. LdqShape(0)
    BY <1>1 DEF LdqShape, Ldq, Wrap, LOff, Place
  <2> QED BY <1>1, <2>1 DEF LoadInv
<1>6. StoreInv
  <2>1. StqShape(0, 0)
    <3>1. \A i \in Stq : Off(i) \in 0 .. STU_DEPTH - 1
      BY <1>1 DEF Off, Place, Stq
    <3>2. \A i \in Stq : ~(Off(i) < 0) /\ Off(i) \notin 0 .. 0 - 1
      BY <3>1
    <3>3. 0 \in Stq /\ 0 = Wrap(0 + 0, STU_DEPTH)
      BY <1>1 DEF Stq, Wrap
    <3> QED BY <1>1, <1>3, <3>2, <3>3 DEF StqShape
  <2>2. \A j : j \notin DoneStores
    BY <1>2 DEF DoneStores
  <2>3. RobStores(0, 0)
    <3>1. 0 .. 0 - 1 = {}
      OBVIOUS
    <3> QED BY <2>2, <3>1 DEF RobStores
  <2> QED BY <1>1, <2>1, <2>3 DEF StoreInv
<1>7. In = 0
  BY <1>2 DEF In
<1>8. RobShape
  BY <1>1, <1>2, <1>3, <1>7 DEF RobShape
<1>9. LdqFlags
  BY <1>3 DEF LdqFlags
<1>10. RobLoads
  <2>1. \A i \in Ldq : ~ldq_en[i] /\ ~Asks(i)
    BY DEF Asks
  <2> QED BY <1>2, <1>7, <2>1 DEF RobLoads
<1>11. DataInv
  <2>1. RobTyped
    BY <1>2 DEF RobTyped
  <2>2. StqTyped
    BY DEF StqTyped, HeldStores
  <2>3. LdqTyped
    BY <1>1 DEF LdqTyped
  <2>4. arch \in [Bytes -> Value] /\ mem \in [Bytes -> Value]
    <3>1. 0 \in Value
      BY <1>1 DEF Value
    <3> QED BY <3>1
  <2> QED BY <1>1, <1>2, <2>1, <2>2, <2>3, <2>4 DEF DataInv
<1> QED BY <1>4, <1>5, <1>6, <1>8, <1>9, <1>10, <1>11 DEF LsuInv

LEMMA NextBufLen ==
  ASSUME BufOK, Len(lsu_buf) <= LSU_DEPTH, NEW accs \in Batches, LegalArrival(accs),
         NEW new, Len(new) = Len(accs), NewBuf(new)
  PROVE  Len(lsu_buf') <= LSU_DEPTH
<1> DEFINE b == Len(lsu_buf)
           m == Len(accs)
           t == Taken
           b2 == Len(lsu_buf')
<1>1. b \in Nat /\ m \in Nat /\ t \in 0 .. 2 /\ t <= b /\ b2 = b - t + m /\ LSU_DEPTH \in Nat
      /\ S_CHANNEL \in Nat
  <2>1. b \in Nat
    BY SeqType DEF BufOK
  <2>2. m \in Nat
    BY BatchLen
  <2>3. t \in 0 .. 2 /\ t <= b /\ b2 = b - t + m
    BY DEF NewBuf
  <2>4. LSU_DEPTH \in Nat /\ S_CHANNEL \in Nat
    BY LsuBufferAssumption
  <2> QED BY <2>1, <2>2, <2>3, <2>4
<1>2. m <= S_CHANNEL
  <2>1. PICK k \in 0 .. S_CHANNEL : accs \in [1 .. k -> workload.accesses]
    BY DEF Batches
  <2>2. accs = [i \in 1 .. k |-> accs[i]] /\ k \in Nat
    BY <1>1, <2>1
  <2>3. Len(accs) = k
    BY <2>2, SeqIntro
  <2> QED BY <2>3
<1>3. m = 0 \/ LSU_DEPTH - b >= S_CHANNEL
  <2>1. accs = <<>> => m = 0
    BY BatchLen
  <2>2. accs # <<>> => LSU_DEPTH - b >= S_CHANNEL
    BY DEF LegalArrival, v_s_lsu_rdy
  <2> QED BY <2>1, <2>2
<1>4. b <= LSU_DEPTH
  OBVIOUS
<1> HIDE DEF b, m, t, b2
<1>5. b2 <= LSU_DEPTH
  BY <1>1, <1>2, <1>3, <1>4
<1> QED BY <1>5 DEF b2


LEMMA NextInv == LsuInv /\ Regular /\ RetiredFit' /\ Next => LsuInv'
<1> SUFFICES ASSUME LsuInv, Regular, RetiredFit', Next PROVE LsuInv'
  OBVIOUS
<1>1. /\ BufOK /\ RobShape /\ LdqFlags /\ RobLoads
      /\ workload \in Workloads /\ refill \in 0 .. REFILL /\ Len(lsu_buf) <= LSU_DEPTH
      /\ RobTyped /\ StqTyped /\ LdqTyped
      /\ arch \in [Bytes -> Value] /\ mem \in [Bytes -> Value]
  BY DEF LsuInv, DataInv
<1>2. PICK g : LdqShape(g)
  BY DEF LsuInv, LoadInv
<1>3. PICK c, h : StqShape(c, h) /\ RobStores(c, h)
  BY DEF LsuInv, StoreInv
<1>4. PICK accs, n, edge : Legal(accs, n, edge) /\ Parts(Arriving(accs), n, edge, edge \/ Cancelling)
  BY Steps
<1>5. PICK new : new = Arriving(accs)
  OBVIOUS
<1>6. PICK cancel \in BOOLEAN : cancel <=> edge \/ Cancelling
  OBVIOUS
<1>7. Parts(new, n, edge, cancel)
  <2>1. cancel = (edge \/ Cancelling)
    BY <1>6
  <2> QED BY <1>4, <1>5, <2>1
<1>8. accs \in Batches /\ n \in Nat /\ edge \in BOOLEAN /\ LegalRetire(n) /\ LegalArrival(accs)
      /\ (edge => ~Cancelling)
  BY <1>4 DEF Legal
<1>9. OffersInOrder /\ AnswersTaken /\ RetiredFit /\ RetiredFit'
  BY DEF Regular
<1>10. workload' = workload /\ (Cancelling' <=> edge) /\ refill' \in 0 .. REFILL
  <2>1. /\ workload' = workload
        /\ refill' = IF edge THEN REFILL ELSE IF refill > 0 THEN refill - 1 ELSE 0
    BY <1>7 DEF Parts
  <2>2. REFILL \in Nat \ {0}
    BY LsuAssumption
  <2> QED BY <1>1, <1>8, <2>1, <2>2 DEF Cancelling
<1>11. /\ NewAnswer(req_branch_id_nxt(edge)) /\ req_branch_id' = req_branch_id_nxt(edge)
       /\ NextLdqPld(LoadsTaken, Request) /\ NextMemory(Request, Drain, edge)
       /\ NextLdqFlags(LoadsTaken, Request, branch_ack_vld(edge), cancel)
       /\ NextStqFlags(StoresTaken, Retiring(n), Drain, cancel)
       /\ NextStqPld(StoresTaken) /\ NextRob(new, n, edge, cancel)
       /\ NextCredits(StoresTaken, LoadsTaken, ldq_rd_en, Drain, cancel, stq_commit_cnt)
       /\ NextLdqPtr(LoadsTaken, edge, cancel)
  <2>1. /\ req_branch_id' = req_branch_id_nxt(edge)
        /\ NextLdqPld(LoadsTaken, Request) /\ NextMemory(Request, Drain, edge)
        /\ NextLdqFlags(LoadsTaken, Request, branch_ack_vld(edge), cancel)
        /\ NextStqFlags(StoresTaken, Retiring(n), Drain, cancel)
        /\ NextStqPld(StoresTaken) /\ NextRob(new, n, edge, cancel)
        /\ NextCredits(StoresTaken, LoadsTaken, ldq_rd_en, Drain, cancel, stq_commit_cnt)
        /\ NextLdqPtr(LoadsTaken, edge, cancel)
    BY <1>7 DEF Parts, NextLdqPtr
  <2> QED BY <1>1, <1>2, <1>8, <2>1, NextAnswer
<1>12. LoadInv'
  <2>1. \E i \in 0 .. LDU_DEPTH : LdqShape(i)'
    BY <1>1, <1>2, <1>11, NextLdqShape
  <2> QED BY <2>1 DEF LoadInv
<1>13. LdqTyped'
  BY <1>1, <1>2, <1>8, <1>10, <1>11, NextLdqTyped
<1>14. StqTyped'
  <2>1. PICK r, out, c2, h2 : StoresNext(c, h, n, cancel, r, out, c2, h2)
    BY <1>1, <1>2, <1>3, <1>4, <1>6, <1>7, <1>9, <1>10, NextStores
  <2>2. r \in 0 .. h - c /\ RetiredFacts(n, c, r)
    BY <2>1 DEF StoresNext
  <2> QED BY <1>1, <1>3, <1>10, <1>11, <2>2, NextStqTyped
<1>15. (arch \in [Bytes -> Value])' /\ (mem \in [Bytes -> Value])'
  BY <1>1, <1>3, <1>8, <1>10, <1>11, NextMemTyped
<1>16. CASE cancel
  <2>1. edge \/ Cancelling
    BY <1>6, <1>16
  <2>2. Parts(new, n, edge, TRUE)
    <3>1. cancel = TRUE
      BY <1>16
    <3> QED BY <1>7, <3>1, Zenon
  <2>3. BufOK' /\ RobShape' /\ LdqFlags' /\ RobLoads' /\ StoreInv'
    BY <1>1, <1>2, <1>3, <1>4, <1>9, <1>10, <1>11, <2>1, <2>2, NoneAssumption, CancelStep
  <2>4. rob' = <<>> /\ lsu_buf' = <<>>
    BY <2>2 DEF Parts, NextBuffer, NextRob
  <2>5. RobTyped' /\ Len(lsu_buf') <= LSU_DEPTH
    BY <2>4, LsuBufferAssumption DEF RobTyped
  <2> QED BY <1>1, <1>10, <1>12, <1>13, <1>14, <1>15, <2>3, <2>5 DEF LsuInv, DataInv
<1>17. CASE ~cancel
  <2>1. ~edge /\ ~Cancelling /\ ~Cancelling'
    BY <1>6, <1>10, <1>17
  <2>2. edge = FALSE /\ cancel = FALSE
    BY <1>8, <1>17, <2>1
  <2>3. Parts(Arriving(accs), n, FALSE, FALSE) /\ Legal(accs, n, FALSE)
    BY <1>4, <1>5, <1>7, <2>2
  <2>4. NewAnswer(req_branch_id)
    BY <1>11, <2>2 DEF req_branch_id_nxt
  <2>5. BufOK' /\ RobShape' /\ LdqFlags' /\ RobLoads' /\ StoreInv'
    BY <1>1, <1>2, <1>3, <1>9, <2>1, <2>3, <2>4, NoneAssumption, RunStep
  <2>6. Fits(accs)
    BY <1>1, <1>8, ArrivalFits
  <2>7. IsSeq(new) /\ Len(new) = Len(accs)
    BY <1>1, <1>5, <1>8, <2>6, ArrivingIs DEF ArrivedFacts
  <2>8. NewRob(new, n) /\ NewBuf(new)
    <3>1. NextRob(new, n, FALSE, FALSE) /\ NextBuffer(new, StoresTaken, LoadsTaken, FALSE)
      BY <1>5, <2>3 DEF Parts
    <3>2. /\ n <= In /\ IsSeq(rob') /\ Len(rob') = Len(rob) - n + Len(new)
          /\ \A j \in 1 .. Len(rob) - n : Moved(j, n)
          /\ \A k \in 1 .. Len(new) :
               rob'[Len(rob) - n + k] = [op |-> new[k], done |-> FALSE, entry |-> NONE]
      BY <1>1, <1>2, <1>8, <2>1, <2>7, <3>1, NextRobIs
    <3>3. Len(new) \in Nat
      BY <2>7, SeqType
    <3> QED BY <1>1, <1>8, <2>7, <3>1, <3>2, <3>3, NextBufferIs, Zenon DEF NewRob
  <2>9. RobTyped'
    BY <1>1, <1>2, <1>3, <1>5, <1>8, <1>10, <2>1, <2>7, <2>8, NextRobTyped
  <2>10. Len(lsu_buf') <= LSU_DEPTH
    BY <1>1, <1>8, <2>7, <2>8, NextBufLen
  <2> QED BY <1>1, <1>10, <1>12, <1>13, <1>14, <1>15, <2>5, <2>9, <2>10 DEF LsuInv, DataInv
<1> QED BY <1>16, <1>17

LEMMA StutterInv == LsuInv /\ UNCHANGED vars => LsuInv'
<1> SUFFICES ASSUME LsuInv, UNCHANGED vars PROVE LsuInv'
  OBVIOUS
<1> USE DEF vars, stq, ldq
<1>1. In' = In /\ Committed' = Committed /\ DoneStores' = DoneStores /\ Value' = Value
      /\ HeldStores' = HeldStores /\ (Cancelling' <=> Cancelling)
  BY DEF In, Committed, DoneStores, Value, HeldStores, Cancelling
<1>2. BufOK'
  BY DEF LsuInv, BufOK
<1>3. LoadInv'
  BY DEF LsuInv, LoadInv, LdqShape, LOff
<1>4. StoreInv'
  <2>1. PICK c, h \in 0 .. STU_DEPTH : StqShape(c, h) /\ RobStores(c, h)
    BY DEF LsuInv, StoreInv
  <2>2. StqShape(c, h)'
    BY <1>1, <2>1 DEF StqShape, Off
  <2>3. RobStores(c, h)'
    BY <1>1, <2>1 DEF RobStores, Off
  <2> QED BY <2>2, <2>3 DEF StoreInv
<1>5. RobShape'
  BY <1>1 DEF LsuInv, RobShape
<1>6. LdqFlags'
  BY <1>1 DEF LsuInv, LdqFlags
<1>7. RobLoads'
  BY <1>1 DEF LsuInv, RobLoads, Asks
<1>8. DataInv'
  BY <1>1 DEF LsuInv, DataInv, RobTyped, StqTyped, LdqTyped, IsOp, Data
<1> QED BY <1>2, <1>3, <1>4, <1>5, <1>6, <1>7, <1>8 DEF LsuInv


-----------------------------------------------------------------------------
(* What the invariant says of credits, order and reports.                  *)
LEMMA TypesHold == LsuInv /\ RetiredFit => LsuTypeOK
<1> SUFFICES ASSUME LsuInv, RetiredFit PROVE LsuTypeOK
  OBVIOUS
<1>1. /\ BufOK /\ RobShape /\ LdqFlags /\ RobLoads
      /\ workload \in Workloads /\ refill \in 0 .. REFILL /\ Len(lsu_buf) <= LSU_DEPTH
      /\ RobTyped /\ StqTyped /\ LdqTyped
      /\ arch \in [Bytes -> Value] /\ mem \in [Bytes -> Value]
  BY DEF LsuInv, DataInv
<1>2. PICK g : LdqShape(g)
  BY DEF LsuInv, LoadInv
<1>3. PICK c, h : StqShape(c, h) /\ RobStores(c, h)
  BY DEF LsuInv, StoreInv
<1>4. \A k \in 1 .. Len(lsu_buf) : IsOp(lsu_buf[k])
  <2> TAKE k \in 1 .. Len(lsu_buf)
  <2>1. In + k \in 1 .. Len(rob)
    BY <1>1, SeqType DEF BufOK, RobShape, In
  <2>2. rob[In + k].op = lsu_buf[k]
    BY <1>1 DEF RobShape
  <2> QED BY <1>1, <2>1, <2>2 DEF RobTyped
<1>5. stu_credit_cnt \in 0 .. STU_DEPTH /\ ldu_credit_cnt \in 0 .. LDU_DEPTH
  <2>1. stu_credit_cnt \in 0 .. STU_DEPTH
    BY <1>3 DEF StqShape
  <2>2. ldu_credit_cnt = LDU_DEPTH - g /\ g \in 0 .. LDU_DEPTH
    BY <1>2 DEF LdqShape
  <2> QED BY <2>1, <2>2, Depths
<1>6. stq_en \in [Stq -> BOOLEAN] /\ stq_commit \in [Stq -> BOOLEAN]
  BY <1>3 DEF StqShape
<1>7. {stq_wr_ptr, stq_rd_ptr, wr_ptr_commit, stq_commit_cnt} \subseteq Stq
  <2>1. /\ stq_wr_ptr \in Stq /\ stq_rd_ptr \in Stq /\ wr_ptr_commit = Wrap(stq_rd_ptr + c, STU_DEPTH)
        /\ stq_commit_cnt = c /\ c \in 0 .. h /\ h \in 0 .. STU_DEPTH
    BY <1>3 DEF StqShape
  <2>2. c < STU_DEPTH
    BY <1>3, StoresHeld DEF RetiredFit
  <2>3. c \in Stq
    BY <2>1, <2>2, Depths DEF Stq
  <2>4. Wrap(stq_rd_ptr + c, STU_DEPTH) \in Stq
    BY <2>1, <2>3, Depths DEF Stq, Wrap
  <2> QED BY <2>1, <2>3, <2>4
<1>8. /\ \A f \in {ldq_en, stq_flag, stq_ack, mem_req, mem_ack} : f \in [Ldq -> BOOLEAN]
      /\ \A i \in HeldLoads : IsOp(ldq_pld[i]) /\ ldq_pld[i].ld
  <2>1. ldq_en \in [Ldq -> BOOLEAN]
    BY <1>2 DEF LdqShape
  <2>2. \A i \in HeldLoads : IsOp(ldq_pld[i]) /\ ldq_pld[i].ld
    BY <1>1 DEF HeldLoads, LdqTyped, RobLoads
  <2> QED BY <1>1, <2>1, <2>2 DEF LdqFlags
<1>9. {ldq_wr_ptr, ldq_rd_ptr} \subseteq Ldq
  BY <1>1, <1>2, NewLoads DEF LdqShape
<1>10. /\ req_branch_id \in 1 .. BRANCH_NUM
       /\ answer # NONE => /\ answer.entry \in Ldq /\ answer.branch \in 1 .. BRANCH_NUM
                           /\ IsOp(ldq_pld[answer.entry])
                           /\ answer.data \in Data(ldq_pld[answer.entry])
  BY <1>1 DEF LdqTyped, LdqFlags
<1>11. /\ Len(rob) <= workload.in_flight
       /\ \A k \in 1 .. Len(rob) : IsOp(rob[k].op) /\ rob[k].done \in BOOLEAN
                                   /\ rob[k].entry \in Stq \cup {NONE}
  BY <1>1 DEF RobTyped, RobShape
<1>12. \A i \in Stq : IF i \in HeldStores THEN IsOp(stq_pld[i]) /\ ~stq_pld[i].ld
                      ELSE stq_pld[i] = NONE
  BY <1>1 DEF StqTyped
<1> QED BY <1>1, <1>4, <1>5, <1>6, <1>7, <1>8, <1>9, <1>10, <1>11, <1>12 DEF LsuTypeOK, Value

LEMMA CreditsHold == LsuInv => CreditExact
<1> SUFFICES ASSUME LsuInv PROVE CreditExact
  OBVIOUS
<1>1. PICK g : LdqShape(g)
  BY DEF LsuInv, LoadInv
<1>2. PICK c, h : StqShape(c, h)
  BY DEF LsuInv, StoreInv
<1>3. LDU_DEPTH - ldu_credit_cnt = Cardinality(HeldLoads)
  <2>1. Cardinality(HeldLoads) = g
    BY <1>1, LoadsHeld
  <2>2. ldu_credit_cnt = LDU_DEPTH - g /\ g \in 0 .. LDU_DEPTH
    BY <1>1 DEF LdqShape
  <2> QED BY <2>1, <2>2, Depths
<1>4. ~Cancelling => STU_DEPTH - stu_credit_cnt - Cardinality(HeldStores) \in {0, 1}
  <2>1. Cardinality(HeldStores) = h
    BY <1>2, StoresHeld
  <2>2. ~Cancelling => STU_DEPTH - stu_credit_cnt - h \in {0, 1}
    BY <1>2 DEF StqShape
  <2> QED BY <2>1, <2>2
<1> QED BY <1>3, <1>4 DEF CreditExact

(* The operations that entered a queue are the first In of rob.            *)
LEMMA EnteredAre ==
  ASSUME LsuInv
  PROVE  /\ Asking = {ldq_pld[i] : i \in {j \in Ldq : Asks(j)}}
         /\ In \in Nat /\ Len(lsu_buf) \in Nat /\ Len(rob) = In + Len(lsu_buf)
         /\ \A k \in 1 .. Len(rob) : Entered(k) <=> k \in 1 .. In
<1>1. BufOK /\ RobShape /\ LdqFlags /\ RobLoads /\ workload \in Workloads
  BY DEF LsuInv, DataInv
<1>2. PICK g : LdqShape(g)
  BY DEF LsuInv, LoadInv
<1>3. Asking = {ldq_pld[i] : i \in {j \in Ldq : Asks(j)}}
  <2>1. {j \in HeldLoads : ~stq_flag[j] /\ ~mem_ack[j]} = {j \in Ldq : Asks(j)}
    BY <1>1 DEF HeldLoads, Asks, LdqFlags
  <2> QED BY <2>1 DEF Asking
<1> DEFINE L == Len(rob)
           b == Len(lsu_buf)
<1>4. L \in Nat /\ b \in Nat /\ In = L - b /\ In >= 0
  BY <1>1, SeqType DEF BufOK, RobShape, In
<1>5. In \in Nat /\ L = In + b
  <2> HIDE DEF L, b
  <2> QED BY <1>4
<1>6. ASSUME NEW k \in 1 .. L PROVE Entered(k) <=> k \in 1 .. In
  <2>1. CASE k \in 1 .. In
    <3>1. rob[k].done \in BOOLEAN
      BY <1>1 DEF RobShape
    <3>2. ~rob[k].done => \E i \in Ldq : Asks(i) /\ ldq_pld[i] = rob[k].op
      BY <1>1, <2>1 DEF RobLoads
    <3> QED BY <1>3, <2>1, <3>1, <3>2 DEF Entered
  <2>2. CASE k \notin 1 .. In
    <3>1. PICK p \in 1 .. b : k = In + p
      <4> HIDE DEF L, b
      <4>1. k - In \in 1 .. b /\ k = In + (k - In)
        BY <1>5, <1>4, <2>2
      <4> QED BY <4>1
    <3>2. ~rob[k].done
      BY <1>1, <3>1 DEF RobShape
    <3>3. ASSUME rob[k].op \in Asking PROVE FALSE
      <4>1. PICK i \in Ldq : Asks(i) /\ rob[k].op = ldq_pld[i]
        BY <1>3, <3>3
      <4>2. PICK j \in 1 .. In : rob[j].op = ldq_pld[i]
        BY <1>1, <4>1 DEF RobLoads
      <4>3. j \in 1 .. L
        BY <1>5, <1>4
      <4>4. j = k
        BY <1>1, <4>1, <4>2, <4>3, OpsDiffer
      <4> QED BY <2>2, <4>4
    <3> QED BY <2>2, <3>2, <3>3 DEF Entered
  <2> QED BY <2>1, <2>2
<1> QED BY <1>3, <1>4, <1>5, <1>6

LEMMA OrderHolds == LsuInv => LsuInOrder
<1> SUFFICES ASSUME LsuInv, NEW k \in 1 .. Len(rob), Entered(k), NEW j \in 1 .. k - 1
    PROVE  Entered(j)
  BY DEF LsuInOrder
<1>1. PICK L : L = Len(rob)
  OBVIOUS
<1>2. PICK i : i = In
  OBVIOUS
<1>3. k \in 1 .. i /\ i \in Nat /\ L \in Nat /\ k \in 1 .. L
  <2>1. In \in Nat /\ Len(lsu_buf) \in Nat /\ Len(rob) = In + Len(lsu_buf)
    BY EnteredAre
  <2>2. k \in 1 .. i
    BY <1>2, EnteredAre
  <2>3. \A x, y \in Nat : x + y \in Nat
    OBVIOUS
  <2> QED BY <1>1, <1>2, <2>1, <2>2, <2>3, Zenon
<1>4. j \in 1 .. i /\ j \in 1 .. L
  BY <1>3
<1> QED BY <1>1, <1>2, <1>4, EnteredAre


LEMMA SameSize ==
  ASSUME NEW S, IsFiniteSet(S), NEW T, NEW f \in [S -> T],
         \A x, y \in S : f[x] = f[y] => x = y, \A t \in T : \E x \in S : f[x] = t
  PROVE  IsFiniteSet(T) /\ Cardinality(T) = Cardinality(S)
<1>1. f \in Bijection(S, T)
  BY Fun_IsBij
<1>2. ExistsBijection(S, T)
  BY <1>1 DEF ExistsBijection
<1> QED BY <1>2, FS_Bijection

(* Where the operations of rob are that are not done.                      *)
LEMMA PlacesHold ==
  ASSUME LsuInv
  PROVE  /\ Unreported = InBuffer \cup Asking /\ InBuffer \cap Asking = {}
         /\ Cardinality(InBuffer) = Len(lsu_buf)
<1>1. BufOK /\ RobShape /\ RobLoads /\ workload \in Workloads
  BY DEF LsuInv, DataInv
<1> DEFINE L == Len(rob)
           b == Len(lsu_buf)
<1>2. /\ Asking = {ldq_pld[i] : i \in {j \in Ldq : Asks(j)}}
      /\ In \in Nat /\ b \in Nat /\ L = In + b
      /\ \A k \in 1 .. L : Entered(k) <=> k \in 1 .. In
  BY EnteredAre
<1>3. ASSUME NEW k \in 1 .. b
      PROVE  In + k \in 1 .. L /\ In + k \notin 1 .. In /\ rob[In + k].op = lsu_buf[k] /\ ~rob[In + k].done
  <2>1. In + k \in 1 .. L /\ In + k \notin 1 .. In
    <3> HIDE DEF L, b
    <3> QED BY <1>2
  <2> QED BY <1>1, <2>1 DEF RobShape
<1>4. \A j \in 1 .. In : j \in 1 .. L
  <2> HIDE DEF L, b
  <2> QED BY <1>2
<1>5. ASSUME NEW op \in Unreported PROVE op \in InBuffer \cup Asking
  <2>1. PICK j \in 1 .. L : ~rob[j].done /\ op = rob[j].op
    BY DEF Unreported
  <2>2. CASE j \in 1 .. In
    <3>1. Entered(j)
      BY <1>2, <2>2
    <3> QED BY <2>1, <3>1 DEF Entered
  <2>3. CASE j \notin 1 .. In
    <3> DEFINE k == j - In
    <3>1. k \in 1 .. b /\ In + k = j
      <4> HIDE DEF L, b
      <4> QED BY <1>2, <2>3
    <3> HIDE DEF k
    <3>2. op = lsu_buf[k]
      BY <1>3, <2>1, <3>1
    <3> QED BY <3>1, <3>2 DEF InBuffer
  <2> QED BY <2>2, <2>3
<1>6. ASSUME NEW op \in Asking PROVE op \in Unreported
  <2>1. PICK i \in Ldq : Asks(i) /\ op = ldq_pld[i]
    BY <1>2
  <2>2. PICK j \in 1 .. In : ~rob[j].done /\ rob[j].op = op
    BY <1>1, <2>1 DEF RobLoads
  <2> QED BY <1>4, <2>2 DEF Unreported
<1>7. ASSUME NEW op \in InBuffer PROVE op \in Unreported /\ op \notin Asking
  <2>1. PICK k \in 1 .. b : op = lsu_buf[k]
    BY DEF InBuffer
  <2>2. PICK j \in 1 .. L : j = In + k
    BY <1>3
  <2>3. j \notin 1 .. In /\ rob[j].op = op /\ ~rob[j].done
    BY <1>3, <2>1, <2>2
  <2>4. ~Entered(j)
    BY <1>2, <2>3
  <2> QED BY <2>3, <2>4 DEF Unreported, Entered
<1>8. Cardinality(InBuffer) = b
  <2> DEFINE f == [k \in 1 .. b |-> lsu_buf[k]]
  <2>1. f \in [1 .. b -> InBuffer] /\ \A op \in InBuffer : \E k \in 1 .. b : f[k] = op
    BY DEF InBuffer
  <2>2. ASSUME NEW j \in 1 .. b, NEW k \in 1 .. b, f[j] = f[k] PROVE j = k
    <3>1. lsu_buf[j] = lsu_buf[k]
      BY <2>2
    <3>2. rob[In + j].op.id = rob[In + k].op.id
      BY <1>3, <3>1
    <3>3. In + j = In + k
      BY <1>1, <1>3, <3>2, OpsDiffer
    <3> HIDE DEF b
    <3> QED BY <1>2, <3>3
  <2>3. IsFiniteSet(1 .. b) /\ Cardinality(1 .. b) = b
    <3>1. 1 \in Int /\ b \in Int
      BY <1>2
    <3>2. IsFiniteSet(1 .. b) /\ Cardinality(1 .. b) = IF 1 > b THEN 0 ELSE b - 1 + 1
      <4> HIDE DEF b
      <4> QED BY <3>1, FS_Interval
    <3> HIDE DEF b
    <3> QED BY <1>2, <3>2
  <2> HIDE DEF f, b
  <2> QED BY <2>1, <2>2, <2>3, SameSize
<1> QED BY <1>5, <1>6, <1>7, <1>8

(* The taken loads which a store answers.                                  *)
Flagged == {k \in 1 .. 2 : v_ldq_ack_flag(k)}

LEMMA ReportedOnce ==
  ASSUME LsuInv, ~Cancelling
  PROVE  LET reports == {r.op : r \in StoreReports} \cup {r.op : r \in LoadReports(FALSE)}
         IN  /\ reports \subseteq Unreported
             /\ Cardinality(reports) = Cardinality(StoreReports) + Cardinality(LoadReports(FALSE))
<1> DEFINE SR == StoreReports
           LR == LoadReports(FALSE)
           S == {r.op : r \in SR}
           T == {r.op : r \in LR}
           flagged == {[op |-> LduOffer[k], data |-> Met(k).data] : k \in Flagged}
           one == [op |-> ldq_pld[answer.entry], data |-> answer.data]
           acked == IF branch_ack_vld(FALSE) /\ ~stq_ack[answer.entry] THEN {one} ELSE {}
<1>1. BufOK /\ RobShape /\ LdqFlags /\ RobLoads /\ workload \in Workloads
  BY DEF LsuInv, DataInv
<1>2. PICK g : LdqShape(g)
  BY DEF LsuInv, LoadInv
<1>3. /\ In \in Nat /\ \A j \in 1 .. In : j \in 1 .. Len(rob)
  <2>1. In \in Nat /\ Len(lsu_buf) \in Nat /\ Len(rob) = In + Len(lsu_buf)
    BY EnteredAre
  <2>2. \A x, y \in Nat : \A j \in 1 .. x : j \in 1 .. x + y
    OBVIOUS
  <2> QED BY <2>1, <2>2, Zenon
<1>4. LR = flagged \cup acked
  BY DEF LoadReports, Flagged
<1>5. ASSUME NEW k \in 1 .. StoresTaken
      PROVE  \E j \in 1 .. Len(rob) : j = In + Pos(FALSE, k) /\ rob[j].op = StuOffer[k] /\ ~rob[j].done /\ ~StuOffer[k].ld
  <2>1. OfferFacts(StuOffer, FALSE) /\ FALSE \in BOOLEAN /\ k \in 1 .. Len(StuOffer)
    BY <1>1, TakenOffered, Zenon
  <2>2. /\ In + Pos(FALSE, k) \in 1 .. Len(rob) /\ rob[In + Pos(FALSE, k)].op = StuOffer[k]
        /\ StuOffer[k].ld = FALSE /\ ~rob[In + Pos(FALSE, k)].done
    BY <1>1, <2>1, OfferInRob, Zenon
  <2> QED BY <2>2
<1>6. ASSUME NEW k \in Flagged
      PROVE  \E j \in 1 .. Len(rob) : j = In + Pos(TRUE, k) /\ j > In /\ rob[j].op = LduOffer[k] /\ ~rob[j].done /\ LduOffer[k].ld
  <2>1. OfferFacts(LduOffer, TRUE) /\ TRUE \in BOOLEAN /\ k \in 1 .. Len(LduOffer)
    BY <1>1, TakenOffered, Zenon DEF Flagged
  <2>2. /\ In + Pos(TRUE, k) \in 1 .. Len(rob) /\ rob[In + Pos(TRUE, k)].op = LduOffer[k]
        /\ LduOffer[k].ld = TRUE /\ ~rob[In + Pos(TRUE, k)].done /\ In + Pos(TRUE, k) > In
    BY <1>1, <2>1, OfferInRob, Zenon
  <2> QED BY <2>2
<1>7. ASSUME NEW r \in acked
      PROVE  r = one /\ \E j \in 1 .. In : rob[j].op = r.op /\ ~rob[j].done /\ r.op.ld
  <2>1. branch_ack_vld(FALSE) /\ r = one
    <3>1. CASE branch_ack_vld(FALSE) /\ ~stq_ack[answer.entry]
      BY <3>1
    <3>2. CASE ~(branch_ack_vld(FALSE) /\ ~stq_ack[answer.entry])
      BY <3>2
    <3> QED BY <3>1, <3>2
  <2>2. answer # NONE
    BY <2>1 DEF branch_ack_vld
  <2>3. answer.entry \in Ldq /\ Asks(answer.entry)
    BY <1>1, <1>2, <2>2, AnswerAsks
  <2>4. PICK j \in 1 .. In : ~rob[j].done /\ rob[j].op = ldq_pld[answer.entry]
    BY <1>1, <2>3 DEF RobLoads
  <2>5. ldq_pld[answer.entry].ld
    BY <1>1, <2>3 DEF RobLoads, Asks
  <2>6. r.op = ldq_pld[answer.entry]
    BY <2>1
  <2> QED BY <2>1, <2>4, <2>5, <2>6
<1>8. ASSUME NEW r \in SR
      PROVE  \E k \in 1 .. StoresTaken : r = [op |-> StuOffer[k], entry |-> StqEntry(k)] /\ r.op = StuOffer[k]
  BY DEF StoreReports
<1>9. ASSUME NEW r \in flagged
      PROVE  \E k \in Flagged : r = [op |-> LduOffer[k], data |-> Met(k).data] /\ r.op = LduOffer[k]
  BY DEF Flagged
<1>10. ASSUME NEW j \in 1 .. Len(rob), NEW k \in 1 .. Len(rob), rob[j].op = rob[k].op PROVE j = k
  BY <1>1, <1>10, OpsDiffer
<1> HIDE DEF SR, flagged, acked, one
<1>11. S \cup T \subseteq Unreported
  <2>1. ASSUME NEW r \in SR PROVE r.op \in Unreported
    <3>1. PICK k \in 1 .. StoresTaken : r.op = StuOffer[k]
      BY <1>8
    <3>2. PICK j \in 1 .. Len(rob) : rob[j].op = StuOffer[k] /\ ~rob[j].done
      BY <1>5
    <3> QED BY <3>1, <3>2 DEF Unreported
  <2>2. ASSUME NEW r \in flagged PROVE r.op \in Unreported
    <3>1. PICK k \in Flagged : r.op = LduOffer[k]
      BY <1>9
    <3>2. PICK j \in 1 .. Len(rob) : rob[j].op = LduOffer[k] /\ ~rob[j].done
      BY <1>6
    <3> QED BY <3>1, <3>2 DEF Unreported
  <2>3. ASSUME NEW r \in acked PROVE r.op \in Unreported
    <3>1. PICK j \in 1 .. In : rob[j].op = r.op /\ ~rob[j].done
      BY <1>7
    <3> QED BY <1>3, <3>1 DEF Unreported
  <2> QED BY <1>4, <2>1, <2>2, <2>3
<1>12. S \cap T = {}
  <2>1. ASSUME NEW r \in SR PROVE ~r.op.ld
    <3>1. PICK k \in 1 .. StoresTaken : r.op = StuOffer[k]
      BY <1>8
    <3> QED BY <1>5, <3>1
  <2>2. ASSUME NEW r \in LR PROVE r.op.ld
    <3>1. CASE r \in flagged
      <4>1. PICK k \in Flagged : r.op = LduOffer[k]
        BY <1>9, <3>1
      <4> QED BY <1>6, <4>1
    <3>2. CASE r \in acked
      BY <1>7, <3>2
    <3> QED BY <1>4, <3>1, <3>2
  <2> QED BY <2>1, <2>2
<1>13. ASSUME NEW q \in SR, NEW r \in SR, q.op = r.op PROVE q = r
  <2>1. PICK k \in 1 .. StoresTaken : q = [op |-> StuOffer[k], entry |-> StqEntry(k)] /\ q.op = StuOffer[k]
    BY <1>8
  <2>2. PICK m \in 1 .. StoresTaken : r = [op |-> StuOffer[m], entry |-> StqEntry(m)] /\ r.op = StuOffer[m]
    BY <1>8
  <2>3. In + Pos(FALSE, k) = In + Pos(FALSE, m)
    <3>1. PICK j \in 1 .. Len(rob) : j = In + Pos(FALSE, k) /\ rob[j].op = StuOffer[k]
      BY <1>5
    <3>2. PICK i \in 1 .. Len(rob) : i = In + Pos(FALSE, m) /\ rob[i].op = StuOffer[m]
      BY <1>5
    <3>3. StuOffer[k] = StuOffer[m]
      BY <1>13, <2>1, <2>2, Zenon
    <3>4. rob[j].op = rob[i].op
      BY <3>1, <3>2, <3>3, Zenon
    <3>5. j = i
      BY <1>10, <3>4, Zenon
    <3> QED BY <3>1, <3>2, <3>5, Zenon
  <2>4. k = m
    <3>1. /\ \A a, b \in 1 .. StoresTaken : a < b => Pos(FALSE, a) < Pos(FALSE, b)
          /\ Pos(FALSE, k) \in 1 .. 2 /\ Pos(FALSE, m) \in 1 .. 2
      BY <1>1, PosOrder
    <3>2. \A i \in Nat : \A a, b \in 1 .. 2 : i + a = i + b => a = b
      OBVIOUS
    <3>3. Pos(FALSE, k) = Pos(FALSE, m)
      BY <1>3, <2>3, <3>1, <3>2, Zenon
    <3>4. \A a, b \in 1 .. 2 : a < b => a # b
      OBVIOUS
    <3>5. ~(k < m) /\ ~(m < k)
      BY <3>1, <3>3, <3>4
    <3>6. k \in Int /\ m \in Int
      OBVIOUS
    <3> QED BY <3>5, <3>6
  <2> QED BY <2>1, <2>2, <2>4
<1>14. ASSUME NEW q \in flagged, NEW r \in flagged, q.op = r.op PROVE q = r
  <2>1. PICK k \in Flagged : q = [op |-> LduOffer[k], data |-> Met(k).data] /\ q.op = LduOffer[k]
    BY <1>9
  <2>2. PICK m \in Flagged : r = [op |-> LduOffer[m], data |-> Met(m).data] /\ r.op = LduOffer[m]
    BY <1>9
  <2>3. In + Pos(TRUE, k) = In + Pos(TRUE, m)
    <3>1. PICK j \in 1 .. Len(rob) : j = In + Pos(TRUE, k) /\ rob[j].op = LduOffer[k]
      BY <1>6
    <3>2. PICK i \in 1 .. Len(rob) : i = In + Pos(TRUE, m) /\ rob[i].op = LduOffer[m]
      BY <1>6
    <3>3. LduOffer[k] = LduOffer[m]
      BY <1>14, <2>1, <2>2, Zenon
    <3>4. rob[j].op = rob[i].op
      BY <3>1, <3>2, <3>3, Zenon
    <3>5. j = i
      BY <1>10, <3>4, Zenon
    <3> QED BY <3>1, <3>2, <3>5, Zenon
  <2>4. k = m
    <3>1. k \in 1 .. Len(LduOffer) /\ m \in 1 .. Len(LduOffer)
      BY <1>1, TakenOffered, Zenon DEF Flagged
    <3>2. /\ \A a, b \in 1 .. Len(LduOffer) : a < b => Pos(TRUE, a) < Pos(TRUE, b)
          /\ Pos(TRUE, k) \in 1 .. 2 /\ Pos(TRUE, m) \in 1 .. 2
      BY <1>1, <3>1, PosOrder
    <3>3. \A i \in Nat : \A a, b \in 1 .. 2 : i + a = i + b => a = b
      OBVIOUS
    <3>4. Pos(TRUE, k) = Pos(TRUE, m)
      BY <1>3, <2>3, <3>2, <3>3, Zenon
    <3>5. \A a, b \in 1 .. 2 : a < b => a # b
      OBVIOUS
    <3>6. ~(k < m) /\ ~(m < k)
      BY <3>1, <3>2, <3>4, <3>5
    <3>7. k \in Int /\ m \in Int
      BY DEF Flagged
    <3> QED BY <3>6, <3>7
  <2> QED BY <2>1, <2>2, <2>4
<1>15. ASSUME NEW q \in flagged, NEW r \in acked PROVE q.op # r.op
  <2>1. PICK k \in Flagged : q.op = LduOffer[k]
    BY <1>9
  <2>2. PICK j \in 1 .. Len(rob) : j > In /\ rob[j].op = LduOffer[k]
    BY <1>6
  <2>3. PICK i \in 1 .. In : rob[i].op = r.op
    BY <1>7
  <2>4. q.op = r.op => i = j
    BY <1>3, <1>10, <2>1, <2>2, <2>3
  <2>5. \A x : x > In => i # x
    BY <1>3
  <2> QED BY <2>2, <2>4, <2>5, Zenon
<1>16. ASSUME NEW q \in LR, NEW r \in LR, q.op = r.op PROVE q = r
  BY <1>4, <1>7, <1>14, <1>15, <1>16
<1>17. IsFiniteSet(SR) /\ IsFiniteSet(LR)
  <2>1. IsFiniteSet(SR)
    <3>1. StoresTaken \in Int /\ 1 \in Int
      <4>1. StoresTaken \in 0 .. 2
        BY <1>1, TakenBounds
      <4> QED BY <4>1
    <3>2. IsFiniteSet(1 .. StoresTaken)
      BY <3>1, FS_Interval
    <3> DEFINE f == [k \in 1 .. StoresTaken |-> [op |-> StuOffer[k], entry |-> StqEntry(k)]]
    <3>3. f \in [1 .. StoresTaken -> SR] /\ \A r \in SR : \E k \in 1 .. StoresTaken : f[k] = r
      BY DEF SR, StoreReports
    <3> HIDE DEF f
    <3>4. f \in Surjection(1 .. StoresTaken, SR)
      BY <3>3, Fun_IsSurj
    <3> QED BY <3>2, <3>4, FS_Surjection
  <2>2. IsFiniteSet(flagged)
    <3>1. IsFiniteSet(1 .. 2)
      <4>1. 1 \in Int /\ 2 \in Int
        OBVIOUS
      <4> QED BY <4>1, FS_Interval
    <3>2. Flagged \in SUBSET (1 .. 2)
      BY DEF Flagged
    <3>3. IsFiniteSet(Flagged)
      BY <3>1, <3>2, FS_Subset
    <3> DEFINE f == [k \in Flagged |-> [op |-> LduOffer[k], data |-> Met(k).data]]
    <3>4. f \in [Flagged -> flagged] /\ \A r \in flagged : \E k \in Flagged : f[k] = r
      BY DEF flagged
    <3> HIDE DEF f
    <3>5. f \in Surjection(Flagged, flagged)
      BY <3>4, Fun_IsSurj
    <3> QED BY <3>3, <3>5, FS_Surjection
  <2>3. IsFiniteSet(acked)
    <3>1. acked \in SUBSET {one}
      BY <1>7
    <3> QED BY <3>1, FS_Singleton, FS_Subset
  <2> QED BY <1>4, <2>1, <2>2, <2>3, FS_Union
<1> HIDE DEF LR
<1>18. /\ IsFiniteSet(S) /\ Cardinality(S) = Cardinality(SR)
       /\ IsFiniteSet(T) /\ Cardinality(T) = Cardinality(LR)
  <2> DEFINE f == [r \in SR |-> r.op]
             e == [r \in LR |-> r.op]
  <2>1. f \in [SR -> S] /\ (\A q, r \in SR : f[q] = f[r] => q = r) /\ \A op \in S : \E r \in SR : f[r] = op
    BY <1>13
  <2>2. e \in [LR -> T] /\ (\A q, r \in LR : e[q] = e[r] => q = r) /\ \A op \in T : \E r \in LR : e[r] = op
    BY <1>16
  <2> HIDE DEF f, e, S, T
  <2> QED BY <1>17, <2>1, <2>2, SameSize
<1>19. Cardinality(S \cup T) = Cardinality(SR) + Cardinality(LR)
  <2> HIDE DEF S, T
  <2>1. Cardinality(S \cup T) = Cardinality(S) + Cardinality(T) - Cardinality(S \cap T)
    BY <1>18, FS_Union
  <2>2. Cardinality(S \cap T) = 0
    BY <1>12, FS_EmptySet
  <2>3. Cardinality(S) \in Nat /\ Cardinality(T) \in Nat
    BY <1>18, FS_CardinalityType
  <2> QED BY <1>18, <2>1, <2>2, <2>3
<1> QED BY <1>11, <1>19 DEF SR, LR

(* What the run checks of the reports, from what is kept.                  *)
LEMMA ReportsHold == ASSUME LsuInv PROVE OneReportEach
<1>1. Unreported = InBuffer \cup Asking /\ InBuffer \cap Asking = {} /\ Cardinality(InBuffer) = Len(lsu_buf)
  BY PlacesHold
<1>2. ~Cancelling =>
        LET reports == {r.op : r \in StoreReports} \cup {r.op : r \in LoadReports(FALSE)}
        IN  /\ reports \subseteq Unreported
            /\ Cardinality(reports) = Cardinality(StoreReports) + Cardinality(LoadReports(FALSE))
  BY ReportedOnce
<1> QED BY <1>1, <1>2, Zenon DEF OneReportEach

-----------------------------------------------------------------------------
(* The load queue by itself keeps its shape in every situation.            *)
LoadSide == BufOK /\ LoadInv /\ workload \in Workloads

LEMMA LoadSideInit == Init => LoadSide
<1> SUFFICES ASSUME Init PROVE LoadSide
  OBVIOUS
<1>1. LsuInv
  BY InitInv
<1> QED BY <1>1 DEF LsuInv, DataInv, LoadSide

LEMMA LoadSideNext == LoadSide /\ [Next]_vars => LoadSide'
<1> SUFFICES ASSUME LoadSide, [Next]_vars PROVE LoadSide'
  OBVIOUS
<1>1. BufOK /\ workload \in Workloads
  BY DEF LoadSide
<1>2. PICK g : LdqShape(g)
  BY DEF LoadSide, LoadInv
<1>3. CASE Next
  <2>1. PICK accs, n, edge : Legal(accs, n, edge) /\ Parts(Arriving(accs), n, edge, edge \/ Cancelling)
    BY <1>3, Steps
  <2>2. PICK cancel \in BOOLEAN : cancel <=> edge \/ Cancelling
    OBVIOUS
  <2>3. cancel = (edge \/ Cancelling)
    BY <2>2
  <2>4. PICK new : new = Arriving(accs)
    OBVIOUS
  <2>5. Parts(new, n, edge, cancel)
    BY <2>1, <2>3, <2>4
  <2>6. LoadInv'
    <3>1. /\ NextCredits(StoresTaken, LoadsTaken, ldq_rd_en, Drain, cancel, stq_commit_cnt)
          /\ NextLdqFlags(LoadsTaken, Request, branch_ack_vld(edge), cancel)
          /\ NextLdqPtr(LoadsTaken, edge, cancel)
      BY <2>5 DEF Parts
    <3>2. \E i \in 0 .. LDU_DEPTH : LdqShape(i)'
      BY <1>1, <1>2, <3>1, NextLdqShape
    <3> QED BY <3>2 DEF LoadInv
  <2>7. BufOK'
    <3>1. NextBuffer(new, StoresTaken, LoadsTaken, cancel)
      BY <2>5 DEF Parts
    <3>2. CASE cancel
      <4>1. lsu_buf' = <<>>
        BY <3>1, <3>2 DEF NextBuffer
      <4>2. IsSeq(<<>>) /\ Len(<<>>) = 0 /\ 1 .. 0 = {}
        BY DEF IsSeq
      <4>3. PICK q : q = lsu_buf'
        OBVIOUS
      <4>4. IsSeq(q) /\ \A k \in 1 .. Len(q) : q[k].ld \in BOOLEAN
        BY <4>1, <4>2, <4>3
      <4> QED BY <4>3, <4>4 DEF BufOK, IsSeq
    <3>3. CASE ~cancel
      <4>1. IsSeq(new) /\ Len(new) = Len(accs) /\ \A k \in 1 .. Len(accs) : new[k].ld \in BOOLEAN
        <5>1. accs \in Batches
          BY <2>1 DEF Legal
        <5> DEFINE m == Len(accs)
        <5>2. m \in Nat /\ \A k \in 1 .. m : accs[k] \in workload.accesses
          BY <5>1, BatchLen
        <5>3. \A k \in 1 .. m : accs[k].ld \in BOOLEAN
          BY <1>1, <5>2, LsuAssumption
        <5>4. new = [k \in 1 .. m |-> new[k]] /\ \A k \in 1 .. m : new[k].ld = accs[k].ld
          BY <2>4 DEF Arriving
        <5> HIDE DEF m
        <5>5. IsSeq(new) /\ Len(new) = m
          BY <5>2, <5>4, SeqIntro
        <5> QED BY <5>3, <5>4, <5>5 DEF m
      <4>2. NextBuffer(new, StoresTaken, LoadsTaken, FALSE)
        <5>1. cancel = FALSE
          BY <3>3
        <5> QED BY <3>1, <5>1, Zenon
      <4>3. NewBuf(new)
        BY <1>1, <4>1, <4>2, NextBufferIs
      <4> QED BY <1>1, <4>1, <4>3, NewBufOK
    <3> QED BY <3>2, <3>3
  <2>8. workload' \in Workloads
    BY <1>1, <2>5 DEF Parts
  <2> QED BY <2>6, <2>7, <2>8 DEF LoadSide
<1>4. CASE UNCHANGED vars
  <2> USE DEF vars, stq, ldq
  <2> QED BY <1>4 DEF LoadSide, BufOK, LoadInv, LdqShape, LOff
<1> QED BY <1>3, <1>4

-----------------------------------------------------------------------------
(* The credits missing from the load queue are the loads it holds, in      *)
(* every situation: toy_lsu_buffer.sv never offers a load without room.    *)
THEOREM LoadCredits == Spec => [](LDU_DEPTH - ldu_credit_cnt = Cardinality(HeldLoads))
<1>1. LoadSide => LDU_DEPTH - ldu_credit_cnt = Cardinality(HeldLoads)
  <2> SUFFICES ASSUME LoadSide PROVE LDU_DEPTH - ldu_credit_cnt = Cardinality(HeldLoads)
    OBVIOUS
  <2>1. PICK g : LdqShape(g)
    BY DEF LoadSide, LoadInv
  <2>2. Cardinality(HeldLoads) = g
    BY <2>1, LoadsHeld
  <2>3. ldu_credit_cnt = LDU_DEPTH - g /\ g \in 0 .. LDU_DEPTH
    BY <2>1 DEF LdqShape
  <2> QED BY <2>2, <2>3, Depths
<1> QED BY <1>1, LoadSideInit, LoadSideNext, PTL DEF Spec

(* As long as the three situations do not arise, the unit keeps its        *)
(* invariant,                                                              *)
THEOREM LsuInvariant == Spec /\ []Regular => []LsuInv
<1>1. LsuInv /\ Regular /\ Regular' /\ [Next]_vars => LsuInv'
  BY NextInv, StutterInv DEF Regular
<1> QED BY <1>1, InitInv, PTL DEF Spec

(* every register its type: no buffer or queue is overrun, no pointer      *)
(* leaves its queue, memory only answers for a load that is there;         *)
THEOREM LsuTypes == Spec /\ []Regular => []LsuTypeOK
<1>1. LsuInv /\ Regular => LsuTypeOK
  BY TypesHold DEF Regular
<1> QED BY <1>1, LsuInvariant, PTL

(* the credits of both queues count what they hold, through every cancel;  *)
THEOREM LsuCredits == Spec /\ []Regular => []CreditExact
BY CreditsHold, LsuInvariant, PTL

(* operations enter their queues in program order;                         *)
THEOREM LsuOrder == Spec /\ []Regular => []LsuInOrder
BY OrderHolds, LsuInvariant, PTL

(* and an operation is reported at most once, never while it is in two     *)
(* places or after a cancel took it away.                                  *)
THEOREM LsuReports == Spec /\ []Regular => []OneReportEach
<1>1. LsuInv => OneReportEach
  BY ReportsHold
<1> QED BY <1>1, LsuInvariant, PTL
=============================================================================

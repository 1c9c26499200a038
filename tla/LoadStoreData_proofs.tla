------------------------- MODULE LoadStoreData_proofs -------------------------
(***************************************************************************)
(* The contents of memory and the answers to loads in the load/store unit, *)
(* for every size of buffer and queues, and the programs for which the     *)
(* unit stays clear of the situations in which it goes wrong.              *)
(***************************************************************************)
EXTENDS LoadStoreUnit_proofs

-----------------------------------------------------------------------------
(* Memory after some operations, byte by byte.                             *)
Touches(op, b) == op.ld = FALSE /\ b \in BytesOf(op)

(* Of n operations none, or last the k-th, writes a byte.                  *)
None(ops, n, b) == \A k \in 1 .. n : ~Touches(ops[k], b)
Last(ops, n, b, k) ==
  k \in 1 .. n /\ Touches(ops[k], b) /\ \A j \in 1 .. n : j > k => ~Touches(ops[j], b)

ByteAfter(m, ops, n, b) ==
  \/ None(ops, n, b) /\ After(m, ops)[b] = m[b]
  \/ \E k \in 1 .. n : Last(ops, n, b, k) /\ After(m, ops)[b] = ops[k].data[b]

LEMMA AfterByte ==
  ASSUME NEW m, NEW ops, NEW n \in Nat, Len(ops) = n, NEW b \in Bytes
  PROVE  ByteAfter(m, ops, n, b)
<1> DEFINE S == StoresTo(ops, b)
<1>1. After(m, ops)[b] = IF S = {} THEN m[b] ELSE ops[Max(S)].data[b]
  BY DEF After
<1>2. S \in SUBSET (1 .. n) /\ \A k \in 1 .. n : k \in S <=> Touches(ops[k], b)
  BY DEF StoresTo, Of, Touches
<1> HIDE DEF S
<1>3. CASE S = {}
  BY <1>1, <1>2, <1>3 DEF None, ByteAfter
<1>4. CASE S # {}
  <2>1. Max(S) \in S /\ \A y \in S : Max(S) >= y
    BY <1>2, <1>4, Greatest
  <2>2. PICK k \in 1 .. n : k = Max(S)
    BY <1>2, <2>1
  <2>3. ASSUME NEW j \in 1 .. n, j > k PROVE ~Touches(ops[j], b)
    <3>1. j \notin S
      BY <2>1, <2>2, <2>3
    <3> QED BY <1>2, <3>1
  <2>4. Last(ops, n, b, k)
    BY <1>2, <2>1, <2>2, <2>3 DEF Last
  <2> QED BY <1>1, <1>4, <2>2, <2>4 DEF ByteAfter
<1> QED BY <1>3, <1>4

LEMMA AfterNone ==
  ASSUME NEW m, NEW ops, NEW n \in Nat, Len(ops) = n, NEW b \in Bytes, None(ops, n, b)
  PROVE  After(m, ops)[b] = m[b]
<1>1. ByteAfter(m, ops, n, b)
  BY AfterByte
<1>2. ASSUME NEW k \in 1 .. n, Last(ops, n, b, k) PROVE FALSE
  BY <1>2 DEF None, Last
<1> QED BY <1>1, <1>2, Zenon DEF ByteAfter

LEMMA AfterLast ==
  ASSUME NEW m, NEW ops, NEW n \in Nat, Len(ops) = n, NEW b \in Bytes, NEW k, Last(ops, n, b, k)
  PROVE  After(m, ops)[b] = ops[k].data[b]
<1>1. ~None(ops, n, b)
  BY DEF None, Last
<1>2. PICK j \in 1 .. n : Last(ops, n, b, j) /\ After(m, ops)[b] = ops[j].data[b]
  <2>1. ByteAfter(m, ops, n, b)
    BY AfterByte
  <2> QED BY <1>1, <2>1, Zenon DEF ByteAfter
<1>3. ~(j > k) /\ ~(k > j) /\ k \in 1 .. n
  BY <1>2 DEF Last
<1>4. j = k
  BY <1>2, <1>3
<1> QED BY <1>2, <1>4

-----------------------------------------------------------------------------
(* What a byte is after the retired operations: what the youngest retired  *)
(* store in the queue writes, or what memory holds.                        *)
Drains(i, b) == stq_commit[i] /\ Touches(stq_pld[i], b)
LastDrained(i, b) == Drains(i, b) /\ \A k \in Stq : Off(k) > Off(i) => ~Drains(k, b)
MemTrue(b) ==
  \/ (\A i \in Stq : ~Drains(i, b)) /\ arch[b] = mem[b]
  \/ \E i \in Stq : LastDrained(i, b) /\ arch[b] = stq_pld[i].data[b]
MemInv == \A b \in Bytes : MemTrue(b)
RobOps == [k \in 1 .. Len(rob) |-> rob[k].op]

LEMMA OpKind ==
  ASSUME workload \in Workloads, NEW op, IsOp(op)
  PROVE  op.ld \in BOOLEAN
<1> DEFINE a == [ld |-> op.ld, addr |-> op.addr, strb |-> op.strb]
<1>1. a \in workload.accesses
  BY DEF IsOp
<1>2. a.ld = op.ld
  OBVIOUS
<1> HIDE DEF a
<1>3. a.ld \in BOOLEAN
  BY <1>1, LsuAssumption
<1> QED BY <1>2, <1>3

LEMMA ArchIs ==
  ASSUME RobShape, NEW n \in Nat, LegalRetire(n), NEW new, NEW edge, NEW cancel,
         NextRob(new, n, edge, cancel), NEW b \in Bytes
  PROVE  \/ None(RobOps, n, b) /\ arch'[b] = arch[b]
         \/ \E k \in 1 .. n : Last(RobOps, n, b, k) /\ arch'[b] = rob[k].op.data[b]
<1> DEFINE ops == OpsOf(SubSeq(rob, 1, n))
<1>1. Len(ops) = n /\ \A k \in 1 .. n : ops[k] = rob[k].op
  <2>1. IsSeq(rob)
    BY DEF RobShape
  <2> QED BY <2>1, RetiredOps
<1>2. arch' = After(arch, ops)
  BY DEF NextRob
<1>3. \A k \in 1 .. n : k \in 1 .. Len(rob)
  <2>1. n <= Len(rob) /\ Len(rob) \in Nat
    BY SeqType DEF LegalRetire, RobShape
  <2> QED BY <2>1
<1> HIDE DEF ops
<1>4. \A k \in 1 .. n : ops[k] = RobOps[k] /\ RobOps[k] = rob[k].op
  BY <1>1, <1>3 DEF RobOps
<1>5. ByteAfter(arch, ops, n, b)
  BY <1>1, AfterByte
<1>6. CASE None(ops, n, b) /\ After(arch, ops)[b] = arch[b]
  <2>1. None(RobOps, n, b)
    BY <1>4, <1>6, Zenon DEF None
  <2> QED BY <1>2, <1>6, <2>1
<1>7. CASE \E k \in 1 .. n : Last(ops, n, b, k) /\ After(arch, ops)[b] = ops[k].data[b]
  <2>1. PICK k \in 1 .. n : Last(ops, n, b, k) /\ After(arch, ops)[b] = ops[k].data[b]
    BY <1>7
  <2>2. Last(RobOps, n, b, k)
    BY <1>4, <2>1, Zenon DEF Last
  <2>3. ops[k] = rob[k].op
    BY <1>1
  <2> QED BY <1>2, <2>1, <2>2, <2>3
<1> QED BY <1>5, <1>6, <1>7, Zenon DEF ByteAfter

LEMMA MemIs ==
  ASSUME NEW request, NEW drain, NEW edge, NextMemory(request, drain, edge),
         mem \in [Bytes -> Value], NEW b \in Bytes
  PROVE  mem'[b] = IF drain /\ Touches(stq_pld[stq_rd_ptr], b) THEN stq_pld[stq_rd_ptr].data[b]
                   ELSE mem[b]
<1> DEFINE op == stq_pld[stq_rd_ptr]
           ops == <<op>>
<1>1. mem' = IF drain THEN After(mem, ops) ELSE mem
  BY DEF NextMemory
<1> HIDE DEF op
<1>2. Len(ops) = 1 /\ ops[1] = op
  OBVIOUS
<1> HIDE DEF ops
<1>3. CASE drain /\ Touches(op, b)
  <2>1. Last(ops, 1, b, 1)
    BY <1>2, <1>3 DEF Last
  <2>2. After(mem, ops)[b] = ops[1].data[b]
    <3>1. PICK n \in Nat : n = 1
      OBVIOUS
    <3>2. Len(ops) = n /\ Last(ops, n, b, 1)
      BY <1>2, <2>1, <3>1
    <3> QED BY <3>2, AfterLast
  <2> QED BY <1>1, <1>2, <1>3, <2>2 DEF op
<1>4. CASE drain /\ ~Touches(op, b)
  <2>1. None(ops, 1, b)
    BY <1>2, <1>4 DEF None
  <2>2. After(mem, ops)[b] = mem[b]
    BY <1>2, <2>1, AfterNone
  <2> QED BY <1>1, <1>4, <2>2 DEF op
<1>5. CASE ~drain
  BY <1>1, <1>5
<1> QED BY <1>3, <1>4, <1>5 DEF op


(* The retired stores of the queue in a cycle in which n operations retire,*)
(* r of them stores.                                                       *)
Retired(i, c, r) == Off(i) \in c .. c + r - 1
MemFacts(n, c, r, out) ==
  /\ n \in Nat /\ c \in Nat /\ r \in Nat /\ out \in 0 .. 1 /\ out <= c
  /\ out = IF Drain THEN 1 ELSE 0
  /\ stq_rd_ptr \in Stq
  /\ \A i \in Stq : /\ Off(i) \in Nat /\ (Off(i) = 0 => i = stq_rd_ptr)
                    /\ stq_commit[i] <=> Off(i) < c
                    /\ stq_commit'[i] <=> Off(i) \in out .. c + r - 1
                    /\ stq_commit'[i] => stq_pld'[i] = stq_pld[i]
  /\ \A i, k \in Stq : stq_commit'[i] /\ stq_commit'[k] /\ Off(k)' > Off(i)' => Off(k) > Off(i)
  /\ \A j \in 1 .. n : rob[j].op.ld = FALSE =>
       rob[j].entry \in Stq /\ Retired(rob[j].entry, c, r) /\ stq_pld[rob[j].entry] = rob[j].op
  /\ \A j, k \in 1 .. n :
       rob[j].op.ld = FALSE /\ rob[k].op.ld = FALSE /\ Off(rob[k].entry) > Off(rob[j].entry) => k > j
  /\ \A i \in Stq : Retired(i, c, r) => \E j \in 1 .. n : rob[j].op.ld = FALSE /\ rob[j].entry = i

LEMMA OffIs ==
  ASSUME NEW c, NEW h, StqShape(c, h)
  PROVE  /\ c \in Nat /\ h \in Nat /\ c <= h /\ h <= STU_DEPTH
         /\ \A i \in Stq : Off(i) \in 0 .. STU_DEPTH - 1 /\ Off(i) \in Nat /\ (Off(i) = 0 => i = stq_rd_ptr)
         /\ \A i, k \in Stq : Off(i) = Off(k) => i = k
<1>1. /\ STU_DEPTH \in Nat /\ stq_rd_ptr \in 0 .. STU_DEPTH - 1
      /\ c \in 0 .. h /\ h \in 0 .. STU_DEPTH
  BY Depths DEF StqShape, Stq
<1>2. c \in Nat /\ h \in Nat /\ c <= h /\ h <= STU_DEPTH
  BY <1>1
<1>3. ASSUME NEW i \in 0 .. STU_DEPTH - 1
      PROVE  Off(i) \in 0 .. STU_DEPTH - 1 /\ Off(i) \in Nat /\ (Off(i) = 0 => i = stq_rd_ptr)
  BY <1>1 DEF Off, Place
<1>4. ASSUME NEW i \in 0 .. STU_DEPTH - 1, NEW k \in 0 .. STU_DEPTH - 1, Off(i) = Off(k) PROVE i = k
  BY <1>1, <1>4 DEF Off, Place
<1> QED BY <1>2, <1>3, <1>4 DEF Stq

LEMMA MemFactsHold ==
  ASSUME BufOK, RobShape, LdqFlags, NEW g, LdqShape(g),
         NEW c, NEW h, StqShape(c, h), RobStores(c, h),
         NEW accs, NEW n, NEW edge, Legal(accs, n, edge), NEW new,
         NEW cancel \in BOOLEAN, cancel <=> edge \/ Cancelling,
         Parts(new, n, edge, cancel), Cancelling' <=> edge, RetiredFit'
  PROVE  \E r, out : MemFacts(n, c, r, out)
<1>1. PICK r, out, c2, h2 : StoresNext(c, h, n, cancel, r, out, c2, h2) /\ StqShape(c2, h2)'
  BY NextStores
<1>2. /\ r \in 0 .. h - c /\ RetiredFacts(n, c, r) /\ CommitFacts(c, r, out)
      /\ out = IF Drain THEN 1 ELSE 0
  BY <1>1 DEF StoresNext
<1>3. /\ c \in Nat /\ h \in Nat /\ c <= h /\ h <= STU_DEPTH /\ STU_DEPTH \in Nat
      /\ \A i \in Stq : Off(i) \in 0 .. STU_DEPTH - 1 /\ Off(i) \in Nat /\ (Off(i) = 0 => i = stq_rd_ptr)
      /\ \A i, k \in Stq : Off(i) = Off(k) => i = k
  BY OffIs, Depths
<1>4. n \in Nat /\ LegalRetire(n) /\ r \in Nat /\ out \in 0 .. 1 /\ out <= c /\ c + r <= h
      /\ c + r - out \in 0 .. STU_DEPTH - 1
  <2>1. n \in Nat /\ LegalRetire(n)
    BY DEF Legal
  <2>2. r \in Nat /\ out \in 0 .. 1 /\ out <= c /\ c + r - out \in 0 .. STU_DEPTH - 1
    BY <1>2 DEF CommitFacts
  <2>3. c + r <= h
    BY <1>2, <1>3
  <2> QED BY <2>1, <2>2, <2>3
<1>5. stq_rd_ptr \in Stq
  BY DEF StqShape
<1>6. ASSUME NEW i \in Stq
      PROVE  /\ stq_commit[i] <=> Off(i) < c
             /\ stq_commit'[i] <=> Off(i) \in out .. c + r - 1
             /\ Off(i)' = IF Off(i) < out THEN STU_DEPTH - 1 ELSE Off(i) - out
  <2>1. /\ stq_commit[i] <=> Off(i) < c
        /\ stq_commit'[i] <=> Off(i)' < c + r - out
        /\ Off(i)' = IF Off(i) < out THEN STU_DEPTH - 1 ELSE Off(i) - out
    BY <1>2 DEF StqShape, CommitFacts
  <2>2. PICK o : o = Off(i)
    OBVIOUS
  <2>3. PICK o2 : o2 = Off(i)'
    OBVIOUS
  <2>4. o \in 0 .. STU_DEPTH - 1 /\ o2 = IF o < out THEN STU_DEPTH - 1 ELSE o - out
    BY <1>3, <2>1, <2>2, <2>3
  <2>5. o2 < c + r - out <=> o \in out .. c + r - 1
    BY <1>3, <1>4, <2>4
  <2> QED BY <2>1, <2>2, <2>3, <2>5
<1>7. ASSUME NEW i \in Stq, stq_commit'[i] PROVE stq_pld'[i] = stq_pld[i]
  <2>1. NextStqPld(StoresTaken)
    BY DEF Parts
  <2>2. CASE Cancelling
    <3>1. StoresTaken = 0
      BY <2>2, Quiet
    <3> QED BY <1>7, <2>1, <3>1 DEF NextStqPld
  <2>3. CASE ~Cancelling
    <3>1. Off(i) < h
      BY <1>3, <1>4, <1>6, <1>7
    <3> QED BY <1>7, <2>1, <2>3, <3>1, StqPldIs
  <2> QED BY <2>2, <2>3
<1>8. ASSUME NEW i \in Stq, NEW k \in Stq, stq_commit'[i], stq_commit'[k], Off(k)' > Off(i)'
      PROVE  Off(k) > Off(i)
  <2>1. PICK oi, ok : oi = Off(i) /\ ok = Off(k)
    OBVIOUS
  <2>2. oi \in out .. c + r - 1 /\ ok \in out .. c + r - 1
    BY <1>6, <1>8, <2>1
  <2>3. Off(i)' = oi - out /\ Off(k)' = ok - out
    BY <1>4, <1>6, <2>1, <2>2
  <2>4. ok - out > oi - out
    BY <1>8, <2>3
  <2> QED BY <1>3, <1>4, <2>1, <2>2, <2>4
<1>9. \A j \in 1 .. n : rob[j].op.ld = FALSE => j \in DoneStores
  <2>1. n <= Len(rob) /\ Len(rob) \in Nat /\ \A j \in 1 .. n : rob[j].done
    BY <1>4, SeqType DEF LegalRetire, RobShape
  <2> QED BY <1>4, <2>1 DEF DoneStores
<1>10. /\ \A j \in DoneStores : /\ j \in Nat /\ rob[j].op.ld = FALSE
                               /\ rob[j].entry \in Stq /\ Off(rob[j].entry) \in c .. h - 1
                               /\ stq_pld[rob[j].entry] = rob[j].op
       /\ \A j, k \in DoneStores : j < k => Off(rob[j].entry) < Off(rob[k].entry)
       /\ \A o \in c .. h - 1 : \E j \in DoneStores : Off(rob[j].entry) = o
  <2>1. \A j \in DoneStores : j \in 1 .. Len(rob) /\ j \in Nat /\ rob[j].op.ld = FALSE
    BY DEF DoneStores, RobShape
  <2> QED BY <2>1 DEF RobStores
<1>11. \A j \in DoneStores : j <= n <=> Off(rob[j].entry) < c + r
  BY <1>2 DEF RetiredFacts
<1>12. ASSUME NEW j \in 1 .. n, rob[j].op.ld = FALSE
       PROVE  rob[j].entry \in Stq /\ Retired(rob[j].entry, c, r) /\ stq_pld[rob[j].entry] = rob[j].op
  <2>1. j \in DoneStores /\ Off(rob[j].entry) < c + r
    BY <1>4, <1>9, <1>11, <1>12
  <2>2. Off(rob[j].entry) \in c .. h - 1
    BY <1>10, <2>1
  <2>3. Off(rob[j].entry) \in c .. c + r - 1
    BY <1>3, <1>4, <2>1, <2>2
  <2> QED BY <1>10, <2>1, <2>3 DEF Retired
<1>13. ASSUME NEW j \in 1 .. n, NEW k \in 1 .. n, rob[j].op.ld = FALSE, rob[k].op.ld = FALSE,
              Off(rob[k].entry) > Off(rob[j].entry)
       PROVE  k > j
  <2>1. j \in DoneStores /\ k \in DoneStores
    BY <1>9, <1>13
  <2>2. Off(rob[j].entry) \in Nat /\ Off(rob[k].entry) \in Nat
    BY <1>3, <1>10, <2>1
  <2>3. ~(k < j) /\ k # j
    BY <1>10, <1>13, <2>1, <2>2
  <2> QED BY <1>4, <2>3
<1>14. ASSUME NEW i \in Stq, Retired(i, c, r)
       PROVE  \E j \in 1 .. n : rob[j].op.ld = FALSE /\ rob[j].entry = i
  <2>1. Off(i) \in c .. c + r - 1 /\ Off(i) \in c .. h - 1
    <3>1. Off(i) \in c .. c + r - 1
      BY <1>14 DEF Retired
    <3> QED BY <1>3, <1>4, <3>1
  <2>2. PICK j \in DoneStores : Off(rob[j].entry) = Off(i)
    BY <1>10, <2>1
  <2>3. rob[j].entry = i
    BY <1>3, <1>10, <2>2
  <2>4. j <= n
    <3>1. Off(i) < c + r
      BY <1>3, <1>4, <2>1
    <3> QED BY <1>11, <2>2, <3>1
  <2>5. j \in 1 .. n
    <3>1. j \in 1 .. Len(rob)
      BY DEF DoneStores
    <3> QED BY <1>4, <2>4, <3>1
  <2> QED BY <1>10, <2>3, <2>5
<1>15. MemFacts(n, c, r, out)
  BY <1>2, <1>3, <1>4, <1>5, <1>6, <1>7, <1>8, <1>12, <1>13, <1>14 DEF MemFacts
<1> QED BY <1>15


LEMMA NextMemTrue ==
  ASSUME RobShape, StqTyped, mem \in [Bytes -> Value],
         NEW n, NEW c, NEW r, NEW out, MemFacts(n, c, r, out), LegalRetire(n),
         NEW new, NEW edge, NEW cancel, NextRob(new, n, edge, cancel), NextMemory(Request, Drain, edge),
         NEW b \in Bytes, MemTrue(b)
  PROVE  MemTrue(b)'
<1> DEFINE drains(i) == stq_commit'[i] /\ Touches(stq_pld'[i], b)
           later(k, i) == Off(k)' > Off(i)'
<1>1. /\ n \in Nat /\ c \in Nat /\ r \in Nat /\ out \in 0 .. 1 /\ out <= c
      /\ out = IF Drain THEN 1 ELSE 0
      /\ stq_rd_ptr \in Stq
      /\ \A i \in Stq : /\ Off(i) \in Nat /\ (Off(i) = 0 => i = stq_rd_ptr)
                        /\ stq_commit[i] <=> Off(i) < c
                        /\ stq_commit'[i] <=> Off(i) \in out .. c + r - 1
                        /\ stq_commit'[i] => stq_pld'[i] = stq_pld[i]
      /\ \A i, k \in Stq : stq_commit'[i] /\ stq_commit'[k] /\ later(k, i) => Off(k) > Off(i)
      /\ \A j \in 1 .. n : rob[j].op.ld = FALSE =>
           rob[j].entry \in Stq /\ Retired(rob[j].entry, c, r) /\ stq_pld[rob[j].entry] = rob[j].op
      /\ \A j, k \in 1 .. n :
           rob[j].op.ld = FALSE /\ rob[k].op.ld = FALSE /\ Off(rob[k].entry) > Off(rob[j].entry) => k > j
      /\ \A i \in Stq : Retired(i, c, r) => \E j \in 1 .. n : rob[j].op.ld = FALSE /\ rob[j].entry = i
  BY DEF MemFacts
<1>2. SUFFICES \/ (\A i \in Stq : ~drains(i)) /\ arch'[b] = mem'[b]
               \/ \E i \in Stq : /\ drains(i) /\ (\A k \in Stq : later(k, i) => ~drains(k))
                                 /\ arch'[b] = stq_pld'[i].data[b]
  BY DEF MemTrue, LastDrained, Drains
<1>3. \/ None(RobOps, n, b) /\ arch'[b] = arch[b]
      \/ \E k \in 1 .. n : Last(RobOps, n, b, k) /\ arch'[b] = rob[k].op.data[b]
  BY <1>1, ArchIs
<1>4. mem'[b] = IF Drain /\ Touches(stq_pld[stq_rd_ptr], b) THEN stq_pld[stq_rd_ptr].data[b] ELSE mem[b]
  BY MemIs
<1>5. \A j \in 1 .. n : RobOps[j] = rob[j].op
  <2>1. n <= Len(rob) /\ Len(rob) \in Nat
    BY SeqType DEF LegalRetire, RobShape
  <2>2. \A j \in 1 .. n : j \in 1 .. Len(rob)
    BY <1>1, <2>1
  <2> QED BY <2>2 DEF RobOps
(* What remains of the old entries, and what is new.                       *)
<1>6. ASSUME NEW i \in Stq, drains(i)
      PROVE  \/ Off(i) < c /\ Drains(i, b) /\ Off(i) >= out
             \/ \E j \in 1 .. n : rob[j].entry = i /\ Touches(rob[j].op, b)
  <2>1. Off(i) \in out .. c + r - 1 /\ Touches(stq_pld[i], b)
    BY <1>1, <1>6
  <2>2. CASE Off(i) < c
    BY <1>1, <2>1, <2>2 DEF Drains
  <2>3. CASE ~(Off(i) < c)
    <3>1. Retired(i, c, r)
      BY <1>1, <2>1, <2>3 DEF Retired
    <3>2. PICK j \in 1 .. n : rob[j].op.ld = FALSE /\ rob[j].entry = i
      BY <1>1, <3>1
    <3>3. Touches(rob[j].op, b)
      BY <1>1, <2>1, <3>2
    <3> QED BY <3>2, <3>3
  <2> QED BY <2>2, <2>3
<1> HIDE DEF later
<1>7. CASE \E k \in 1 .. n : Last(RobOps, n, b, k) /\ arch'[b] = rob[k].op.data[b]
  <2>1. PICK k \in 1 .. n : Last(RobOps, n, b, k) /\ arch'[b] = rob[k].op.data[b]
    BY <1>7
  <2>2. Touches(rob[k].op, b) /\ \A j \in 1 .. n : j > k => ~Touches(rob[j].op, b)
    BY <1>5, <2>1 DEF Last
  <2>3. PICK i : i = rob[k].entry
    OBVIOUS
  <2>4. i \in Stq /\ Retired(i, c, r) /\ stq_pld[i] = rob[k].op /\ rob[k].op.ld = FALSE
    BY <1>1, <2>2, <2>3 DEF Touches
  <2>5. Off(i) \in c .. c + r - 1 /\ Off(i) \in out .. c + r - 1
    BY <1>1, <2>4 DEF Retired
  <2>6. drains(i) /\ stq_pld'[i] = rob[k].op
    BY <1>1, <2>2, <2>4, <2>5
  <2>7. ASSUME NEW m \in Stq, later(m, i), drains(m) PROVE FALSE
    <3>1. Off(m) > Off(i)
      BY <1>1, <2>4, <2>6, <2>7
    <3>2. ~(Off(m) < c)
      BY <1>1, <2>4, <2>5, <3>1
    <3>3. PICK j \in 1 .. n : rob[j].entry = m /\ Touches(rob[j].op, b)
      BY <1>6, <2>7, <3>2
    <3>4. j > k
      BY <1>1, <2>3, <2>4, <3>1, <3>3 DEF Touches
    <3> QED BY <2>2, <3>3, <3>4
  <2> HIDE DEF drains
  <2> QED BY <2>1, <2>4, <2>6, <2>7
<1>8. CASE None(RobOps, n, b) /\ arch'[b] = arch[b]
  <2>1. \A j \in 1 .. n : ~Touches(rob[j].op, b)
    BY <1>5, <1>8 DEF None
  <2>2. ASSUME NEW i \in Stq, drains(i) PROVE Off(i) < c /\ Drains(i, b) /\ Off(i) >= out
    BY <1>6, <2>1, <2>2
  <2>3. CASE (\A i \in Stq : ~Drains(i, b)) /\ arch[b] = mem[b]
    <3>1. Drain => stq_commit[stq_rd_ptr]
      BY DEF Drain, s_mem_req_vld
    <3>2. mem'[b] = mem[b]
      BY <1>1, <1>4, <2>3, <3>1 DEF Drains
    <3> HIDE DEF drains
    <3> QED BY <1>8, <2>2, <2>3, <3>2
  <2>4. CASE \E i \in Stq : LastDrained(i, b) /\ arch[b] = stq_pld[i].data[b]
    <3>1. PICK i \in Stq : /\ Drains(i, b) /\ (\A k \in Stq : Off(k) > Off(i) => ~Drains(k, b))
                           /\ arch[b] = stq_pld[i].data[b]
      BY <2>4 DEF LastDrained
    <3>2. Off(i) < c /\ Touches(stq_pld[i], b) /\ Off(i) \in Nat
      BY <1>1, <3>1 DEF Drains
    <3>3. CASE Off(i) >= out
      <4>1. drains(i) /\ stq_pld'[i] = stq_pld[i]
        <5>1. Off(i) \in out .. c + r - 1
          BY <1>1, <3>2, <3>3
        <5> QED BY <1>1, <3>2, <5>1
      <4>2. ASSUME NEW m \in Stq, later(m, i), drains(m) PROVE FALSE
        <5>1. Off(m) > Off(i)
          BY <1>1, <4>1, <4>2
        <5>2. Drains(m, b)
          BY <2>2, <4>2
        <5> QED BY <3>1, <5>1, <5>2
      <4> HIDE DEF drains
      <4> QED BY <1>8, <3>1, <4>1, <4>2
    <3>4. CASE Off(i) < out
      <4>1. Drain /\ out = 1 /\ Off(i) = 0 /\ i = stq_rd_ptr
        BY <1>1, <3>2, <3>4
      <4>2. mem'[b] = arch'[b]
        BY <1>4, <1>8, <3>1, <3>2, <4>1
      <4>3. ASSUME NEW m \in Stq, drains(m) PROVE FALSE
        <5>1. Drains(m, b) /\ Off(m) >= out
          BY <2>2, <4>3
        <5>2. Off(m) > Off(i)
          BY <1>1, <4>1, <5>1
        <5> QED BY <3>1, <5>1, <5>2
      <4> HIDE DEF drains
      <4> QED BY <4>2, <4>3
    <3> QED BY <1>1, <3>2, <3>3, <3>4
  <2> QED BY <2>3, <2>4 DEF MemTrue
<1> QED BY <1>3, <1>7, <1>8


LEMMA InitMem == Init => MemInv
<1> SUFFICES ASSUME Init PROVE MemInv
  OBVIOUS
<1>1. \A i \in Stq : ~stq_commit[i]
  BY DEF Init, StqInit
<1>2. arch = mem
  BY DEF Init
<1> QED BY <1>1, <1>2 DEF MemInv, MemTrue, Drains

LEMMA NextMem == LsuInv /\ MemInv /\ RetiredFit' /\ Next => MemInv'
<1> SUFFICES ASSUME LsuInv, MemInv, RetiredFit', Next, NEW b \in Bytes PROVE MemTrue(b)'
  BY DEF MemInv
<1>1. BufOK /\ RobShape /\ LdqFlags /\ StqTyped /\ mem \in [Bytes -> Value] /\ refill \in 0 .. REFILL
  BY DEF LsuInv, DataInv
<1>2. PICK g : LdqShape(g)
  BY DEF LsuInv, LoadInv
<1>3. PICK c, h : StqShape(c, h) /\ RobStores(c, h)
  BY DEF LsuInv, StoreInv
<1>4. PICK accs, n, edge : Legal(accs, n, edge) /\ Parts(Arriving(accs), n, edge, edge \/ Cancelling)
  BY Steps
<1>5. PICK new : new = Arriving(accs)
  OBVIOUS
<1>6. PICK cancel \in BOOLEAN : cancel <=> edge \/ Cancelling
  OBVIOUS
<1>7. Parts(new, n, edge, cancel)
  <2>1. cancel = (edge \/ Cancelling)
    BY <1>4, <1>6 DEF Legal
  <2> QED BY <1>4, <1>5, <2>1
<1>8. edge \in BOOLEAN /\ LegalRetire(n) /\ (edge => ~Cancelling)
  BY <1>4 DEF Legal
<1>9. Cancelling' <=> edge
  <2>1. refill' = IF edge THEN REFILL ELSE IF refill > 0 THEN refill - 1 ELSE 0
    BY <1>7 DEF Parts
  <2>2. REFILL \in Nat \ {0}
    BY LsuAssumption
  <2> QED BY <1>1, <1>8, <2>1, <2>2 DEF Cancelling
<1>10. PICK r, out : MemFacts(n, c, r, out)
  BY <1>1, <1>2, <1>3, <1>4, <1>6, <1>7, <1>9, MemFactsHold
<1>11. NextRob(new, n, edge, cancel) /\ NextMemory(Request, Drain, edge)
  BY <1>7 DEF Parts
<1>12. MemTrue(b)
  BY DEF MemInv
<1> QED BY <1>1, <1>8, <1>10, <1>11, <1>12, NextMemTrue

LEMMA StutterMem == MemInv /\ UNCHANGED vars => MemInv'
BY DEF vars, stq, MemInv, MemTrue, LastDrained, Drains, Off, Place


-----------------------------------------------------------------------------
(* What the run checks of memory, from what is kept.                       *)
LEMMA MemoryHolds ==
  ASSUME NEW c, NEW h, StqShape(c, h), StqTyped, workload \in Workloads, MemInv,
         arch \in [Bytes -> Value], mem \in [Bytes -> Value]
  PROVE  StoresReachMemory
<1> DEFINE d == STU_DEPTH
           rd == stq_rd_ptr
           at(o) == (rd + o) % d
<1>1. d \in Nat /\ d > 2 /\ rd \in 0 .. d - 1 /\ c \in 0 .. d /\ Committed = c /\ Stq = 0 .. d - 1
  <2>1. rd \in 0 .. d - 1 /\ c \in 0 .. h /\ h \in 0 .. d
    BY DEF StqShape, Stq
  <2>2. d \in Nat /\ d > 2 /\ c \in 0 .. d
    BY <2>1, Depths
  <2> QED BY <2>1, <2>2, StoresHeld DEF Stq
<1>2. \A o \in 0 .. d : at(o) = Wrap(rd + o, d)
  <2> HIDE DEF d, rd
  <2>1. ASSUME NEW o \in 0 .. d PROVE (rd + o) % d = Wrap(rd + o, d)
    <3>1. d \in Nat \ {0} /\ rd + o \in 0 .. 2 * d - 1
      BY <1>1
    <3> QED BY <3>1, WrapIsMod
  <2> QED BY <2>1
<1>3. ASSUME NEW o \in 0 .. d - 1 PROVE at(o) \in Stq /\ Off(at(o)) = o
  <2>1. at(o) = Wrap(rd + o, d)
    BY <1>1, <1>2
  <2>2. PICK w : w = at(o)
    OBVIOUS
  <2> HIDE DEF at, d, rd
  <2>3. w \in 0 .. d - 1 /\ Place(w, rd, d) = o
    BY <1>1, <2>1, <2>2 DEF Wrap, Place
  <2> QED BY <1>1, <2>2, <2>3 DEF Off, d, rd
<1>4. ASSUME NEW i \in Stq PROVE Off(i) \in 0 .. d - 1 /\ at(Off(i)) = i
  <2>1. Off(i) \in 0 .. d - 1
    BY OffIs
  <2>2. at(Off(i)) \in Stq /\ Off(at(Off(i))) = Off(i)
    BY <1>3, <2>1
  <2> QED BY <2>1, <2>2, OffIs
<1>5. \A i \in Stq : stq_commit[i] <=> Off(i) < c
  BY DEF StqShape
<1>6. \A k \in 0 .. Committed - 1 : stq_commit[at(k)]
  <2> TAKE k \in 0 .. Committed - 1
  <2>1. k \in 0 .. d - 1 /\ k < c
    BY <1>1
  <2> HIDE DEF at, d
  <2> QED BY <1>3, <1>5, <2>1
<1>7. wr_ptr_commit = at(Committed)
  BY <1>1, <1>2 DEF StqShape
<1> DEFINE ops == CommittedStores
<1>8. Len(ops) = c /\ \A k \in 1 .. c : ops[k] = stq_pld[at(k - 1)] /\ ops[k].ld = FALSE
                                     /\ stq_commit[at(k - 1)] /\ at(k - 1) \in Stq /\ Off(at(k - 1)) = k - 1
  <2>1. ops = [k \in 1 .. c |-> stq_pld[(rd + k - 1) % d]]
    BY <1>1 DEF CommittedStores
  <2> HIDE DEF ops
  <2>2. Len(ops) = c
    <3>1. ops = [k \in 1 .. c |-> ops[k]] /\ c \in Nat
      BY <1>1, <2>1
    <3> QED BY <3>1, SeqIntro
  <2>3. ASSUME NEW k \in 1 .. c
        PROVE  /\ ops[k] = stq_pld[at(k - 1)] /\ ops[k].ld = FALSE
               /\ stq_commit[at(k - 1)] /\ at(k - 1) \in Stq /\ Off(at(k - 1)) = k - 1
    <3>1. k - 1 \in 0 .. d - 1 /\ k - 1 < c /\ rd + k - 1 = rd + (k - 1)
      <4> HIDE DEF d, rd
      <4> QED BY <1>1
    <3>2. ops[k] = stq_pld[at(k - 1)]
      BY <2>1, <3>1
    <3>3. at(k - 1) \in Stq /\ Off(at(k - 1)) = k - 1
      BY <1>3, <3>1
    <3> HIDE DEF at
    <3>4. stq_commit[at(k - 1)]
      BY <1>5, <3>1, <3>3
    <3>5. ~stq_pld[at(k - 1)].ld /\ IsOp(stq_pld[at(k - 1)])
      BY <3>3, <3>4 DEF StqTyped, HeldStores
    <3>6. stq_pld[at(k - 1)].ld = FALSE
      <4>1. stq_pld[at(k - 1)].ld \in BOOLEAN
        BY <3>5, OpKind
      <4> QED BY <3>5, <4>1
    <3> QED BY <3>2, <3>3, <3>4, <3>6
  <2> QED BY <2>2, <2>3
<1> HIDE DEF ops, at
<1>9. ASSUME NEW b \in Bytes PROVE After(mem, ops)[b] = arch[b]
  <2>1. CASE (\A i \in Stq : ~Drains(i, b)) /\ arch[b] = mem[b]
    <3>1. None(ops, c, b)
      <4>1. \A k \in 1 .. c : ~Touches(ops[k], b)
        BY <1>8, <2>1 DEF Drains
      <4> QED BY <4>1 DEF None
    <3>2. c \in Nat
      BY <1>1
    <3>3. After(mem, ops)[b] = mem[b]
      BY <1>8, <3>1, <3>2, AfterNone
    <3> QED BY <2>1, <3>3
  <2>2. CASE \E i \in Stq : LastDrained(i, b) /\ arch[b] = stq_pld[i].data[b]
    <3>1. PICK i \in Stq : /\ Drains(i, b) /\ (\A k \in Stq : Off(k) > Off(i) => ~Drains(k, b))
                           /\ arch[b] = stq_pld[i].data[b]
      BY <2>2 DEF LastDrained
    <3>2. PICK k \in Nat : k = Off(i) + 1
      BY <1>4
    <3>3. k \in 1 .. c /\ at(k - 1) = i
      <4>1. Off(i) < c /\ Off(i) \in 0 .. d - 1
        BY <1>4, <1>5, <3>1 DEF Drains
      <4>2. k - 1 = Off(i) /\ k \in 1 .. c
        BY <1>1, <3>2, <4>1
      <4> QED BY <1>4, <4>2
    <3>4. ops[k] = stq_pld[i] /\ Touches(ops[k], b)
      BY <1>8, <3>1, <3>3 DEF Drains
    <3>5. ASSUME NEW j \in 1 .. c, j > k PROVE ~Touches(ops[j], b)
      <4>1. PICK m : m = at(j - 1)
        OBVIOUS
      <4>2. m \in Stq /\ Off(m) = j - 1 /\ stq_commit[m] /\ ops[j] = stq_pld[m]
        BY <1>8, <4>1
      <4>3. Off(m) > Off(i)
        BY <1>1, <1>4, <3>2, <3>5, <4>2
      <4> QED BY <3>1, <4>2, <4>3 DEF Drains
    <3>6. Last(ops, c, b, k) /\ c \in Nat
      BY <1>1, <3>3, <3>4, <3>5 DEF Last
    <3>7. After(mem, ops)[b] = ops[k].data[b]
      BY <1>8, <3>6, AfterLast
    <3> QED BY <3>1, <3>4, <3>7
  <2>3. MemTrue(b)
    BY DEF MemInv
  <2> QED BY <2>1, <2>2, <2>3 DEF MemTrue
<1>10. After(mem, ops) = arch
  <2>1. After(mem, ops) = [b \in Bytes |-> After(mem, ops)[b]]
    BY DEF After
  <2>2. arch = [b \in Bytes |-> arch[b]]
    OBVIOUS
  <2> QED BY <1>9, <2>1, <2>2, Zenon
<1> QED BY <1>6, <1>7, <1>10 DEF StoresReachMemory, ops, at

(* As long as the three situations do not arise, the retired stores lie    *)
(* where the pointers say and writing them in their order leaves memory    *)
(* as the retired operations of the program leave it: no store is lost,    *)
(* written twice or out of order, through every cancel.                    *)
THEOREM LsuStores == Spec /\ []Regular => []StoresReachMemory
<1>1. Init => MemInv
  BY InitMem
<1>2. LsuInv /\ MemInv /\ Regular' /\ [Next]_vars => MemInv'
  BY NextMem, StutterMem DEF Regular
<1>3. LsuInv /\ MemInv => StoresReachMemory
  <2> SUFFICES ASSUME LsuInv, MemInv PROVE StoresReachMemory
    OBVIOUS
  <2>1. PICK c, h : StqShape(c, h)
    BY DEF LsuInv, StoreInv
  <2>2. StqTyped /\ workload \in Workloads /\ arch \in [Bytes -> Value] /\ mem \in [Bytes -> Value]
    BY DEF LsuInv, DataInv
  <2> QED BY <2>1, <2>2, MemoryHolds
<1> QED BY <1>1, <1>2, <1>3, LsuInvariant, PTL DEF Spec


-----------------------------------------------------------------------------
(* What loads must return.  A byte of the j-th operation is what the ones  *)
(* before it make of a byte that is m before the first of them.            *)
ByteTrue(ops, j, b, m) ==
  \/ None(ops, j - 1, b) /\ ops[j].data[b] = m
  \/ \E k \in 1 .. j - 1 : Last(ops, j - 1, b, k) /\ ops[j].data[b] = ops[k].data[b]
LoadsTrue(ops, n, a) ==
  \A j \in 1 .. n : ops[j].ld => \A b \in BytesOf(ops[j]) : ByteTrue(ops, j, b, a[b])
RobTrue == LoadsTrue(RobOps, Len(rob), arch)

(* The operations of rob and the new ones behind them.                     *)
Ext(new) == [k \in 1 .. Len(rob) + Len(new) |->
              IF k <= Len(rob) THEN rob[k].op ELSE new[k - Len(rob)]]

(* The first n operations leave m2 in the byte: what the ones behind must  *)
(* return does not change.                                                 *)
LEMMA ShiftTrue ==
  ASSUME NEW n \in Nat, NEW l \in Nat, NEW ops, NEW ops2, \A j \in 1 .. l : ops2[j] = ops[n + j],
         NEW j \in 1 .. l, NEW b, NEW m, NEW m2, ByteTrue(ops, n + j, b, m),
         \/ None(ops, n, b) /\ m2 = m
         \/ \E k \in 1 .. n : Last(ops, n, b, k) /\ m2 = ops[k].data[b]
  PROVE  ByteTrue(ops2, j, b, m2)
<1>1. ops2[j] = ops[n + j]
  OBVIOUS
<1>2. ASSUME NEW i \in 1 .. j - 1
      PROVE  n + i \in 1 .. n + j - 1 /\ ops2[i] = ops[n + i] /\ n + i > n
  BY <1>2
<1>3. ASSUME NEW i \in 1 .. n PROVE i \in 1 .. n + j - 1
  BY <1>3
<1>4. CASE None(ops, n + j - 1, b) /\ ops[n + j].data[b] = m
  <2>1. None(ops2, j - 1, b)
    BY <1>2, <1>4 DEF None
  <2>2. \A k \in 1 .. n : ~Last(ops, n, b, k)
    BY <1>3, <1>4 DEF None, Last
  <2> QED BY <1>1, <1>4, <2>1, <2>2 DEF ByteTrue
<1>5. CASE \E k \in 1 .. n + j - 1 : Last(ops, n + j - 1, b, k) /\ ops[n + j].data[b] = ops[k].data[b]
  <2>1. PICK k \in 1 .. n + j - 1 : /\ Touches(ops[k], b) /\ ops[n + j].data[b] = ops[k].data[b]
                                    /\ \A i \in 1 .. n + j - 1 : i > k => ~Touches(ops[i], b)
    BY <1>5 DEF Last
  <2>2. CASE k > n
    <3>1. PICK p \in 1 .. j - 1 : k = n + p
      <4>1. k - n \in 1 .. j - 1 /\ k = n + (k - n)
        BY <2>2
      <4> QED BY <4>1
    <3>2. ASSUME NEW i \in 1 .. j - 1, i > p PROVE ~Touches(ops2[i], b)
      <4>1. n + i > k
        BY <3>1, <3>2
      <4> QED BY <1>2, <2>1, <4>1
    <3>3. Last(ops2, j - 1, b, p) /\ ops2[j].data[b] = ops2[p].data[b]
      BY <1>1, <1>2, <2>1, <3>1, <3>2 DEF Last
    <3> QED BY <3>3 DEF ByteTrue
  <2>3. CASE ~(k > n)
    <3>1. k \in 1 .. n
      BY <2>3
    <3>2. None(ops2, j - 1, b)
      <4>1. ASSUME NEW i \in 1 .. j - 1 PROVE ~Touches(ops2[i], b)
        <5>1. n + i > k
          BY <3>1
        <5> QED BY <1>2, <2>1, <5>1
      <4> QED BY <4>1 DEF None
    <3>3. PICK q \in 1 .. n : Last(ops, n, b, q) /\ m2 = ops[q].data[b]
      BY <2>1, <3>1 DEF None
    <3>4. q = k
      <4>1. Touches(ops[q], b) /\ \A i \in 1 .. n : i > q => ~Touches(ops[i], b)
        BY <3>3 DEF Last
      <4>2. ~(k > q) /\ ~(q > k)
        BY <1>3, <2>1, <3>1, <4>1
      <4> QED BY <3>1, <4>2
    <3> QED BY <1>1, <2>1, <3>2, <3>3, <3>4 DEF ByteTrue
  <2> QED BY <2>2, <2>3
<1> QED BY <1>4, <1>5 DEF ByteTrue

(* The data of what arrives, byte by byte.                                 *)
Before(accs, b, k) == {j \in StoresTo(accs, b) : j <= k}
NewByte(accs, k, b) == (Speculative[b] + Cardinality(Before(accs, b, k))) % workload.values

LEMMA ArrivingData ==
  ASSUME NEW accs, NEW k \in 1 .. Len(accs)
  PROVE  /\ BytesOf(Arriving(accs)[k]) = BytesOf(accs[k])
         /\ \A b \in BytesOf(accs[k]) : Arriving(accs)[k].data[b] = NewByte(accs, k, b)
<1>1. /\ Arriving(accs)[k].addr = accs[k].addr /\ Arriving(accs)[k].strb = accs[k].strb
      /\ Arriving(accs)[k].data = [b \in BytesOf(accs[k]) |-> NewByte(accs, k, b)]
  BY DEF Arriving, NewByte, Before
<1> QED BY <1>1 DEF BytesOf

LEMMA SpeculativeIs ==
  ASSUME workload \in Workloads, IsSeq(rob), RobTyped, arch \in [Bytes -> Value], NEW b \in Bytes
  PROVE  ByteAfter(arch, RobOps, Len(rob), b) /\ Speculative[b] = After(arch, RobOps)[b] /\ Speculative[b] \in Value
<1> DEFINE ops == RobOps
           n == Len(rob)
<1>1. n \in Nat
  BY SeqType
<1>2. ops = [j \in 1 .. n |-> ops[j]] /\ \A j \in 1 .. n : ops[j] = rob[j].op
  BY DEF RobOps
<1>3. Len(ops) = n
  <2> HIDE DEF ops, n
  <2> QED BY <1>1, <1>2, SeqIntro
<1>4. \A j \in 1 .. n : \A x \in BytesOf(ops[j]) : ops[j].data[x] \in Value
  BY <1>2, OpBytes DEF RobTyped
<1>5. Speculative = After(arch, ops)
  BY DEF Speculative, OpsOf, RobOps
<1> HIDE DEF ops, n
<1>6. Len(ops) \in Nat /\ \A j \in 1 .. Len(ops) : \A x \in BytesOf(ops[j]) : ops[j].data[x] \in Value
  BY <1>1, <1>3, <1>4
<1>7. Speculative[b] \in Value
  <2>1. After(arch, ops) \in [Bytes -> Value]
    BY <1>6, AfterType
  <2> QED BY <1>5, <2>1
<1>8. ByteAfter(arch, ops, n, b)
  BY <1>1, <1>3, AfterByte
<1> QED BY <1>5, <1>7, <1>8 DEF ops, n

LEMMA ExtIs ==
  ASSUME IsSeq(rob), NEW new, Len(new) \in Nat
  PROVE  /\ Len(rob) \in Nat
         /\ \A j \in 1 .. Len(rob) : Ext(new)[j] = RobOps[j] /\ RobOps[j] = rob[j].op
         /\ \A k \in 1 .. Len(new) : Ext(new)[Len(rob) + k] = new[k]
<1> DEFINE n == Len(rob)
           l == Len(new)
<1>1. n \in Nat /\ l \in Nat
  BY SeqType
<1>2. \A k \in 1 .. n + l : Ext(new)[k] = IF k <= n THEN rob[k].op ELSE new[k - n]
  BY DEF Ext
<1>3. \A j \in 1 .. n : RobOps[j] = rob[j].op
  BY DEF RobOps
<1> HIDE DEF n, l
<1>4. ASSUME NEW j \in 1 .. n PROVE Ext(new)[j] = rob[j].op
  <2>1. j \in 1 .. n + l /\ j <= n
    BY <1>1
  <2> QED BY <1>2, <2>1
<1>5. ASSUME NEW k \in 1 .. l PROVE Ext(new)[n + k] = new[k]
  <2>1. n + k \in 1 .. n + l /\ ~(n + k <= n) /\ (n + k) - n = k
    BY <1>1
  <2>2. Ext(new)[n + k] = new[(n + k) - n]
    BY <1>2, <2>1
  <2> QED BY <2>1, <2>2
<1> QED BY <1>1, <1>3, <1>4, <1>5 DEF n, l


(* A load that arrives must return what the stores before it leave.        *)
LEMMA NewLoadTrue ==
  ASSUME workload \in Workloads, IsSeq(rob), RobTyped, arch \in [Bytes -> Value],
         NEW accs \in Batches, NEW new, new = Arriving(accs), ArrivedFacts(new, accs),
         NEW k \in 1 .. Len(accs), new[k].ld, NEW b \in BytesOf(new[k])
  PROVE  ByteTrue(Ext(new), Len(rob) + k, b, arch[b])
<1> DEFINE n == Len(rob)
           l == Len(accs)
           S == Before(accs, b, k)
           x == Ext(new)
           spec == Speculative[b]
           v == workload.values
<1>1. n \in Nat /\ l \in Nat /\ Len(new) = l /\ v \in Nat \ {0}
  BY SeqType, BatchLen, LsuAssumption DEF ArrivedFacts
<1>2. ASSUME NEW i \in 1 .. l
      PROVE  /\ BytesOf(new[i]) = BytesOf(accs[i])
             /\ new[i].ld = accs[i].ld
             /\ b \in BytesOf(accs[i]) => new[i].data[b] = NewByte(accs, i, b)
  BY ArrivingData DEF ArrivedFacts
<1>3. b \in Bytes
  <2>1. accs[k] \in workload.accesses
    BY BatchLen
  <2>2. BytesOf(accs[k]) \subseteq Bytes
    BY <2>1, LsuAssumption
  <2> QED BY <1>2, <2>2
<1>4. /\ \A j \in 1 .. n : x[j] = RobOps[j]
      /\ \A i \in 1 .. l : x[n + i] = new[i]
  BY <1>1, ExtIs
<1>5. ASSUME NEW i \in 1 .. l PROVE i \in StoresTo(accs, b) <=> Touches(new[i], b)
  BY <1>2 DEF StoresTo, Of, Touches
<1>6. StoresTo(accs, b) \subseteq 1 .. l
  BY DEF StoresTo, Of
<1>7. new[k].data[b] = (spec + Cardinality(S)) % v
  BY <1>2 DEF NewByte
<1>8. ByteAfter(arch, RobOps, n, b) /\ spec = After(arch, RobOps)[b] /\ spec \in 0 .. v - 1
  BY <1>3, SpeculativeIs DEF Value
<1>9. k \notin S
  BY <1>5 DEF Touches, Before
<1>10. \A i \in 1 .. l : i \in S <=> Touches(new[i], b) /\ i <= k
  BY <1>5 DEF Before
<1>11. S \in SUBSET (1 .. l)
  BY <1>6 DEF Before
<1>12. x[n + k] = new[k]
  BY <1>4
<1>13. ASSUME NEW j \in 1 .. n + k - 1
       PROVE  \/ j \in 1 .. n /\ x[j] = RobOps[j]
              \/ \E i \in 1 .. l : i < k /\ j = n + i /\ x[j] = new[i]
  <2>1. CASE j \in 1 .. n
    BY <1>4, <2>1
  <2>2. CASE j \notin 1 .. n
    <3>1. j - n \in 1 .. l /\ j - n < k /\ j = n + (j - n)
      <4> HIDE DEF n, l
      <4>1. k \in 1 .. l
        BY DEF l
      <4> QED BY <1>1, <2>2, <4>1
    <3>2. PICK i \in 1 .. l : i < k /\ j = n + i
      BY <3>1
    <3> QED BY <1>4, <3>2
  <2> QED BY <2>1, <2>2
<1>14. CASE S = {}
  <2>1. new[k].data[b] = spec
    <3>1. Cardinality(S) = 0
      BY <1>14, FS_EmptySet
    <3> HIDE DEF S, spec, v
    <3>2. spec \in 0 .. 2 * v - 1 /\ spec + 0 = spec /\ spec < v
      BY <1>1, <1>8
    <3>3. spec % v = spec
      BY <1>1, <3>2, WrapIsMod DEF Wrap
    <3> QED BY <1>7, <3>1, <3>2, <3>3
  <2>2. ASSUME NEW i \in 1 .. l, i < k PROVE ~Touches(new[i], b)
    <3>1. i <= k
      BY <1>1, <2>2
    <3> QED BY <1>10, <1>14, <3>1
  <2> HIDE DEF n, l, x, spec, S
  <2>3. CASE None(RobOps, n, b) /\ After(arch, RobOps)[b] = arch[b]
    <3>1. \A j \in 1 .. n : ~Touches(RobOps[j], b)
      BY <2>3 DEF None
    <3>2. ASSUME NEW j \in 1 .. n + k - 1 PROVE ~Touches(x[j], b)
      BY <1>13, <2>2, <3>1
    <3>3. None(x, n + k - 1, b)
      BY <3>2 DEF None
    <3> QED BY <1>8, <1>12, <2>1, <2>3, <3>3 DEF ByteTrue, x, n
  <2>4. CASE \E p \in 1 .. n : Last(RobOps, n, b, p) /\ After(arch, RobOps)[b] = RobOps[p].data[b]
    <3>1. PICK p \in 1 .. n : /\ Touches(RobOps[p], b) /\ After(arch, RobOps)[b] = RobOps[p].data[b]
                              /\ \A j \in 1 .. n : j > p => ~Touches(RobOps[j], b)
      BY <2>4 DEF Last
    <3>2. ASSUME NEW j \in 1 .. n + k - 1, j > p PROVE ~Touches(x[j], b)
      BY <1>13, <2>2, <3>1, <3>2
    <3>3. p \in 1 .. n + k - 1 /\ x[p] = RobOps[p]
      BY <1>1, <1>4
    <3>4. Last(x, n + k - 1, b, p) /\ x[n + k].data[b] = x[p].data[b]
      BY <1>8, <1>12, <2>1, <3>1, <3>2, <3>3 DEF Last
    <3> QED BY <3>3, <3>4 DEF ByteTrue, x, n
  <2> QED BY <1>8, <2>3, <2>4 DEF ByteAfter
<1>15. CASE S # {}
  <2>1. Max(S) \in S /\ \A y \in S : Max(S) >= y
    BY <1>1, <1>11, <1>15, Greatest
  <2>2. PICK i \in 1 .. l : i = Max(S)
    BY <1>11, <2>1
  <2>3. i < k /\ Touches(new[i], b)
    <3>1. i \in S /\ i <= k /\ i # k /\ Touches(new[i], b)
      BY <1>9, <1>10, <2>1, <2>2
    <3> QED BY <1>1, <3>1
  <2>4. Before(accs, b, i) = S
    <3>1. ASSUME NEW j \in StoresTo(accs, b) PROVE j <= i <=> j <= k
      <4>1. j \in 1 .. l
        BY <1>6
      <4>2. j <= k => j \in S
        BY DEF Before
      <4>3. j <= k => i >= j
        BY <2>1, <2>2, <4>2
      <4> QED BY <1>1, <2>3, <4>1, <4>3
    <3> QED BY <3>1 DEF Before
  <2>5. new[i].data[b] = new[k].data[b]
    <3>1. b \in BytesOf(accs[i])
      BY <1>2, <2>3 DEF Touches
    <3>2. new[i].data[b] = NewByte(accs, i, b)
      BY <1>2, <3>1
    <3> QED BY <1>7, <2>4, <3>2 DEF NewByte
  <2>6. ASSUME NEW m \in 1 .. l, m < k, m > i PROVE ~Touches(new[m], b)
    <3>1. m <= k
      BY <1>1, <2>6
    <3>2. Touches(new[m], b) => i >= m
      BY <1>10, <2>1, <2>2, <3>1
    <3> QED BY <1>1, <2>6, <3>2
  <2> HIDE DEF n, l, x, S
  <2>7. n + i \in 1 .. n + k - 1 /\ x[n + i] = new[i]
    BY <1>1, <1>4, <2>3
  <2>8. ASSUME NEW j \in 1 .. n + k - 1, j > n + i PROVE ~Touches(x[j], b)
    <3>1. j \notin 1 .. n
      BY <1>1, <2>8
    <3>2. PICK m \in 1 .. l : m < k /\ j = n + m /\ x[j] = new[m]
      BY <1>13, <3>1
    <3>3. m > i
      BY <1>1, <2>8, <3>2
    <3> QED BY <2>6, <3>2, <3>3
  <2>9. Last(x, n + k - 1, b, n + i) /\ x[n + k].data[b] = x[n + i].data[b]
    BY <1>12, <2>3, <2>5, <2>7, <2>8 DEF Last
  <2>10. ByteTrue(x, n + k, b, arch[b])
    <3>1. PICK q \in 1 .. (n + k) - 1 : Last(x, (n + k) - 1, b, q) /\ x[n + k].data[b] = x[q].data[b]
      <4>1. n + k - 1 = (n + k) - 1
        BY <1>1
      <4> QED BY <2>7, <2>9, <4>1
    <3> QED BY <3>1, Zenon DEF ByteTrue
  <2> QED BY <2>10 DEF x, n
<1> QED BY <1>14, <1>15

LEMMA NextRobTrue ==
  ASSUME RobShape, RobTyped, RobTrue, workload \in Workloads, arch \in [Bytes -> Value],
         NEW accs \in Batches, Fits(accs), NEW new, new = Arriving(accs),
         NEW n \in Nat, LegalRetire(n), NewRob(new, n), NextRob(new, n, FALSE, FALSE)
  PROVE  RobTrue'
<1> DEFINE x == Ext(new)
           L == Len(rob)
           l == Len(accs)
<1>1. ArrivedFacts(new, accs) /\ Len(new) = l /\ IsSeq(rob)
  <2>1. ArrivedFacts(new, accs)
    BY ArrivingIs
  <2> QED BY <2>1 DEF ArrivedFacts, RobShape
<1>2. L \in Nat /\ l \in Nat /\ n <= L /\ \A j \in 1 .. n : j \in 1 .. L
  <2>1. L \in Nat /\ l \in Nat /\ n <= L
    BY <1>1, SeqType, BatchLen DEF LegalRetire
  <2> HIDE DEF L
  <2> QED BY <2>1
<1>3. /\ \A j \in 1 .. L : x[j] = RobOps[j] /\ RobOps[j] = rob[j].op
      /\ \A k \in 1 .. l : x[L + k] = new[k]
  BY <1>1, <1>2, ExtIs
<1>4. PICK r : r = RobOps'
  OBVIOUS
<1>5. PICK a : a = arch'
  OBVIOUS
<1>6. Len(rob') = L + l - n /\ \A j \in 1 .. L + l - n : r[j] = x[n + j]
  <2>1. /\ Len(rob') = L - n + l
        /\ \A j \in 1 .. L - n : rob'[j].op = rob[n + j].op
        /\ \A k \in 1 .. l : rob'[L - n + k].op = new[k]
    <3>1. /\ Len(rob') = L - n + Len(new)
          /\ \A j \in 1 .. L - n : rob'[j].op = rob[n + j].op
      BY DEF NewRob, Moved
    <3>2. ASSUME NEW k \in 1 .. l PROVE rob'[L - n + k].op = new[k]
      <4>1. rob'[L - n + k] = [op |-> new[k], done |-> FALSE, entry |-> NONE]
        BY <1>1 DEF NewRob
      <4> QED BY <4>1
    <3> QED BY <1>1, <3>1, <3>2
  <2>2. \A j \in 1 .. Len(rob') : r[j] = rob'[j].op
    BY <1>4 DEF RobOps
  <2> HIDE DEF L, l, x
  <2>3. Len(rob') = L + l - n
    BY <1>2, <2>1
  <2>4. ASSUME NEW j \in 1 .. L + l - n PROVE r[j] = x[n + j]
    <3>1. r[j] = rob'[j].op
      BY <2>2, <2>3
    <3>2. CASE j <= L - n
      <4>1. j \in 1 .. L - n /\ n + j \in 1 .. L
        BY <1>2, <3>2
      <4> QED BY <1>3, <2>1, <3>1, <4>1
    <3>3. CASE ~(j <= L - n)
      <4>1. PICK k \in 1 .. l : j = L - n + k
        <5>1. j - (L - n) \in 1 .. l /\ j = L - n + (j - (L - n))
          BY <1>2, <3>3
        <5> QED BY <5>1
      <4>2. n + j = L + k
        BY <1>2, <4>1
      <4> QED BY <1>3, <2>1, <3>1, <4>1, <4>2
    <3> QED BY <3>2, <3>3
  <2> QED BY <2>3, <2>4
<1>7. ASSUME NEW j \in 1 .. L + l, x[j].ld, NEW b \in BytesOf(x[j])
      PROVE  ByteTrue(x, j, b, arch[b])
  <2>1. CASE j <= L
    <3>1. j \in 1 .. L /\ \A i \in 1 .. j - 1 : i \in 1 .. L
      <4> HIDE DEF L, l
      <4> QED BY <1>2, <2>1
    <3>2. ByteTrue(RobOps, j, b, arch[b])
      BY <1>3, <1>7, <3>1 DEF RobTrue, LoadsTrue
    <3> HIDE DEF x, L
    <3>3. \A i \in 1 .. j - 1 : x[i] = RobOps[i]
      BY <1>3, <3>1
    <3>4. x[j] = RobOps[j]
      BY <1>3, <3>1
    <3>5. CASE None(RobOps, j - 1, b) /\ RobOps[j].data[b] = arch[b]
      <4>1. None(x, j - 1, b)
        BY <3>3, <3>5 DEF None
      <4> QED BY <3>4, <3>5, <4>1 DEF ByteTrue
    <3>6. CASE \E k \in 1 .. j - 1 : Last(RobOps, j - 1, b, k) /\ RobOps[j].data[b] = RobOps[k].data[b]
      <4>1. PICK k \in 1 .. j - 1 : Last(RobOps, j - 1, b, k) /\ RobOps[j].data[b] = RobOps[k].data[b]
        BY <3>6
      <4>2. Last(x, j - 1, b, k) /\ x[j].data[b] = x[k].data[b]
        BY <3>3, <3>4, <4>1 DEF Last
      <4> QED BY <4>2 DEF ByteTrue
    <3> QED BY <3>2, <3>5, <3>6 DEF ByteTrue
  <2>2. CASE ~(j <= L)
    <3>1. PICK k \in 1 .. l : j = L + k
      <4>1. j - L \in 1 .. l /\ j = L + (j - L)
        <5> HIDE DEF L, l
        <5> QED BY <1>2, <2>2
      <4> QED BY <4>1
    <3>2. new[k].ld /\ b \in BytesOf(new[k])
      BY <1>3, <1>7, <3>1
    <3> QED BY <1>1, <3>1, <3>2, NewLoadTrue
  <2> QED BY <2>1, <2>2
<1>8. ASSUME NEW j \in 1 .. Len(rob'), r[j].ld, NEW b \in BytesOf(r[j]) PROVE ByteTrue(r, j, b, a[b])
  <2>1. j \in 1 .. L + l - n /\ r[j] = x[n + j]
    BY <1>6
  <2>2. n + j \in 1 .. L + l /\ L + l - n \in Nat
    <3> HIDE DEF L, l
    <3> QED BY <1>2, <2>1
  <2>3. ByteTrue(x, n + j, b, arch[b])
    BY <1>7, <1>8, <2>1, <2>2
  <2>4. b \in Bytes
    <3>1. CASE n + j \in 1 .. L
      BY <1>3, <1>8, <2>1, <3>1, OpBytes DEF RobTyped
    <3>2. CASE n + j \notin 1 .. L
      <4>1. PICK k \in 1 .. l : n + j = L + k
        <5>1. n + j - L \in 1 .. l /\ n + j = L + (n + j - L)
          <6> HIDE DEF L, l
          <6> QED BY <1>2, <2>1, <2>2, <3>2
        <5> QED BY <5>1
      <4>2. r[j] = new[k]
        BY <1>3, <2>1, <4>1
      <4>3. IsOp(new[k])
        BY <1>1, ArrivingTyped
      <4> QED BY <1>8, <4>2, <4>3, OpBytes
    <3> QED BY <3>1, <3>2
  <2>5. \/ None(RobOps, n, b) /\ a[b] = arch[b]
        \/ \E k \in 1 .. n : Last(RobOps, n, b, k) /\ a[b] = rob[k].op.data[b]
    BY <1>5, <2>4, ArchIs
  <2>6. \/ None(x, n, b) /\ a[b] = arch[b]
        \/ \E k \in 1 .. n : Last(x, n, b, k) /\ a[b] = x[k].data[b]
    <3> HIDE DEF x, L
    <3>1. \A k \in 1 .. n : x[k] = RobOps[k] /\ RobOps[k] = rob[k].op
      BY <1>2, <1>3
    <3>2. None(RobOps, n, b) => None(x, n, b)
      BY <3>1 DEF None
    <3>3. \A k \in 1 .. n : Last(RobOps, n, b, k) => Last(x, n, b, k)
      BY <3>1 DEF Last
    <3> QED BY <2>5, <3>1, <3>2, <3>3
  <2> HIDE DEF x, L, l
  <2> QED BY <1>6, <2>1, <2>2, <2>3, <2>6, ShiftTrue
<1> QED BY <1>4, <1>5, <1>8 DEF RobTrue, LoadsTrue


-----------------------------------------------------------------------------
LEMMA SameStart ==
  ASSUME StartTogether, workload \in Workloads, NEW a, IsOp(a), a.ld = TRUE,
         NEW s, IsOp(s), NEW b \in BytesOf(a), Touches(s, b)
  PROVE  s.addr = a.addr
<1> DEFINE access(x) == [ld |-> x.ld, addr |-> x.addr, strb |-> x.strb]
<1>1. access(a) \in workload.accesses /\ access(s) \in workload.accesses
  BY DEF IsOp
<1>2. access(a).ld /\ ~access(s).ld
  BY DEF Touches
<1>3. BytesOf(access(a)) \cap BytesOf(access(s)) # {}
  BY DEF BytesOf, Touches
<1>4. access(a).addr = a.addr /\ access(s).addr = s.addr
  OBVIOUS
<1> HIDE DEF access
<1> QED BY <1>1, <1>2, <1>3, <1>4 DEF StartTogether

(* The unit in a cycle without a cancel.                                   *)
Going(c, h) ==
  /\ BufOK /\ RobShape /\ LdqFlags /\ RobLoads /\ StqShape(c, h) /\ RobStores(c, h)
  /\ workload \in Workloads /\ RobTyped /\ StqTyped /\ LdqTyped
  /\ arch \in [Bytes -> Value] /\ mem \in [Bytes -> Value]
  /\ ~Cancelling /\ OffersInOrder /\ AnswersTaken

(* Whoever is offered second: the first one is before it in rob.           *)
LEMMA PairInRob ==
  ASSUME BufOK, RobShape, NEW k \in 1 .. Len(lsu_buf)
  PROVE  /\ In \in Nat /\ In + k \in 1 .. Len(rob) /\ rob[In + k].op = lsu_buf[k]
         /\ Len(rob) = In + Len(lsu_buf) /\ Len(lsu_buf) \in Nat
<1> DEFINE n == Len(rob)
           m == Len(lsu_buf)
<1>1. n \in Nat /\ m \in Nat /\ In = n - m /\ In >= 0 /\ rob[In + k].op = lsu_buf[k]
  BY SeqType DEF BufOK, RobShape, In
<1>2. k \in 1 .. m
  BY DEF m
<1> HIDE DEF n, m, In
<1>3. In \in Nat /\ In + k \in 1 .. n /\ n = In + m
  BY <1>1, <1>2
<1> QED BY <1>1, <1>3 DEF n, m

(* A taken load that is second behind a store.                             *)
Behind1(k) ==
  /\ k = 1 /\ Pos(TRUE, k) = 2 /\ In + 1 \in 1 .. Len(rob)
  /\ rob[In + 1].op.ld = FALSE /\ rob[In + 1].op = lsu_buf[1] /\ HeadPair[1] = lsu_buf[1]

LEMMA SecondLoad ==
  ASSUME BufOK, RobShape, NEW k \in 1 .. Len(LduOffer), Pos(TRUE, k) = 2, lsu_buf[1].ld = FALSE
  PROVE  Behind1(k) /\ LduOffer[1] = lsu_buf[2] /\ lsu_buf[2].ld = TRUE /\ Len(lsu_buf) > 1 /\ LduOffer # <<>>
<1>1. /\ OfferFacts(LduOffer, TRUE) /\ Len(LduOffer) \in Nat
      /\ Len(LduOffer) = Num(TRUE) \/ Len(LduOffer) = 0
  <2>1. Len(LduOffer) \in 0 .. 2
    BY TakenBounds
  <2>2. OfferFacts(LduOffer, TRUE)
    BY OffersAre, Zenon
  <2>3. Len(LduOffer) = Num(TRUE) \/ Len(LduOffer) = 0
    BY OffersAre, Zenon
  <2>4. \A x \in 0 .. 2 : x \in Nat
    OBVIOUS
  <2> QED BY <2>1, <2>2, <2>3, <2>4, Zenon
<1>2. Len(lsu_buf) \in Nat /\ 2 <= Len(lsu_buf) /\ LduOffer[k] = lsu_buf[2] /\ lsu_buf[2].ld = TRUE
  <2>1. Len(lsu_buf) \in Nat
    BY SeqType DEF BufOK
  <2>2. /\ Pos(TRUE, k) <= Len(lsu_buf) /\ LduOffer[k] = lsu_buf[Pos(TRUE, k)]
        /\ lsu_buf[Pos(TRUE, k)].ld = TRUE
    BY <1>1, Zenon DEF OfferFacts
  <2> QED BY <2>1, <2>2
<1>3. ~First(TRUE)
  BY DEF First
<1>4. Num(TRUE) <= 1 /\ Num(TRUE) \in Nat
  BY <1>3 DEF Num
<1>5. k = 1 /\ LduOffer # <<>>
  <2>1. k \in 1 .. 1 /\ Len(LduOffer) # 0
    <3>1. PICK m : m = Len(LduOffer)
      OBVIOUS
    <3>2. PICK x : x = Num(TRUE)
      OBVIOUS
    <3>3. m \in Nat /\ (m = x \/ m = 0) /\ x \in Nat /\ x <= 1 /\ k \in 1 .. m
      BY <1>1, <1>4, <3>1, <3>2
    <3>4. k \in 1 .. 1 /\ m # 0
      BY <3>3
    <3> QED BY <3>1, <3>4
  <2>2. k = 1
    BY <2>1
  <2> QED BY <1>1, <2>1, <2>2 DEF OfferFacts
<1>6. 1 \in 1 .. Len(lsu_buf)
  BY <1>2
<1>7. In + 1 \in 1 .. Len(rob) /\ rob[In + 1].op = lsu_buf[1]
  BY <1>6, PairInRob
<1>8. HeadPair[1] = lsu_buf[1]
  <2>1. Len(HeadPair) = 2 /\ \A i \in 1 .. Len(HeadPair) : HeadPair[i] = lsu_buf[i]
    BY <1>2, HeadPairIs
  <2>2. 1 \in 1 .. 2
    OBVIOUS
  <2> QED BY <2>1, <2>2
<1>9. Len(lsu_buf) > 1
  BY <1>2
<1> QED BY <1>2, <1>5, <1>7, <1>8, <1>9 DEF Behind1

(* A store of the same cycle is the operation before the load.             *)
LEMMA SameCycleIs ==
  ASSUME BufOK, RobShape, 1 \in 1 .. Len(LduOffer), SameCycle
  PROVE  Behind1(1) /\ StuOffer[1] = rob[In + 1].op /\ StuOffer[1].addr = LduOffer[1].addr
<1>1. LduOffer # <<>> /\ StuOffer # <<>> /\ LduOffer[1] # HeadPair[1] /\ StuOffer[1].addr = LduOffer[1].addr
  BY DEF SameCycle, lsid
<1>2. /\ OfferFacts(StuOffer, FALSE) /\ OfferFacts(LduOffer, TRUE)
  BY OffersAre
<1>3. /\ Pos(TRUE, 1) \in 1 .. 2 /\ Pos(TRUE, 1) <= Len(lsu_buf) /\ Len(lsu_buf) \in Nat
      /\ LduOffer[1] = lsu_buf[Pos(TRUE, 1)]
  <2>1. Len(lsu_buf) \in Nat
    BY SeqType DEF BufOK
  <2> QED BY <1>2, <2>1, Zenon DEF OfferFacts
<1>4. 1 \in 1 .. Len(lsu_buf) /\ Len(lsu_buf) >= 1
  <2>1. \A p \in 1 .. 2 : \A m \in Nat : p <= m => 1 \in 1 .. m /\ m >= 1
    OBVIOUS
  <2> QED BY <1>3, <2>1, Zenon
<1>5. HeadPair[1] = lsu_buf[1]
  <2>1. 1 \in 1 .. (IF Len(lsu_buf) < 2 THEN Len(lsu_buf) ELSE 2)
    BY <1>3, <1>4
  <2>2. /\ Len(HeadPair) = IF Len(lsu_buf) < 2 THEN Len(lsu_buf) ELSE 2
        /\ \A i \in 1 .. Len(HeadPair) : HeadPair[i] = lsu_buf[i]
    BY HeadPairIs
  <2> QED BY <2>1, <2>2
<1>6. Pos(TRUE, 1) = 2
  <2>1. Pos(TRUE, 1) # 1
    BY <1>1, <1>3, <1>5
  <2>2. \A p \in 1 .. 2 : p # 1 => p = 2
    OBVIOUS
  <2> QED BY <1>3, <2>1, <2>2, Zenon
<1>7. ~First(TRUE)
  <2>1. 1 # 2
    OBVIOUS
  <2> QED BY <1>6, <2>1, Zenon DEF Pos
<1>8. lsu_buf[1].ld = FALSE
  <2>1. lsu_buf[1].ld \in BOOLEAN
    BY <1>4 DEF BufOK
  <2>3. ~lsu_buf[1].ld
    BY <1>4, <1>7 DEF First
  <2> QED BY <2>1, <2>3
<1>9. Behind1(1)
  BY <1>6, <1>8, SecondLoad
<1>10. StuOffer[1] = lsu_buf[1]
  <2>1. 1 \in 1 .. Len(StuOffer)
    <3>1. Len(StuOffer) \in 0 .. 2 /\ Len(StuOffer) # 0
      BY <1>1, <1>2, TakenBounds DEF OfferFacts
    <3> QED BY <3>1
  <2>2. StuOffer[1] = lsu_buf[Pos(FALSE, 1)]
    BY <1>2, <2>1, Zenon DEF OfferFacts
  <2>3. First(FALSE)
    BY <1>4, <1>8 DEF First
  <2>4. Pos(FALSE, 1) = 1
    BY <2>3 DEF Pos
  <2> QED BY <2>2, <2>4
<1> QED BY <1>1, <1>9, <1>10 DEF Behind1


(* A store that is older than a taken load and writes one of its bytes is  *)
(* met by it: in the store queue, or offered with it.                      *)
Older(k, q) ==
  \/ q \in DoneStores /\ q \in 1 .. In /\ rob[q].entry \in SameAddr(LduOffer[k])
  \/ q = In + 1 /\ k = 1 /\ SameCycle

LEMMA OlderStore ==
  ASSUME StartTogether, NEW c, NEW h, Going(c, h), NEW k \in 1 .. LoadsTaken, NEW b \in BytesOf(LduOffer[k]),
         NEW q \in 1 .. In + Pos(TRUE, k) - 1, Touches(rob[q].op, b)
  PROVE  Older(k, q)
<1>1. /\ BufOK /\ RobShape /\ RobLoads /\ StqShape(c, h) /\ RobStores(c, h) /\ RobTyped
      /\ workload \in Workloads /\ ~Cancelling /\ OffersInOrder /\ AnswersTaken
  BY DEF Going
<1>2. /\ In + Pos(TRUE, k) \in 1 .. Len(rob)
      /\ rob[In + Pos(TRUE, k)].op = LduOffer[k] /\ LduOffer[k].ld = TRUE
  BY <1>1, TakenLoads
<1>3. k \in 1 .. Len(LduOffer) /\ OfferFacts(LduOffer, TRUE) /\ OfferFacts(StuOffer, FALSE)
  BY <1>1, TakenOffered, Zenon
<1>4. Pos(TRUE, k) \in 1 .. 2 /\ In \in Nat /\ Len(rob) \in Nat
  <2>1. Pos(TRUE, k) \in 1 .. 2
    BY <1>3 DEF OfferFacts
  <2>2. In \in Nat
    BY <1>1, <1>3, OfferInRob
  <2> QED BY <1>1, <2>1, <2>2, SeqType DEF RobShape
<1>5. q \in 1 .. Len(rob) /\ (q \in 1 .. In \/ (q = In + 1 /\ Pos(TRUE, k) = 2))
  <2>1. PICK p : p = Pos(TRUE, k)
    OBVIOUS
  <2>2. p \in 1 .. 2 /\ In + p \in 1 .. Len(rob) /\ q \in 1 .. In + p - 1
    BY <1>2, <1>4, <2>1
  <2> HIDE DEF In
  <2>3. q \in 1 .. Len(rob) /\ (q \in 1 .. In \/ (q = In + 1 /\ p = 2))
    BY <1>4, <2>2
  <2> QED BY <2>1, <2>3
<1>6. rob[q].op.ld = FALSE /\ rob[q].op.addr = LduOffer[k].addr
  <2>1. IsOp(rob[q].op) /\ IsOp(rob[In + Pos(TRUE, k)].op)
    BY <1>1, <1>2, <1>5, Zenon DEF RobTyped
  <2>2. IsOp(LduOffer[k])
    BY <1>2, <2>1, Zenon
  <2> QED BY <1>1, <1>2, <2>1, <2>2, SameStart DEF Touches
<1>7. CASE q \in 1 .. In
  <2>1. rob[q].done
    <3>1. ASSUME ~rob[q].done PROVE FALSE
      <4>1. PICK i \in Ldq : Asks(i) /\ ldq_pld[i] = rob[q].op
        BY <1>1, <1>7, <3>1 DEF RobLoads
      <4>2. ldq_pld[i].ld
        BY <1>1, <4>1 DEF RobLoads, Asks
      <4> QED BY <1>6, <4>1, <4>2
    <3> QED BY <3>1
  <2>2. q \in DoneStores
    BY <1>5, <1>6, <2>1 DEF DoneStores
  <2>3. rob[q].entry \in Stq /\ Off(rob[q].entry) \in c .. h - 1 /\ stq_pld[rob[q].entry] = rob[q].op
    BY <1>1, <2>2 DEF RobStores
  <2>4. stq_en[rob[q].entry]
    BY <1>1, <2>3 DEF StqShape
  <2>5. rob[q].entry \in SameAddr(LduOffer[k])
    BY <1>6, <2>3, <2>4 DEF SameAddr
  <2> QED BY <1>7, <2>2, <2>5 DEF Older
<1>8. CASE q = In + 1 /\ Pos(TRUE, k) = 2
  <2>1. lsu_buf[1].ld = FALSE /\ rob[In + 1].op = lsu_buf[1]
    <3>1. 2 <= Len(lsu_buf) /\ Len(lsu_buf) \in Nat
      <4>1. Pos(TRUE, k) <= Len(lsu_buf)
        BY <1>3 DEF OfferFacts
      <4> QED BY <1>1, <1>8, <4>1, SeqType DEF BufOK
    <3>2. 1 \in 1 .. Len(lsu_buf)
      BY <3>1
    <3> QED BY <1>1, <1>6, <1>8, <3>2, PairInRob
  <2>2. /\ Behind1(k) /\ LduOffer[1] = lsu_buf[2] /\ lsu_buf[2].ld = TRUE /\ Len(lsu_buf) > 1
        /\ LduOffer # <<>>
    BY <1>1, <1>3, <1>8, <2>1, SecondLoad
  <2>3. StuOffer # <<>>
    BY <1>1, <2>1, <2>2 DEF OffersInOrder
  <2>4. StuOffer[1] = lsu_buf[1]
    <3>1. 1 \in 1 .. Len(StuOffer)
      <4>1. Len(StuOffer) \in 0 .. 2 /\ Len(StuOffer) # 0
        BY <1>1, <1>3, <2>3, TakenBounds DEF OfferFacts
      <4> QED BY <4>1
    <3>2. StuOffer[1] = lsu_buf[Pos(FALSE, 1)]
      BY <1>3, <3>1, Zenon DEF OfferFacts
    <3>3. First(FALSE)
      <4>1. Len(lsu_buf) >= 1
        BY <1>1, <2>2, SeqType DEF BufOK
      <4> QED BY <2>1, <4>1 DEF First
    <3>4. Pos(FALSE, 1) = 1
      BY <3>3 DEF Pos
    <3> QED BY <3>2, <3>4
  <2>5. k = 1 /\ HeadPair[1] = lsu_buf[1]
    BY <2>2 DEF Behind1
  <2>6. lsid(LduOffer[1])
    <3>1. lsu_buf[2] # lsu_buf[1]
      BY <2>1, <2>2
    <3> QED BY <2>2, <2>5, <3>1 DEF lsid
  <2>7. SameCycle
    BY <1>6, <1>8, <2>1, <2>2, <2>3, <2>4, <2>5, <2>6 DEF SameCycle
  <2> QED BY <1>8, <2>5, <2>7 DEF Older
<1> QED BY <1>5, <1>7, <1>8

-----------------------------------------------------------------------------
(* A load that no store answers: nothing before it in rob and no retired   *)
(* store in the queue writes its bytes.                                    *)
Alone(j) ==
  \A b \in BytesOf(rob[j].op) : None(RobOps, j - 1, b) /\ \A i \in Stq : ~Drains(i, b)
AloneInv == \A j \in 1 .. In : ~rob[j].done => Alone(j)

(* A retired store that writes a byte of a taken load is met by it.        *)
LEMMA DrainsMet ==
  ASSUME StartTogether, NEW c, NEW h, Going(c, h), RetiredSeen, NEW k \in 1 .. LoadsTaken,
         NEW b \in BytesOf(LduOffer[k]), NEW i \in Stq, Drains(i, b)
  PROVE  i \in SameAddr(LduOffer[k])
<1>1. /\ BufOK /\ RobShape /\ RobTyped /\ StqTyped /\ workload \in Workloads
      /\ OffersInOrder /\ AnswersTaken
  BY DEF Going
<1>2. stq_commit[i] /\ Touches(stq_pld[i], b)
  BY DEF Drains
<1>3. k \in 1 .. Len(LduOffer)
  BY <1>1, TakenOffered, Zenon
<1>4. stq_en[i]
  BY <1>2, <1>3 DEF RetiredSeen, Touches
<1>5. IsOp(stq_pld[i]) /\ IsOp(LduOffer[k]) /\ LduOffer[k].ld = TRUE
  <2>1. i \in HeldStores
    BY <1>2 DEF HeldStores
  <2> QED BY <1>1, <2>1, OffersTyped, TakenLoads DEF StqTyped
<1>6. stq_pld[i].addr = LduOffer[k].addr
  BY <1>1, <1>2, <1>5, SameStart
<1> QED BY <1>4, <1>6 DEF SameAddr

LEMMA EnterAlone ==
  ASSUME StartTogether, NEW c, NEW h, Going(c, h), RetiredSeen, TakenAnswered,
         NEW k \in 1 .. LoadsTaken, ~v_ldq_ack_flag(k)
  PROVE  Alone(In + Pos(TRUE, k))
<1>1. ~(k = 1 /\ SameCycle) /\ SameAddr(LduOffer[k]) = {}
  BY DEF TakenAnswered, Meets
<1>2. PICK j : j = In + Pos(TRUE, k)
  OBVIOUS
<1>3. /\ j \in 1 .. Len(rob) /\ rob[j].op = LduOffer[k] /\ In \in Nat /\ IsSeq(rob)
  BY <1>2, TakenLoads, TakenOffered, OfferInRob DEF Going, RobShape
<1>4. ASSUME NEW b \in BytesOf(LduOffer[k]) PROVE None(RobOps, j - 1, b) /\ \A i \in Stq : ~Drains(i, b)
  <2>1. ASSUME NEW q \in 1 .. j - 1, Touches(RobOps[q], b) PROVE FALSE
    <3>1. q \in 1 .. Len(rob)
      <4>1. Len(rob) \in Nat
        BY <1>3, SeqType
      <4> QED BY <1>3, <4>1
    <3>2. RobOps[q] = rob[q].op
      BY <3>1 DEF RobOps
    <3>3. q \in 1 .. In + Pos(TRUE, k) - 1
      <4>1. \A i \in Nat : \A p \in 1 .. 2 : (i + p) - 1 = i + p - 1
        OBVIOUS
      <4>2. Pos(TRUE, k) \in 1 .. 2
        BY PosOrder, TakenOffered, Zenon DEF Going
      <4>3. j - 1 = In + Pos(TRUE, k) - 1
        BY <1>2, <1>3, <4>1, <4>2, Zenon
      <4> QED BY <4>3, Zenon
    <3>4. Older(k, q)
      BY <2>1, <3>2, <3>3, OlderStore
    <3> QED BY <1>1, <3>4 DEF Older
  <2>2. ASSUME NEW i \in Stq, Drains(i, b) PROVE FALSE
    <3>1. i \in SameAddr(LduOffer[k])
      BY <2>2, DrainsMet
    <3> QED BY <1>1, <3>1
  <2> QED BY <2>1, <2>2 DEF None
<1> QED BY <1>2, <1>3, <1>4 DEF Alone

(* What such a load must return is what memory holds.                      *)
LEMMA AloneIs ==
  ASSUME RobTrue, NEW j \in 1 .. Len(rob), rob[j].op.ld, Alone(j), NEW b \in BytesOf(rob[j].op), MemTrue(b)
  PROVE  rob[j].op.data[b] = mem[b]
<1>1. RobOps[j] = rob[j].op
  BY DEF RobOps
<1>2. ByteTrue(RobOps, j, b, arch[b])
  BY <1>1 DEF RobTrue, LoadsTrue
<1>3. None(RobOps, j - 1, b) /\ \A i \in Stq : ~Drains(i, b)
  BY DEF Alone
<1>4. \A k \in 1 .. j - 1 : ~Last(RobOps, j - 1, b, k)
  BY <1>3 DEF None, Last
<1>5. rob[j].op.data[b] = arch[b]
  BY <1>1, <1>2, <1>4 DEF ByteTrue
<1>6. arch[b] = mem[b]
  BY <1>3 DEF MemTrue, LastDrained
<1> QED BY <1>5, <1>6


(* Of the stores that write a byte after a cycle, the ones just retired    *)
(* were in rob.                                                            *)
LEMMA NextDrains ==
  ASSUME NEW n, NEW c, NEW r, NEW out, MemFacts(n, c, r, out), NEW b, NEW i \in Stq, Drains(i, b)'
  PROVE  Drains(i, b) \/ \E q \in 1 .. n : Touches(rob[q].op, b)
<1>1. /\ c \in Nat /\ r \in Nat /\ out \in 0 .. 1 /\ Off(i) \in Nat
      /\ stq_commit[i] <=> Off(i) < c
      /\ stq_commit'[i] <=> Off(i) \in out .. c + r - 1
      /\ stq_commit'[i] => stq_pld'[i] = stq_pld[i]
  BY DEF MemFacts
<1>2. stq_commit'[i] /\ Touches(stq_pld'[i], b)
  BY DEF Drains
<1>3. Touches(stq_pld[i], b) /\ Off(i) \in out .. c + r - 1
  BY <1>1, <1>2
<1>4. CASE Off(i) < c
  BY <1>1, <1>3, <1>4 DEF Drains
<1>5. CASE ~(Off(i) < c)
  <2>1. Retired(i, c, r)
    BY <1>1, <1>3, <1>5 DEF Retired
  <2>2. PICK q \in 1 .. n : rob[q].op.ld = FALSE /\ rob[q].entry = i
    BY <2>1 DEF MemFacts
  <2>3. stq_pld[i] = rob[q].op
    BY <2>2 DEF MemFacts
  <2> QED BY <1>3, <2>3
<1> QED BY <1>4, <1>5

LEMMA NextAlone ==
  ASSUME StartTogether, NEW c, NEW h, Going(c, h), RetiredSeen, TakenAnswered, AloneInv,
         NEW new, NEW n, NewRob(new, n), NewBuf(new), In' = In - n + Taken,
         NEW r, NEW out, MemFacts(n, c, r, out), IsSeq(rob')
  PROVE  AloneInv'
<1>1. /\ BufOK /\ RobShape /\ OffersInOrder /\ AnswersTaken
  BY DEF Going
<1>2. /\ In \in Nat /\ n \in Nat /\ n <= In /\ Taken \in 0 .. 2 /\ In' = In - n + Taken
      /\ In + Taken <= Len(rob) /\ Len(rob) \in Nat
      /\ \A j \in 1 .. In' : /\ n + j \in 1 .. In + Taken /\ rob'[j].op = rob[n + j].op
                             /\ ~rob'[j].done <=> ~rob[n + j].done /\ ~StoreAt(n + j) /\ ~LoadAt(n + j)
  BY <1>1, NotDone
<1>3. ASSUME NEW j \in 1 .. In', ~rob'[j].done PROVE Alone(n + j)
  <2>1. /\ n + j \in 1 .. In + Taken
        /\ ~rob[n + j].done /\ ~StoreAt(n + j) /\ ~LoadAt(n + j)
    BY <1>2, <1>3
  <2>2. CASE n + j \in 1 .. In
    BY <2>1, <2>2 DEF AloneInv
  <2>3. CASE n + j \notin 1 .. In
    <3>1. PICK p \in 1 .. Taken : n + j = In + p
      <4>1. PICK x \in Nat : x = n + j
        BY <1>2
      <4>2. x \in 1 .. In + Taken /\ x \notin 1 .. In
        BY <2>1, <2>3, <4>1
      <4>3. PICK m \in Nat : m = In
        BY <1>2
      <4>4. PICK t \in Nat : t = Taken
        BY <1>2
      <4>5. x \in 1 .. m + t /\ x \notin 1 .. m
        BY <4>2, <4>3, <4>4
      <4>6. x - m \in 1 .. t /\ x = m + (x - m)
        BY <4>5
      <4> QED BY <4>1, <4>3, <4>4, <4>6
    <3>2. IF lsu_buf[p].ld THEN \E k \in 1 .. LoadsTaken : Pos(TRUE, k) = p
                           ELSE \E k \in 1 .. StoresTaken : Pos(FALSE, k) = p
      BY <1>1, TakenFirst
    <3>3. CASE lsu_buf[p].ld
      <4>1. PICK k \in 1 .. LoadsTaken : Pos(TRUE, k) = p
        BY <3>2, <3>3
      <4>2. ~v_ldq_ack_flag(k)
        <5>1. LoadAt(In + Pos(TRUE, k)) <=> v_ldq_ack_flag(k)
          BY <1>1, TakenLoads
        <5> QED BY <2>1, <3>1, <4>1, <5>1
      <4>3. Alone(In + Pos(TRUE, k))
        BY <4>2, EnterAlone
      <4> QED BY <3>1, <4>1, <4>3
    <3>4. CASE ~lsu_buf[p].ld
      <4>1. PICK k \in 1 .. StoresTaken : Pos(FALSE, k) = p
        BY <3>2, <3>4
      <4>2. StoreAt(In + p)
        BY <4>1 DEF StoreAt
      <4> QED BY <2>1, <3>1, <4>2
    <3> QED BY <3>3, <3>4
  <2> QED BY <2>2, <2>3
<1>4. In' <= Len(rob') /\ Len(rob') \in Nat
  <2>1. Len(rob') = Len(rob) - n + Len(new) /\ Len(new) \in Nat
    BY DEF NewRob
  <2>2. PICK i2, l2, l, t : i2 = In' /\ l2 = Len(rob') /\ l = Len(rob) /\ t = Len(new)
    OBVIOUS
  <2>3. i2 <= l2 /\ l2 \in Nat
    <3>1. PICK a, k : a = In /\ k = Taken
      OBVIOUS
    <3>2. /\ i2 = a - n + k /\ l2 = l - n + t /\ t \in Nat /\ a + k <= l /\ l \in Nat
          /\ a \in Nat /\ k \in 0 .. 2 /\ n \in Nat /\ n <= a
      BY <1>2, <2>1, <2>2, <3>1
    <3> QED BY <3>2
  <2> QED BY <2>2, <2>3
<1>5. ASSUME NEW j \in 1 .. In', ~rob'[j].done, NEW b \in BytesOf(rob'[j].op)
      PROVE  None(RobOps', j - 1, b) /\ \A i \in Stq : ~Drains(i, b)'
  <2>1. Alone(n + j) /\ rob'[j].op = rob[n + j].op /\ n + j \in 1 .. In + Taken
    BY <1>2, <1>3, <1>5
  <2>2. None(RobOps, (n + j) - 1, b) /\ \A i \in Stq : ~Drains(i, b)
    BY <1>5, <2>1 DEF Alone
  <2>3. \A q \in 1 .. (n + j) - 1 : ~Touches(rob[q].op, b)
    <3>1. ASSUME NEW q \in 1 .. (n + j) - 1 PROVE RobOps[q] = rob[q].op
      <4>1. PICK a, k, l, x : a = In /\ k = Taken /\ l = Len(rob) /\ x = n + j
        OBVIOUS
      <4>2. x \in 1 .. a + k /\ a + k <= l /\ l \in Nat /\ a \in Nat /\ k \in 0 .. 2 /\ q \in 1 .. x - 1
        BY <1>2, <2>1, <3>1, <4>1
      <4>3. q \in 1 .. l
        BY <4>2
      <4> QED BY <4>1, <4>3 DEF RobOps
    <3> QED BY <2>2, <3>1 DEF None
  <2>4. ASSUME NEW i \in 1 .. j - 1 PROVE ~Touches(RobOps'[i], b)
    <3>1. PICK m : m = In'
      OBVIOUS
    <3>2. i \in 1 .. m /\ i \in 1 .. Len(rob') /\ n + i \in 1 .. (n + j) - 1
      <4>1. j \in 1 .. m /\ m <= Len(rob') /\ m \in Int
        BY <1>2, <1>4, <3>1
      <4> QED BY <1>2, <1>4, <4>1
    <3>3. RobOps'[i] = rob'[i].op
      BY <3>2 DEF RobOps
    <3>4. rob'[i].op = rob[n + i].op
      BY <1>2, <3>1, <3>2
    <3> QED BY <2>3, <3>2, <3>3, <3>4
  <2>5. ASSUME NEW i \in Stq, Drains(i, b)' PROVE FALSE
    <3>1. \E q \in 1 .. n : Touches(rob[q].op, b)
      BY <2>2, <2>5, NextDrains
    <3>2. \A q \in 1 .. n : q \in 1 .. (n + j) - 1
      BY <1>2
    <3> QED BY <2>3, <3>1, <3>2
  <2> QED BY <2>4, <2>5 DEF None
<1> QED BY <1>5 DEF AloneInv, Alone

-----------------------------------------------------------------------------
(* Memory answers with what the load must return.                          *)
AnswerTrue ==
  ~Cancelling /\ answer # NONE =>
    \A b \in BytesOf(ldq_pld[answer.entry]) : answer.data[b] = ldq_pld[answer.entry].data[b]

LEMMA RequestRead ==
  ASSUME StartTogether, NEW c, NEW h, Going(c, h), NEW g, LdqShape(g), RetiredSeen, TakenAnswered,
         RobTrue, MemInv, AloneInv, NONE \notin Ldq, Request # NONE, NEW b \in BytesOf(RequestPld(Request))
  PROVE  RequestPld(Request).data[b] = mem[b]
<1>1. /\ BufOK /\ RobShape /\ RobTyped /\ LdqFlags /\ RobLoads /\ workload \in Workloads
      /\ OffersInOrder /\ AnswersTaken
  BY DEF Going
<1>2. PICK q : q = Request
  OBVIOUS
<1>3. PICK op : op = RequestPld(q)
  OBVIOUS
<1>4. \/ q \in v_mem_not_req
      \/ q \notin v_mem_not_req /\ LoadsTaken > 0 /\ ~v_ldq_ack_flag(1)
  BY <1>2, RequestIs
<1>5. \E j \in 1 .. Len(rob) : rob[j].op = op /\ op.ld /\ Alone(j)
  <2>1. CASE q \in v_mem_not_req
    <3>1. q \in Ldq /\ Asks(q) /\ op = ldq_pld[q]
      BY <1>1, <1>3, <2>1 DEF v_mem_not_req, Asks, LdqFlags, RequestPld
    <3>2. PICK j \in 1 .. In : ~rob[j].done /\ rob[j].op = ldq_pld[q]
      BY <1>1, <3>1 DEF RobLoads
    <3>3. op.ld
      BY <1>1, <3>1 DEF RobLoads, Asks
    <3>4. j \in 1 .. Len(rob)
      <4>1. In = Len(rob) - Len(lsu_buf) /\ Len(rob) \in Nat /\ Len(lsu_buf) \in Nat
        BY <1>1, SeqType DEF In, BufOK, RobShape
      <4>2. PICK m : m = In
        OBVIOUS
      <4>3. m <= Len(rob) /\ j \in 1 .. m /\ m \in Int
        BY <4>1, <4>2
      <4> QED BY <4>1, <4>3
    <3>5. Alone(j)
      BY <3>2 DEF AloneInv
    <3> QED BY <3>1, <3>2, <3>3, <3>4, <3>5
  <2>2. CASE q \notin v_mem_not_req /\ LoadsTaken > 0 /\ ~v_ldq_ack_flag(1)
    <3>1. 1 \in 1 .. LoadsTaken
      <4>1. LoadsTaken \in 0 .. 2
        BY <1>1, TakenBounds
      <4> QED BY <2>2, <4>1
    <3>2. op = LduOffer[1]
      BY <1>3, <2>2 DEF RequestPld
    <3>3. /\ In + Pos(TRUE, 1) \in 1 .. Len(rob) /\ rob[In + Pos(TRUE, 1)].op = LduOffer[1]
          /\ LduOffer[1].ld = TRUE
      BY <1>1, <3>1, TakenLoads
    <3>4. Alone(In + Pos(TRUE, 1))
      BY <2>2, <3>1, EnterAlone
    <3> QED BY <3>2, <3>3, <3>4
  <2> QED BY <1>4, <2>1, <2>2
<1>6. PICK j \in 1 .. Len(rob) : rob[j].op = op /\ op.ld /\ Alone(j)
  BY <1>5
<1>7. b \in BytesOf(rob[j].op)
  BY <1>2, <1>3, <1>6
<1>8. MemTrue(b)
  <2>1. IsOp(rob[j].op)
    BY <1>1, <1>6 DEF RobTyped
  <2>2. b \in Bytes
    BY <1>1, <1>7, <2>1, OpBytes
  <2> QED BY <2>2 DEF MemInv
<1>9. rob[j].op.data[b] = mem[b]
  BY <1>6, <1>7, <1>8, AloneIs
<1> QED BY <1>2, <1>3, <1>6, <1>9

LEMMA NextAnswerTrue ==
  ASSUME StartTogether, NEW c, NEW h, Going(c, h), NEW g, LdqShape(g), RetiredSeen, TakenAnswered,
         RobTrue, MemInv, AloneInv, NONE \notin Ldq,
         NextLdqPld(LoadsTaken, Request), NEW drain, NextMemory(Request, drain, FALSE)
  PROVE  AnswerTrue'
<1>1. PICK a : a = answer'
  OBVIOUS
<1>2. PICK q : q = Request
  OBVIOUS
<1>3. CASE q = NONE
  <2>1. a = NONE
    BY <1>1, <1>2, <1>3 DEF NextMemory
  <2> QED BY <1>1, <2>1 DEF AnswerTrue
<1>4. CASE q # NONE
  <2>1. /\ a.entry = q /\ a.data = [b \in BytesOf(RequestPld(q)) |-> mem[b]]
    BY <1>1, <1>2, <1>4 DEF NextMemory
  <2>2. ldq_pld'[q] = RequestPld(q)
    BY <1>2, <1>4, RequestTyped DEF Going
  <2>3. ASSUME NEW b \in BytesOf(RequestPld(q)) PROVE a.data[b] = RequestPld(q).data[b]
    <3>1. RequestPld(q).data[b] = mem[b]
      BY <1>2, <1>4, <2>3, RequestRead
    <3> QED BY <2>1, <3>1
  <2>4. \A b \in BytesOf(ldq_pld'[a.entry]) : a.data[b] = ldq_pld'[a.entry].data[b]
    BY <2>1, <2>2, <2>3
  <2> QED BY <1>1, <2>4 DEF AnswerTrue
<1> QED BY <1>3, <1>4

-----------------------------------------------------------------------------
(* The store that answers a load.                                          *)
LEMMA BehindIs ==
  ASSUME NEW c, NEW h, StqShape(c, h), ~Cancelling, NEW i \in Stq, Off(i) < h
  PROVE  Behind(i) = h - 1 - Off(i) /\ Off(i) \in 0 .. h - 1 /\ h \in Nat /\ Off(i) \in Nat
<1> DEFINE d == STU_DEPTH
           rd == stq_rd_ptr
           wr == stq_wr_ptr
<1>1. d \in Nat \ {0} /\ rd \in 0 .. d - 1 /\ h \in 0 .. d /\ wr = Wrap(rd + h, d) /\ i \in 0 .. d - 1
  BY Depths DEF StqShape, Stq
<1>2. PICK o : o = Off(i)
  OBVIOUS
<1>3. o = Place(i, rd, d) /\ o < h
  BY <1>2 DEF Off
<1>4. Behind(i) = (wr + d - 1 - i) % d
  BY DEF Behind
<1> HIDE DEF d, rd, wr
<1>5. wr + d - 1 - i \in 0 .. 2 * d - 1 /\ wr \in 0 .. d - 1
  BY <1>1 DEF Wrap
<1>6. (wr + d - 1 - i) % d = Wrap(wr + d - 1 - i, d)
  BY <1>1, <1>5, WrapIsMod
<1>7. Wrap(wr + d - 1 - i, d) = h - 1 - o /\ o \in 0 .. h - 1
  BY <1>1, <1>3 DEF Wrap, Place
<1> QED BY <1>1, <1>2, <1>4, <1>6, <1>7

LEMMA YoungestIs ==
  ASSUME NEW c, NEW h, StqShape(c, h), ~Cancelling, NEW S \in SUBSET {i \in Stq : stq_en[i]}, S # {}
  PROVE  Youngest(S) \in S /\ \A i \in S : Off(i) <= Off(Youngest(S))
<1>1. \A i \in S : i \in Stq /\ Off(i) < h
  BY DEF StqShape
<1>2. \A i \in S : Behind(i) = h - 1 - Off(i) /\ Off(i) \in 0 .. h - 1 /\ Off(i) \in Nat
  BY <1>1, BehindIs
<1>3. h \in Nat
  BY Depths DEF StqShape
<1> DEFINE T == {Off(i) + 1 : i \in S}
<1>4. T \in SUBSET (1 .. h) /\ T # {}
  <2>1. ASSUME NEW i \in S PROVE Off(i) + 1 \in 1 .. h
    BY <1>2, <1>3
  <2> QED BY <2>1
<1>5. Max(T) \in T /\ \A t \in T : Max(T) >= t
  <2> HIDE DEF T
  <2> QED BY <1>3, <1>4, Greatest
<1>6. PICK y \in S : Max(T) = Off(y) + 1
  BY <1>5
<1>7. ASSUME NEW i \in S PROVE Off(i) <= Off(y)
  <2>1. Off(y) + 1 >= Off(i) + 1
    BY <1>5, <1>6
  <2> QED BY <1>2, <2>1
<1>8. ASSUME NEW i \in S PROVE Behind(y) <= Behind(i)
  <2>1. Behind(y) = h - 1 - Off(y) /\ Behind(i) = h - 1 - Off(i)
    BY <1>2
  <2> QED BY <1>2, <1>3, <1>7, <2>1
<1>9. Youngest(S) \in S /\ \A i \in S : Behind(Youngest(S)) <= Behind(i)
  BY <1>8 DEF Youngest
<1>10. ASSUME NEW i \in S PROVE Off(i) <= Off(Youngest(S))
  <2>1. Behind(Youngest(S)) = h - 1 - Off(Youngest(S)) /\ Behind(i) = h - 1 - Off(i)
    BY <1>2, <1>9
  <2>2. /\ Behind(Youngest(S)) <= Behind(i)
        /\ Off(Youngest(S)) \in Nat /\ Off(i) \in Nat
    BY <1>2, <1>9
  <2> QED BY <1>3, <2>1, <2>2
<1> QED BY <1>9, <1>10


(* What a load must return, if a store before it writes the byte last, and *)
(* if none does.                                                           *)
LEMMA ReadLast ==
  ASSUME RobTrue, NEW j \in 1 .. Len(rob), rob[j].op.ld, NEW b \in BytesOf(rob[j].op),
         IsSeq(rob), NEW q \in 1 .. j - 1, Touches(rob[q].op, b),
         \A i \in 1 .. j - 1 : i > q => ~Touches(rob[i].op, b)
  PROVE  rob[j].op.data[b] = rob[q].op.data[b]
<1>1. RobOps[j] = rob[j].op /\ \A i \in 1 .. j - 1 : RobOps[i] = rob[i].op
  <2>1. Len(rob) \in Nat
    BY SeqType
  <2>2. \A i \in 1 .. j - 1 : i \in 1 .. Len(rob)
    BY <2>1
  <2> QED BY <2>2 DEF RobOps
<1>2. ByteTrue(RobOps, j, b, arch[b])
  BY <1>1 DEF RobTrue, LoadsTrue
<1>3. CASE None(RobOps, j - 1, b) /\ RobOps[j].data[b] = arch[b]
  BY <1>1, <1>3 DEF None
<1>4. CASE \E k \in 1 .. j - 1 : Last(RobOps, j - 1, b, k) /\ RobOps[j].data[b] = RobOps[k].data[b]
  <2>1. PICK k \in 1 .. j - 1 : Last(RobOps, j - 1, b, k) /\ RobOps[j].data[b] = RobOps[k].data[b]
    BY <1>4
  <2>2. Touches(rob[k].op, b) /\ \A i \in 1 .. j - 1 : i > k => ~Touches(rob[i].op, b)
    BY <1>1, <2>1 DEF Last
  <2>3. ~(k > q) /\ ~(q > k)
    BY <2>2
  <2>4. k = q
    BY <2>3
  <2> QED BY <1>1, <2>1, <2>4
<1> QED BY <1>2, <1>3, <1>4 DEF ByteTrue

LEMMA ReadNone ==
  ASSUME RobTrue, NEW j \in 1 .. Len(rob), rob[j].op.ld, NEW b \in BytesOf(rob[j].op),
         IsSeq(rob), \A i \in 1 .. j - 1 : ~Touches(rob[i].op, b)
  PROVE  rob[j].op.data[b] = arch[b]
<1>1. RobOps[j] = rob[j].op /\ \A i \in 1 .. j - 1 : RobOps[i] = rob[i].op
  <2>1. Len(rob) \in Nat
    BY SeqType
  <2>2. \A i \in 1 .. j - 1 : i \in 1 .. Len(rob)
    BY <2>1
  <2> QED BY <2>2 DEF RobOps
<1>2. ByteTrue(RobOps, j, b, arch[b])
  BY <1>1 DEF RobTrue, LoadsTrue
<1>3. \A k \in 1 .. j - 1 : ~Last(RobOps, j - 1, b, k)
  BY <1>1 DEF Last
<1> QED BY <1>1, <1>2, <1>3 DEF ByteTrue

(* The stores of rob that are done have left the buffer.                   *)
LEMMA DoneEntered ==
  ASSUME BufOK, RobShape, NEW q \in DoneStores
  PROVE  q \in 1 .. In /\ q \in 1 .. Len(rob) /\ rob[q].op.ld = FALSE
<1>1. q \in 1 .. Len(rob) /\ rob[q].done /\ rob[q].op.ld = FALSE
  BY DEF DoneStores, RobShape
<1>2. PICK n, m, i : n = Len(rob) /\ m = Len(lsu_buf) /\ i = In
  OBVIOUS
<1>3. n \in Nat /\ m \in Nat /\ i = n - m /\ i >= 0 /\ \A k \in 1 .. m : ~rob[i + k].done
  BY <1>2, SeqType DEF BufOK, RobShape, In
<1>4. q \in 1 .. i
  <2>1. ASSUME q \notin 1 .. i PROVE FALSE
    <3>1. q - i \in 1 .. m /\ i + (q - i) = q
      BY <1>1, <1>2, <1>3, <2>1
    <3> QED BY <1>1, <1>3, <3>1
  <2> QED BY <2>1
<1> QED BY <1>1, <1>2, <1>4

LEMMA StoreAnswers ==
  ASSUME StartTogether, NEW c, NEW h, Going(c, h), RetiredSeen, RobTrue, MemInv,
         NEW k \in 1 .. LoadsTaken, v_ldq_ack_flag(k)
  PROVE  Met(k).data = LduOffer[k].data
<1>1. /\ BufOK /\ RobShape /\ RobTyped /\ StqTyped /\ workload \in Workloads /\ ~Cancelling
      /\ OffersInOrder /\ AnswersTaken /\ StqShape(c, h) /\ RobStores(c, h) /\ IsSeq(rob)
  BY DEF Going, RobShape
<1>2. PICK op, met : op = LduOffer[k] /\ met = Met(k)
  OBVIOUS
<1>3. PICK j, i0, p : i0 = In /\ p = Pos(TRUE, k) /\ j = i0 + p
  OBVIOUS
<1>4. k \in 1 .. Len(LduOffer) /\ OfferFacts(LduOffer, TRUE) /\ OfferFacts(StuOffer, FALSE)
  BY <1>1, TakenOffered, Zenon
<1>5. /\ j \in 1 .. Len(rob) /\ rob[j].op = op /\ op.ld = TRUE /\ i0 \in Nat /\ p \in 1 .. 2
      /\ IsOp(op) /\ Len(rob) \in Nat
  <2>1. /\ In + Pos(TRUE, k) \in 1 .. Len(rob)
        /\ rob[In + Pos(TRUE, k)].op = LduOffer[k] /\ LduOffer[k].ld = TRUE
    BY <1>1, TakenLoads
  <2>2. In \in Nat /\ Pos(TRUE, k) \in 1 .. 2
    BY <1>1, <1>4, OfferInRob, Zenon DEF OfferFacts
  <2>3. IsOp(LduOffer[k]) /\ Len(rob) \in Nat
    BY <1>1, OffersTyped, SeqType
  <2> QED BY <1>2, <1>3, <2>1, <2>2, <2>3, Zenon
<1>6. j - 1 = i0 + p - 1 /\ (\A q \in 1 .. i0 : q \in 1 .. j - 1)
      /\ (p = 2 => i0 + 1 \in 1 .. j - 1 /\ \A q \in 1 .. j - 1 : ~(q > i0 + 1))
  <2>1. i0 \in Nat /\ p \in 1 .. 2 /\ j = i0 + p
    BY <1>3, <1>5
  <2> QED BY <2>1
<1>7. met # NONE /\ met.strb = op.strb
  BY <1>2 DEF v_ldq_ack_flag
<1>8. ASSUME NEW b \in BytesOf(op), NEW q \in 1 .. j - 1, Touches(rob[q].op, b)
      PROVE  Older(k, q)
  <2>1. q \in 1 .. In + Pos(TRUE, k) - 1
    BY <1>3, <1>6, Zenon
  <2>2. b \in BytesOf(LduOffer[k])
    BY <1>2
  <2> QED BY <1>8, <2>1, <2>2, OlderStore
<1>9. CASE k = 1 /\ SameCycle
  <2>1. Behind1(1) /\ StuOffer[1] = rob[i0 + 1].op /\ StuOffer[1].addr = LduOffer[1].addr
    BY <1>1, <1>3, <1>4, <1>9, SameCycleIs, Zenon
  <2>2. met = rob[i0 + 1].op /\ met.addr = op.addr
    BY <1>2, <1>9, <2>1 DEF Met
  <2>3. p = 2 /\ i0 + 1 \in 1 .. Len(rob) /\ met.ld = FALSE
    BY <1>3, <1>9, <2>1, <2>2 DEF Behind1
  <2>4. IsOp(met) /\ BytesOf(met) = BytesOf(op)
    BY <1>1, <1>7, <2>2, <2>3 DEF RobTyped, BytesOf
  <2>5. ASSUME NEW b \in BytesOf(op) PROVE op.data[b] = met.data[b]
    <3>1. Touches(rob[i0 + 1].op, b)
      BY <2>2, <2>3, <2>4 DEF Touches
    <3>2. i0 + 1 \in 1 .. j - 1 /\ \A q \in 1 .. j - 1 : ~(q > i0 + 1)
      BY <1>6, <2>3
    <3>3. rob[j].op.data[b] = rob[i0 + 1].op.data[b]
      BY <1>1, <1>5, <3>1, <3>2, ReadLast
    <3> QED BY <1>5, <2>2, <3>3
  <2>6. op.data \in [BytesOf(op) -> Value] /\ met.data \in [BytesOf(op) -> Value]
    BY <1>1, <1>5, <2>4, OpBytes
  <2>7. op.data = met.data
    BY <2>5, <2>6
  <2> QED BY <1>2, <2>7
<1>10. CASE ~(k = 1 /\ SameCycle)
  <2>1. PICK S : S = SameAddr(op)
    OBVIOUS
  <2>2. PICK y : y = Youngest(S)
    OBVIOUS
  <2>3. S # {} /\ met = stq_pld[y]
    BY <1>2, <1>7, <1>10, <2>1, <2>2 DEF Met
  <2>4. S \in SUBSET {i \in Stq : stq_en[i]} /\ \A i \in S : stq_pld[i].addr = op.addr
    BY <2>1 DEF SameAddr
  <2>5. y \in S /\ \A i \in S : Off(i) <= Off(y)
    BY <1>1, <2>2, <2>3, <2>4, YoungestIs
  <2>6. y \in Stq /\ stq_en[y] /\ Off(y) < h /\ met.addr = op.addr
    BY <1>1, <2>3, <2>4, <2>5 DEF StqShape
  <2>7. IsOp(met) /\ met.ld = FALSE /\ BytesOf(met) = BytesOf(op)
    <3>1. y \in HeldStores
      BY <2>6 DEF HeldStores
    <3>2. IsOp(met) /\ ~met.ld
      BY <1>1, <2>3, <2>6, <3>1 DEF StqTyped
    <3>3. met.ld \in BOOLEAN
      BY <1>1, <3>2, OpKind
    <3> QED BY <1>7, <2>6, <3>2, <3>3 DEF BytesOf
  <2>8. /\ c \in Nat /\ h \in Nat /\ \A i \in Stq : Off(i) \in Nat
        /\ \A i, m \in Stq : Off(i) = Off(m) => i = m
    BY <1>1, OffIs
  <2>9. ASSUME NEW b \in BytesOf(op), NEW q \in 1 .. j - 1, Touches(rob[q].op, b)
        PROVE  /\ q \in DoneStores /\ rob[q].entry \in Stq /\ Off(rob[q].entry) >= c
               /\ Off(rob[q].entry) <= Off(y)
    <3>1. q \in DoneStores /\ rob[q].entry \in S
      BY <1>2, <1>8, <1>10, <2>1, <2>9 DEF Older
    <3>2. rob[q].entry \in Stq /\ Off(rob[q].entry) \in c .. h - 1
      BY <1>1, <3>1 DEF RobStores
    <3> QED BY <2>5, <2>8, <3>1, <3>2
  <2>10. ASSUME NEW b \in BytesOf(op) PROVE op.data[b] = met.data[b]
    <3>1. Touches(met, b)
      BY <2>7, <2>10 DEF Touches
    <3>2. CASE Off(y) >= c
      <4>1. Off(y) \in c .. h - 1
        BY <2>6, <2>8, <3>2
      <4>2. PICK q \in DoneStores : Off(rob[q].entry) = Off(y)
        BY <1>1, <4>1 DEF RobStores
      <4>3. rob[q].entry = y /\ rob[q].op = met
        BY <1>1, <2>3, <2>6, <2>8, <4>2 DEF RobStores
      <4>4. q \in 1 .. j - 1
        BY <1>1, <1>3, <1>6, DoneEntered
      <4>5. ASSUME NEW i \in 1 .. j - 1, i > q PROVE ~Touches(rob[i].op, b)
        <5>1. ASSUME Touches(rob[i].op, b) PROVE FALSE
          <6>1. i \in DoneStores /\ rob[i].entry \in Stq /\ Off(rob[i].entry) <= Off(y)
            BY <2>9, <5>1
          <6>2. Off(rob[q].entry) < Off(rob[i].entry)
            BY <1>1, <4>5, <6>1 DEF RobStores
          <6> QED BY <2>6, <2>8, <4>2, <6>1, <6>2
        <5> QED BY <5>1
      <4>6. rob[j].op.data[b] = rob[q].op.data[b]
        BY <1>1, <1>5, <3>1, <4>3, <4>4, <4>5, ReadLast
      <4> QED BY <1>5, <4>3, <4>6
    <3>3. CASE ~(Off(y) >= c)
      <4>1. \A q \in 1 .. j - 1 : ~Touches(rob[q].op, b)
        BY <2>6, <2>8, <2>9, <3>3
      <4>2. op.data[b] = arch[b]
        BY <1>1, <1>5, <4>1, ReadNone
      <4>3. Drains(y, b)
        <5>1. stq_commit[y]
          BY <1>1, <2>6, <2>8, <3>3 DEF StqShape
        <5> QED BY <2>3, <3>1, <5>1 DEF Drains
      <4>4. MemTrue(b)
        <5>1. b \in Bytes
          BY <1>1, <1>5, OpBytes
        <5> QED BY <5>1 DEF MemInv
      <4>5. PICK i \in Stq : LastDrained(i, b) /\ arch[b] = stq_pld[i].data[b]
        BY <2>6, <4>3, <4>4 DEF MemTrue
      <4>6. i \in S
        <5>1. Drains(i, b)
          BY <4>5 DEF LastDrained
        <5> QED BY <1>2, <2>1, <5>1, DrainsMet
      <4>7. i = y
        <5>1. Off(i) <= Off(y) /\ ~(Off(y) > Off(i))
          BY <2>5, <2>6, <4>3, <4>5, <4>6 DEF LastDrained
        <5> QED BY <2>6, <2>8, <5>1
      <4> QED BY <2>3, <4>2, <4>5, <4>7
    <3> QED BY <3>2, <3>3
  <2>11. op.data \in [BytesOf(op) -> Value] /\ met.data \in [BytesOf(op) -> Value]
    BY <1>1, <1>5, <2>7, OpBytes
  <2>12. op.data = met.data
    BY <2>10, <2>11
  <2> QED BY <1>2, <2>12
<1> QED BY <1>9, <1>10


-----------------------------------------------------------------------------
(* What is kept of the data, beside LsuInv and MemInv.                     *)
ReadInv == RobTrue /\ AloneInv /\ AnswerTrue

LEMMA InitRead == Init => ReadInv
<1> SUFFICES ASSUME Init PROVE ReadInv
  OBVIOUS
<1>1. rob = <<>> /\ lsu_buf = <<>> /\ answer = NONE
  BY DEF Init, BufferInit
<1>2. Len(rob) = 0 /\ In = 0
  BY <1>1 DEF In
<1>3. RobTrue
  BY <1>2 DEF RobTrue, LoadsTrue
<1>4. AloneInv
  BY <1>2 DEF AloneInv
<1> QED BY <1>1, <1>3, <1>4 DEF ReadInv, AnswerTrue

LEMMA NextRead ==
  ASSUME StartTogether
  PROVE  LsuInv /\ MemInv /\ ReadInv /\ RegularData /\ Regular' /\ LsuInv' /\ Next => ReadInv'
<1> SUFFICES ASSUME LsuInv, MemInv, ReadInv, RegularData, Regular', LsuInv', Next PROVE ReadInv'
  OBVIOUS
<1>1. /\ BufOK /\ RobShape /\ LdqFlags /\ RobLoads
      /\ workload \in Workloads /\ refill \in 0 .. REFILL
      /\ RobTyped /\ StqTyped /\ LdqTyped
      /\ arch \in [Bytes -> Value] /\ mem \in [Bytes -> Value]
  BY DEF LsuInv, DataInv
<1>2. PICK g : LdqShape(g)
  BY DEF LsuInv, LoadInv
<1>3. PICK c, h : StqShape(c, h) /\ RobStores(c, h)
  BY DEF LsuInv, StoreInv
<1>4. PICK accs, n, edge : Legal(accs, n, edge) /\ Parts(Arriving(accs), n, edge, edge \/ Cancelling)
  BY Steps
<1>5. PICK new : new = Arriving(accs)
  OBVIOUS
<1>6. PICK cancel \in BOOLEAN : cancel <=> edge \/ Cancelling
  OBVIOUS
<1>7. Parts(new, n, edge, cancel)
  <2>1. cancel = (edge \/ Cancelling)
    BY <1>4, <1>6 DEF Legal
  <2> QED BY <1>4, <1>5, <2>1
<1>8. /\ accs \in Batches /\ n \in Nat /\ edge \in BOOLEAN /\ LegalRetire(n) /\ LegalArrival(accs)
      /\ (edge => ~Cancelling)
  BY <1>4 DEF Legal
<1>9. /\ OffersInOrder /\ AnswersTaken /\ RetiredFit' /\ RetiredSeen /\ TakenAnswered
      /\ RobTrue /\ AloneInv /\ IsSeq(rob')
  BY DEF Regular, RegularData, ReadInv, LsuInv, RobShape
<1>10. Cancelling' <=> edge
  <2>1. refill' = IF edge THEN REFILL ELSE IF refill > 0 THEN refill - 1 ELSE 0
    BY <1>7 DEF Parts
  <2>2. REFILL \in Nat \ {0}
    BY LsuAssumption
  <2> QED BY <1>1, <1>8, <2>1, <2>2 DEF Cancelling
<1>11. CASE cancel
  <2>1. rob' = <<>> /\ lsu_buf' = <<>>
    BY <1>7, <1>11 DEF Parts, NextBuffer, NextRob
  <2>2. RobTrue' /\ AloneInv'
    <3>1. Len(rob') = 0 /\ In' = 0
      BY <2>1 DEF In
    <3> QED BY <3>1 DEF RobTrue, LoadsTrue, AloneInv
  <2>3. AnswerTrue'
    <3>1. CASE edge
      BY <1>10, <3>1 DEF AnswerTrue
    <3>2. CASE ~edge
      <4>1. Request = NONE
        BY <1>1, <1>2, <1>6, <1>11, <3>2, Quiet
      <4>2. answer' = NONE
        BY <1>7, <4>1 DEF Parts, NextMemory
      <4> QED BY <4>2 DEF AnswerTrue
    <3> QED BY <3>1, <3>2
  <2> QED BY <2>2, <2>3 DEF ReadInv
<1>12. CASE ~cancel
  <2>1. ~Cancelling /\ ~Cancelling' /\ edge = FALSE /\ cancel = FALSE
    BY <1>6, <1>8, <1>10, <1>12
  <2>2. Parts(new, n, FALSE, FALSE)
    BY <1>7, <2>1
  <2>3. Going(c, h)
    BY <1>1, <1>3, <1>9, <2>1 DEF Going
  <2>4. Fits(accs)
    BY <1>1, <1>8, ArrivalFits
  <2>5. ArrivedFacts(new, accs) /\ IsSeq(new)
    <3>1. ArrivedFacts(new, accs)
      BY <1>1, <1>5, <1>8, <2>4, ArrivingIs
    <3> QED BY <3>1 DEF ArrivedFacts
  <2>6. /\ NextBuffer(new, StoresTaken, LoadsTaken, FALSE) /\ NextRob(new, n, FALSE, FALSE)
        /\ NextLdqPld(LoadsTaken, Request) /\ NextMemory(Request, Drain, FALSE)
        /\ workload' = workload
    BY <2>2 DEF Parts
  <2>7. NewRob(new, n)
    <3>1. /\ n <= In /\ IsSeq(rob') /\ Len(rob') = Len(rob) - n + Len(new)
          /\ \A j \in 1 .. Len(rob) - n : Moved(j, n)
          /\ \A k \in 1 .. Len(new) :
               rob'[Len(rob) - n + k] = [op |-> new[k], done |-> FALSE, entry |-> NONE]
      BY <1>1, <1>2, <1>8, <2>1, <2>5, <2>6, NextRobIs
    <3>2. Len(new) \in Nat
      BY <2>5, SeqType
    <3> QED BY <1>8, <3>1, <3>2, Zenon DEF NewRob
  <2>8. NewBuf(new)
    BY <1>1, <2>5, <2>6, NextBufferIs
  <2>9. In' = In - n + Taken
    BY <1>1, <1>2, <1>8, <1>9, <2>1, <2>4, <2>5, <2>6, <2>7, <2>8, NextRobShape
  <2>10. PICK r, out : MemFacts(n, c, r, out)
    BY <1>1, <1>2, <1>3, <1>4, <1>6, <1>7, <1>9, <1>10, MemFactsHold
  <2>11. RobTrue'
    BY <1>1, <1>5, <1>8, <1>9, <2>4, <2>6, <2>7, NextRobTrue
  <2>12. AloneInv'
    BY <1>9, <2>3, <2>7, <2>8, <2>9, <2>10, NextAlone
  <2>13. AnswerTrue'
    BY <1>2, <1>9, <2>3, <2>6, NoneAssumption, NextAnswerTrue
  <2> QED BY <2>11, <2>12, <2>13 DEF ReadInv
<1> QED BY <1>11, <1>12

LEMMA StutterRead == ReadInv /\ UNCHANGED vars => ReadInv'
<1> SUFFICES ASSUME ReadInv, UNCHANGED vars PROVE ReadInv'
  OBVIOUS
<1>1. /\ rob' = rob /\ arch' = arch /\ lsu_buf' = lsu_buf /\ stq_commit' = stq_commit
      /\ stq_pld' = stq_pld /\ answer' = answer /\ ldq_pld' = ldq_pld /\ refill' = refill
  BY DEF vars, stq, ldq
<1>2. RobTrue'
  BY <1>1 DEF ReadInv, RobTrue, RobOps
<1>3. AloneInv'
  BY <1>1 DEF ReadInv, AloneInv, Alone, RobOps, Drains, In
<1>4. AnswerTrue'
  BY <1>1 DEF ReadInv, AnswerTrue, Cancelling
<1> QED BY <1>2, <1>3, <1>4 DEF ReadInv

(* What the run checks of the loads, from what is kept.                    *)
LEMMA LoadsHold ==
  ASSUME StartTogether, LsuInv, MemInv, ReadInv, RegularData, ~Cancelling
  PROVE  \A r \in LoadReports(FALSE) : r.data = r.op.data
<1>1. /\ BufOK /\ RobShape /\ LdqFlags /\ LdqTyped /\ workload \in Workloads
      /\ RobTrue /\ AnswerTrue /\ AnswersTaken /\ RetiredSeen
  BY DEF LsuInv, DataInv, ReadInv, RegularData, Regular
<1>2. PICK c, h : Going(c, h)
  BY DEF LsuInv, DataInv, StoreInv, RegularData, Regular, Going
<1>3. ASSUME NEW k \in 1 .. 2, v_ldq_ack_flag(k) PROVE Met(k).data = LduOffer[k].data
  <2>1. k \in 1 .. LoadsTaken
    <3>1. k <= LoadsTaken
      BY <1>1, <1>3 DEF AnswersTaken
    <3>2. LoadsTaken \in 0 .. 2
      BY <1>1, TakenBounds
    <3> QED BY <3>1, <3>2
  <2> QED BY <1>1, <1>2, <1>3, <2>1, StoreAnswers
<1>4. ASSUME answer # NONE PROVE answer.data = ldq_pld[answer.entry].data
  <2>1. PICK op : op = ldq_pld[answer.entry]
    OBVIOUS
  <2>2. IsOp(op) /\ answer.data \in Data(op)
    BY <1>1, <1>4, <2>1 DEF LdqTyped
  <2>3. op.data \in Data(op)
    BY <2>2 DEF IsOp
  <2>4. \A b \in BytesOf(op) : answer.data[b] = op.data[b]
    BY <1>1, <1>4, <2>1 DEF AnswerTrue
  <2>5. answer.data = op.data
    BY <2>2, <2>3, <2>4 DEF Data
  <2> QED BY <2>1, <2>5
<1>5. ASSUME NEW r \in LoadReports(FALSE) PROVE r.data = r.op.data
  <2>1. CASE \E k \in {j \in 1 .. 2 : v_ldq_ack_flag(j)} : r = [op |-> LduOffer[k], data |-> Met(k).data]
    BY <1>3, <2>1
  <2>2. CASE answer # NONE /\ r = [op |-> ldq_pld[answer.entry], data |-> answer.data]
    BY <1>4, <2>2
  <2> QED BY <1>5, <2>1, <2>2 DEF LoadReports, branch_ack_vld
<1> QED BY <1>5

(* For a program whose loads and stores that meet start at the same        *)
(* address, and as long as the five situations do not arise, a load        *)
(* reports what the operations before it in program order leave in its     *)
(* bytes, whether a store of the same cycle, a queued store or memory      *)
(* answers it, with whatever cancels, retires and drains meanwhile.        *)
THEOREM LsuLoads ==
  ASSUME StartTogether
  PROVE  Spec /\ []RegularData => []LoadsReadProgramOrder
<1>1. Init => MemInv /\ ReadInv
  BY InitMem, InitRead
<1>2. LsuInv /\ MemInv /\ Regular' /\ [Next]_vars => MemInv'
  BY NextMem, StutterMem DEF Regular
<1>3. LsuInv /\ MemInv /\ ReadInv /\ RegularData /\ Regular' /\ LsuInv' /\ [Next]_vars => ReadInv'
  BY NextRead, StutterRead
<1>4. LsuInv /\ MemInv /\ ReadInv /\ RegularData => LoadsReadProgramOrder
  BY LoadsHold DEF LoadsReadProgramOrder
<1>5. RegularData => Regular
  BY DEF RegularData
<1> QED BY <1>1, <1>2, <1>3, <1>4, <1>5, LsuInvariant, PTL DEF Spec

-----------------------------------------------------------------------------
(* The programs that keep clear of the five situations.  The unit holds no *)
(* more than the program lets it, counting what waits in the buffer.       *)
InBuf(ld) == Cardinality(Of(lsu_buf, ld))
Room ==
  /\ Cardinality(HeldStores) + InBuf(FALSE) <= workload.stores
  /\ Cardinality(HeldLoads) + InBuf(TRUE) <= workload.loads

(* Where an operation should be there is one.                              *)
NotNone == (\A k \in 1 .. Len(lsu_buf) : lsu_buf[k] # NONE) /\ (\A i \in HeldStores : stq_pld[i] # NONE)

(* Loads are compared with every retired store, or none is there while the *)
(* stores that a cancel hid are written, one per cycle, during the refill. *)
NoHidden == \A i \in Stq : stq_commit[i] => stq_en[i]
Emptying ==
  rob = <<>> /\ (\A i \in Ldq : ~ldq_en[i]) /\ Committed + REFILL <= workload.stores + refill
Seen == workload.stores <= REFILL + 1 => NoHidden \/ Emptying

ClearInv == Room /\ NotNone /\ Seen /\ RetiredFit

-----------------------------------------------------------------------------
(* A program with operations of one kind only.                             *)
LEMMA KindOf ==
  ASSUME workload \in Workloads, NEW op, IsOp(op)
  PROVE  /\ op.ld \in BOOLEAN
         /\ \E a \in OfKind(workload, op.ld) : a = [ld |-> op.ld, addr |-> op.addr, strb |-> op.strb]
<1>1. [ld |-> op.ld, addr |-> op.addr, strb |-> op.strb] \in workload.accesses
  BY DEF IsOp
<1>2. op.ld \in BOOLEAN
  BY OpKind
<1> QED BY <1>1, <1>2 DEF OfKind

LEMMA NoLoads ==
  ASSUME LsuInv, OfKind(workload, TRUE) = {}
  PROVE  /\ \A k \in 1 .. Len(lsu_buf) : lsu_buf[k].ld = FALSE
         /\ \A i \in Ldq : ~ldq_en[i]
<1>1. BufOK /\ RobShape /\ RobTyped /\ LdqTyped /\ RobLoads /\ workload \in Workloads
  BY DEF LsuInv, DataInv
<1>2. ASSUME NEW op, IsOp(op) PROVE op.ld = FALSE
  BY <1>1, <1>2, KindOf
<1>3. ASSUME NEW k \in 1 .. Len(lsu_buf) PROVE lsu_buf[k].ld = FALSE
  <2>1. In + k \in 1 .. Len(rob) /\ rob[In + k].op = lsu_buf[k]
    BY <1>1, PairInRob
  <2>2. IsOp(lsu_buf[k])
    BY <1>1, <2>1 DEF RobTyped
  <2> QED BY <1>2, <2>2
<1>4. ASSUME NEW i \in Ldq, ldq_en[i] PROVE FALSE
  <2>1. IsOp(ldq_pld[i]) /\ ldq_pld[i].ld
    BY <1>1, <1>4 DEF LdqTyped, RobLoads
  <2> QED BY <1>2, <2>1
<1> QED BY <1>3, <1>4

LEMMA NoStores ==
  ASSUME LsuInv, OfKind(workload, FALSE) = {}
  PROVE  (\A k \in 1 .. Len(lsu_buf) : lsu_buf[k].ld = TRUE) /\ HeldStores = {}
<1>1. BufOK /\ RobShape /\ RobTyped /\ StqTyped /\ workload \in Workloads
  BY DEF LsuInv, DataInv
<1>2. ASSUME NEW op, IsOp(op) PROVE op.ld = TRUE
  BY <1>1, <1>2, KindOf
<1>3. ASSUME NEW k \in 1 .. Len(lsu_buf) PROVE lsu_buf[k].ld = TRUE
  <2>1. In + k \in 1 .. Len(rob) /\ rob[In + k].op = lsu_buf[k]
    BY <1>1, PairInRob
  <2>2. IsOp(lsu_buf[k])
    BY <1>1, <2>1 DEF RobTyped
  <2> QED BY <1>2, <2>2
<1>4. ASSUME NEW i \in HeldStores PROVE FALSE
  <2>1. IsOp(stq_pld[i]) /\ ~stq_pld[i].ld
    BY <1>1, <1>4 DEF StqTyped, HeldStores
  <2> QED BY <1>2, <2>1
<1> QED BY <1>3, <1>4

(* A kind of which the buffer has nothing is not offered.                  *)
LEMMA NotOffered ==
  ASSUME BufOK
  PROVE  /\ (\A k \in 1 .. Len(lsu_buf) : lsu_buf[k].ld = FALSE) =>
              Len(LduOffer) = 0 /\ LduOffer = <<>> /\ LoadsTaken = 0
         /\ (\A k \in 1 .. Len(lsu_buf) : lsu_buf[k].ld = TRUE) =>
              Len(StuOffer) = 0 /\ StuOffer = <<>> /\ StoresTaken = 0
<1>1. Len(LduOffer) \in Nat /\ Len(StuOffer) \in Nat
      /\ (LduOffer = <<>> <=> Len(LduOffer) = 0) /\ (StuOffer = <<>> <=> Len(StuOffer) = 0)
      /\ LoadsTaken \in 0 .. Len(LduOffer) /\ StoresTaken \in 0 .. Len(StuOffer)
  BY OffersAre, TakenBounds DEF OfferFacts
<1>2. /\ OfferFacts(StuOffer, FALSE) /\ OfferFacts(LduOffer, TRUE)
  BY OffersAre
<1>3. ASSUME NEW s, NEW ld, OfferFacts(s, ld), Len(s) \in Nat, Len(s) # 0
      PROVE  \E k \in 1 .. Len(lsu_buf) : lsu_buf[k].ld = ld
  <2>1. Pos(ld, 1) \in 1 .. 2 /\ Pos(ld, 1) <= Len(lsu_buf) /\ lsu_buf[Pos(ld, 1)].ld = ld
    BY <1>3 DEF OfferFacts
  <2>2. Len(lsu_buf) \in Nat
    BY SeqType DEF BufOK
  <2> QED BY <2>1, <2>2
<1>4. Len(LduOffer) # 0 => \E k \in 1 .. Len(lsu_buf) : lsu_buf[k].ld = TRUE
  BY <1>1, <1>2, <1>3
<1>5. Len(StuOffer) # 0 => \E k \in 1 .. Len(lsu_buf) : lsu_buf[k].ld = FALSE
  BY <1>1, <1>2, <1>3
<1> QED BY <1>1, <1>4, <1>5

(* With room, an operation that waits is offered as soon as the one before *)
(* it is.                                                                  *)
LEMMA Waits ==
  ASSUME BufOK, NEW ld \in BOOLEAN, NEW k \in 1 .. Len(lsu_buf), lsu_buf[k].ld = ld
  PROVE  InBuf(ld) \in Nat /\ InBuf(ld) >= 1
<1> DEFINE b == Len(lsu_buf)
<1>1. b \in Nat
  BY SeqType DEF BufOK
<1> HIDE DEF b
<1>2. IsFiniteSet(1 .. b)
  BY <1>1, FS_Interval
<1>3. IsFiniteSet(Of(lsu_buf, ld)) /\ k \in Of(lsu_buf, ld)
  BY <1>2, FS_Subset DEF Of, b
<1>4. Cardinality(Of(lsu_buf, ld)) \in Nat /\ Cardinality(Of(lsu_buf, ld)) # 0
  BY <1>3, FS_CardinalityType, FS_EmptySet
<1> QED BY <1>4 DEF InBuf

LEMMA BufCounts ==
  ASSUME BufOK, NEW ld \in BOOLEAN
  PROVE  IsFiniteSet(Of(lsu_buf, ld)) /\ InBuf(ld) \in Nat
<1> DEFINE b == Len(lsu_buf)
<1>1. b \in Nat
  BY SeqType DEF BufOK
<1> HIDE DEF b
<1>2. IsFiniteSet(1 .. b)
  BY <1>1, FS_Interval
<1>3. IsFiniteSet(Of(lsu_buf, ld))
  BY <1>2, FS_Subset DEF Of, b
<1> QED BY <1>3, FS_CardinalityType DEF InBuf

LEMMA OffersKept ==
  ASSUME LsuInv, Room, RoomFor(workload)
  PROVE  OffersInOrder
<1>1. BufOK /\ RobShape
  BY DEF LsuInv
<1>2. PICK g : LdqShape(g)
  BY DEF LsuInv, LoadInv
<1>3. PICK c, h : StqShape(c, h)
  BY DEF LsuInv, StoreInv
<1>4. PICK b : b = Len(lsu_buf)
  OBVIOUS
<1>5. b \in Nat
  BY <1>1, <1>4, SeqType DEF BufOK
<1>6. ASSUME b > 1 PROVE ~Cancelling
  <2>1. PICK r : r = Len(rob)
    OBVIOUS
  <2>2. r - b >= 0 /\ (Cancelling => r = 0)
    BY <1>1, <1>4, <2>1, SeqType DEF RobShape, In
  <2> QED BY <1>5, <1>6, <2>2
<1>7. Cardinality(HeldLoads) = g /\ Cardinality(HeldStores) = h
  BY <1>2, <1>3, LoadsHeld, StoresHeld
<1>8. /\ g \in Nat /\ ldu_credit_cnt = LDU_DEPTH - g
      /\ h \in Nat /\ stu_credit_cnt \in Int
      /\ ~Cancelling => STU_DEPTH - stu_credit_cnt - h \in {0, 1}
  BY <1>2, <1>3, Depths DEF LdqShape, StqShape
<1>9. /\ workload.stores <= STU_DEPTH - 2 /\ workload.loads <= LDU_DEPTH - 1
      /\ workload.stores \in Nat /\ workload.loads \in Nat
  BY LsuAssumption DEF RoomFor, LsuInv, DataInv
<1>10. PICK f \in BOOLEAN, s \in BOOLEAN :
         b > 1 => lsu_buf[1].ld = f /\ lsu_buf[2].ld = s /\ 1 \in 1 .. Len(lsu_buf)
                  /\ (First(TRUE) <=> f) /\ (Second(TRUE) <=> s)
                  /\ (First(FALSE) <=> ~f) /\ (Second(FALSE) <=> ~s)
  <2>1. ASSUME b > 1 PROVE lsu_buf[1].ld \in BOOLEAN /\ lsu_buf[2].ld \in BOOLEAN /\ 1 \in 1 .. Len(lsu_buf)
    BY <1>1, <1>4, <1>5, <2>1 DEF BufOK
  <2>2. CASE b > 1
    <3>1. b >= 1 /\ b >= 2
      BY <1>5, <2>2
    <3> QED BY <1>4, <2>1, <2>2, <3>1 DEF First, Second
  <2>3. CASE ~(b > 1)
    BY <2>3
  <2> QED BY <2>2, <2>3
<1>11. PICK nl, ns : nl = InBuf(TRUE) /\ ns = InBuf(FALSE)
  OBVIOUS
<1>12. nl \in Nat /\ ns \in Nat /\ h + ns <= workload.stores /\ g + nl <= workload.loads
  BY <1>1, <1>7, <1>11, BufCounts DEF Room
<1>13. /\ b > 1 /\ f = TRUE => nl >= 1
       /\ b > 1 /\ f = FALSE => ns >= 1
  BY <1>1, <1>10, <1>11, Waits
<1>14. ASSUME b > 1, f = TRUE, s = FALSE PROVE LduOffer # <<>>
  <2>1. ldu_credit_cnt > 1
    BY <1>8, <1>9, <1>12, <1>13, <1>14, Depths
  <2>2. Num(TRUE) = 1
    <3>1. First(TRUE) /\ ~Second(TRUE)
      BY <1>10, <1>14
    <3> QED BY <3>1 DEF Num
  <2>3. Len(LduOffer) = 1
    BY <1>1, <2>1, <2>2, OffersAre
  <2> QED BY <1>1, <2>3, OffersAre DEF OfferFacts
<1>15. ASSUME b > 1, f = FALSE, s = TRUE PROVE StuOffer # <<>>
  <2>1. stu_credit_cnt > 1
    BY <1>6, <1>8, <1>9, <1>12, <1>13, <1>15, Depths
  <2>2. Num(FALSE) = 1
    <3>1. First(FALSE) /\ ~Second(FALSE)
      BY <1>10, <1>15
    <3> QED BY <3>1 DEF Num
  <2>3. Len(StuOffer) = 1
    BY <1>1, <2>1, <2>2, OffersAre
  <2> QED BY <1>1, <2>3, OffersAre DEF OfferFacts
<1> QED BY <1>4, <1>10, <1>14, <1>15 DEF OffersInOrder

(* Two loads offered together: what they meet are stores of the queue.     *)
Pair(k) == k \in 1 .. 2 /\ LduOffer[k].ld = TRUE /\ IsOp(LduOffer[k])
           /\ Met(k) = IF SameAddr(LduOffer[k]) = {} THEN NONE ELSE stq_pld[Youngest(SameAddr(LduOffer[k]))]
LEMMA PairMeets ==
  ASSUME LsuInv, Len(LduOffer) = 2
  PROVE  Pair(1) /\ Pair(2) /\ ~SameCycle
<1>1. BufOK /\ RobShape /\ RobTyped
  BY DEF LsuInv, DataInv
<1>2. Len(StuOffer) = 0 /\ StuOffer = <<>>
  <2>1. Len(StuOffer) \in 0 .. 2 /\ Len(StuOffer) + Len(LduOffer) <= 2
    BY <1>1, TakenBounds
  <2>2. StuOffer = <<>> <=> Len(StuOffer) = 0
    BY <1>1, OffersAre DEF OfferFacts
  <2> QED BY <2>1, <2>2
<1>3. ~SameCycle
  BY <1>2 DEF SameCycle
<1>4. ASSUME NEW k \in 1 .. 2 PROVE LduOffer[k].ld = TRUE /\ IsOp(LduOffer[k])
  <2>1. k \in 1 .. Len(LduOffer)
    OBVIOUS
  <2>2. OfferFacts(LduOffer, TRUE)
    BY <1>1, OffersAre
  <2>3. In + Pos(TRUE, k) \in 1 .. Len(rob) /\ rob[In + Pos(TRUE, k)].op = LduOffer[k] /\ LduOffer[k].ld = TRUE
    BY <1>1, <2>1, <2>2, OfferInRob
  <2> QED BY <1>1, <2>3 DEF RobTyped
<1>5. ASSUME NEW k \in 1 .. 2
      PROVE  Met(k) = IF SameAddr(LduOffer[k]) = {} THEN NONE ELSE stq_pld[Youngest(SameAddr(LduOffer[k]))]
  BY <1>3 DEF Met
<1>6. ASSUME NEW k \in 1 .. 2 PROVE Pair(k)
  BY <1>4, <1>5 DEF Pair
<1>7. 1 \in 1 .. 2 /\ 2 \in 1 .. 2
  OBVIOUS
<1> QED BY <1>3, <1>6, <1>7

(* A store that loads are compared with is one of the program.             *)
LEMMA MetStore ==
  ASSUME LsuInv, NEW ld, SameAddr(ld) # {}, ~Cancelling
  PROVE  /\ Youngest(SameAddr(ld)) \in SameAddr(ld)
         /\ Youngest(SameAddr(ld)) \in HeldStores
         /\ IsOp(stq_pld[Youngest(SameAddr(ld))]) /\ stq_pld[Youngest(SameAddr(ld))].ld = FALSE
         /\ stq_pld[Youngest(SameAddr(ld))].addr = ld.addr
<1>1. PICK c, h : StqShape(c, h)
  BY DEF LsuInv, StoreInv
<1>2. SameAddr(ld) \in SUBSET {i \in Stq : stq_en[i]}
  BY DEF SameAddr
<1>3. Youngest(SameAddr(ld)) \in SameAddr(ld)
  BY <1>1, <1>2, YoungestIs
<1>4. PICK y : y = Youngest(SameAddr(ld))
  OBVIOUS
<1>5. y \in Stq /\ stq_en[y] /\ stq_pld[y].addr = ld.addr
  BY <1>3, <1>4 DEF SameAddr
<1>6. y \in HeldStores
  BY <1>5 DEF HeldStores
<1>7. StqTyped /\ workload \in Workloads
  BY DEF LsuInv, DataInv
<1>8. IsOp(stq_pld[y]) /\ ~stq_pld[y].ld
  BY <1>5, <1>6, <1>7 DEF StqTyped
<1>9. stq_pld[y].ld = FALSE
  BY <1>7, <1>8, OpKind
<1> QED BY <1>3, <1>4, <1>5, <1>6, <1>8, <1>9

(* If a store answers one of two loads, the other is answered or waits for *)
(* none.                                                                   *)
LEMMA PairAnswered ==
  ASSUME LsuInv, SizesAgree(workload), ~Cancelling, Len(LduOffer) = 2,
         NEW j \in 1 .. 2, NEW k \in 1 .. 2, v_ldq_ack_flag(j), Met(k) # NONE
  PROVE  v_ldq_ack_flag(k)
<1>1. Pair(j) /\ Pair(k)
  BY PairMeets
<1>2. PICK a, b : a = LduOffer[j] /\ b = LduOffer[k]
  OBVIOUS
<1>3. /\ a.ld = TRUE /\ IsOp(a) /\ b.ld = TRUE /\ IsOp(b)
      /\ Met(j) = IF SameAddr(a) = {} THEN NONE ELSE stq_pld[Youngest(SameAddr(a))]
      /\ Met(k) = IF SameAddr(b) = {} THEN NONE ELSE stq_pld[Youngest(SameAddr(b))]
  BY <1>1, <1>2 DEF Pair
<1>4. Met(j) # NONE /\ Met(j).strb = a.strb
  BY <1>2 DEF v_ldq_ack_flag
<1>5. SameAddr(a) # {} /\ SameAddr(b) # {}
  BY <1>3, <1>4
<1>6. PICK s, t : s = stq_pld[Youngest(SameAddr(a))] /\ t = stq_pld[Youngest(SameAddr(b))]
  OBVIOUS
<1>7. /\ IsOp(s) /\ s.ld = FALSE /\ s.addr = a.addr
      /\ IsOp(t) /\ t.ld = FALSE /\ t.addr = b.addr
  BY <1>5, <1>6, MetStore
<1>8. Met(j) = s /\ Met(k) = t
  BY <1>3, <1>5, <1>6
<1>9. t.strb = b.strb
  <2>1. CASE a.addr = b.addr /\ a.strb = b.strb
    <3>1. SameAddr(a) = SameAddr(b)
      BY <2>1 DEF SameAddr
    <3> QED BY <1>4, <1>6, <1>8, <2>1, <3>1
  <2>2. CASE ~(a.addr = b.addr /\ a.strb = b.strb)
    <3> DEFINE A(op) == [ld |-> op.ld, addr |-> op.addr, strb |-> op.strb]
    <3>1. workload \in Workloads
      BY DEF LsuInv, DataInv
    <3>2. A(a) \in OfKind(workload, TRUE) /\ A(b) \in OfKind(workload, TRUE)
          /\ A(s) \in OfKind(workload, FALSE) /\ A(t) \in OfKind(workload, FALSE)
      BY <1>3, <1>7, <3>1, KindOf
    <3>3. A(a) # A(b)
      BY <2>2
    <3>4. A(s).addr = A(a).addr /\ A(s).strb = A(a).strb /\ A(t).addr = A(b).addr
      BY <1>4, <1>7, <1>8
    <3>5. A(t).strb = t.strb /\ A(b).strb = b.strb
      OBVIOUS
    <3> HIDE DEF A
    <3>6. A(t).strb = A(b).strb
      BY <3>2, <3>3, <3>4 DEF SizesAgree
    <3> QED BY <3>5, <3>6
  <2> QED BY <2>1, <2>2
<1>10. k <= Len(LduOffer)
  OBVIOUS
<1> QED BY <1>2, <1>8, <1>9, <1>10 DEF v_ldq_ack_flag

(* A load that is offered and meets a store meets an operation.            *)
LEMMA MeetsOne ==
  ASSUME LsuInv, NotNone, ~Cancelling, NEW k \in 1 .. Len(LduOffer), Meets(k)
  PROVE  Met(k) # NONE
<1>1. BufOK
  BY DEF LsuInv
<1>2. CASE k = 1 /\ SameCycle
  <2>1. StuOffer # <<>>
    BY <1>2 DEF SameCycle
  <2>2. Len(StuOffer) \in 0 .. 2 /\ (StuOffer = <<>> <=> Len(StuOffer) = 0) /\ OfferFacts(StuOffer, FALSE)
    BY <1>1, TakenBounds, OffersAre DEF OfferFacts
  <2>3. 1 \in 1 .. Len(StuOffer)
    BY <2>1, <2>2
  <2>4. PICK p, b : p = Pos(FALSE, 1) /\ b = Len(lsu_buf)
    OBVIOUS
  <2>5. p \in 1 .. 2 /\ p <= b /\ StuOffer[1] = lsu_buf[p] /\ b \in Nat
    BY <1>1, <2>2, <2>3, <2>4, SeqType DEF OfferFacts, BufOK
  <2>6. p \in 1 .. b
    BY <2>5
  <2>7. StuOffer[1] # NONE
    BY <2>4, <2>5, <2>6 DEF NotNone
  <2>8. Met(1) = StuOffer[1]
    BY <1>2 DEF Met
  <2> QED BY <1>2, <2>7, <2>8
<1>3. CASE ~(k = 1 /\ SameCycle)
  <2>1. SameAddr(LduOffer[k]) # {}
    BY <1>3 DEF Meets
  <2>2. Youngest(SameAddr(LduOffer[k])) \in HeldStores
    BY <2>1, MetStore
  <2>3. Met(k) = stq_pld[Youngest(SameAddr(LduOffer[k]))]
    BY <1>3, <2>1 DEF Met
  <2> QED BY <2>2, <2>3 DEF NotNone
<1> QED BY <1>2, <1>3

(* With this the situations are not there.                                 *)
LEMMA ManyRegular ==
  ASSUME LsuInv, ClearInv, RoomFor(workload), SizesAgree(workload)
  PROVE  Regular /\ TakenAnswered /\ (workload.stores <= REFILL + 1 => RetiredSeen)
<1>1. BufOK /\ RobShape
  BY DEF LsuInv
<1>2. Room /\ NotNone /\ RetiredFit /\ (workload.stores <= REFILL + 1 => NoHidden \/ Emptying)
  BY DEF ClearInv, Seen
<1>3. LoadsTaken \in 0 .. Len(LduOffer) /\ Len(LduOffer) \in 0 .. 2 /\ (LduOffer = <<>> <=> Len(LduOffer) = 0)
  BY <1>1, TakenBounds, OffersAre DEF OfferFacts
<1>4. rob = <<>> => Len(LduOffer) = 0
  <2> SUFFICES ASSUME rob = <<>> PROVE Len(LduOffer) = 0
    OBVIOUS
  <2>1. PICK r, b, s, l : r = Len(rob) /\ b = Len(lsu_buf) /\ s = Len(StuOffer) /\ l = Len(LduOffer)
    OBVIOUS
  <2>2. r = 0 /\ r - b >= 0 /\ b \in Nat
    BY <1>1, <2>1, SeqType DEF RobShape, In, BufOK
  <2>3. s \in 0 .. 2 /\ l \in 0 .. 2 /\ s + l <= b
    BY <1>1, <2>1, TakenBounds
  <2>4. l = 0
    BY <2>2, <2>3
  <2> QED BY <2>1, <2>4
<1>5. Len(LduOffer) # 0 => ~Cancelling
  BY <1>1, <1>4 DEF RobShape
<1>6. OffersInOrder
  BY <1>2, OffersKept
<1>7. ASSUME NEW k \in 1 .. 2, v_ldq_ack_flag(k) PROVE k <= LoadsTaken
  <2>1. k <= Len(LduOffer) /\ Met(k) # NONE
    BY <1>7 DEF v_ldq_ack_flag
  <2>2. ~Cancelling
    BY <1>3, <1>5, <2>1
  <2>3. ~Blocked(k)
    BY <1>7 DEF Blocked
  <2>4. CASE k = 1
    <3>1. ~Blocked(1) /\ 1 <= Len(LduOffer)
      BY <2>1, <2>3, <2>4
    <3>2. LoadsTaken >= 1
      BY <1>3, <3>1 DEF LoadsTaken
    <3> QED BY <2>4, <3>2, <1>3
  <2>5. CASE k = 2
    <3>1. Len(LduOffer) = 2
      <4>1. PICK l : l = Len(LduOffer)
        OBVIOUS
      <4>2. l \in 0 .. 2 /\ 2 <= l
        BY <1>3, <2>1, <2>5, <4>1
      <4>3. l = 2
        BY <4>2
      <4> QED BY <4>1, <4>3
    <3>2. Met(1) # NONE => v_ldq_ack_flag(1)
      BY <1>2, <1>7, <2>2, <3>1, PairAnswered
    <3>3. ~Blocked(1)
      BY <3>2 DEF Blocked
    <3>4. LoadsTaken = Len(LduOffer)
      BY <2>3, <2>5, <3>3 DEF LoadsTaken
    <3> QED BY <2>5, <3>1, <3>4
  <2> QED BY <2>4, <2>5
<1>8. ASSUME NEW k \in 1 .. LoadsTaken, Meets(k) PROVE v_ldq_ack_flag(k)
  <2>1. PICK l : l = Len(LduOffer) /\ l \in 0 .. 2 /\ LoadsTaken \in 0 .. l
    BY <1>3
  <2>2. k \in 1 .. l /\ (k = 1 \/ (k = 2 /\ l = 2 /\ LoadsTaken = 2)) /\ l # 0
    BY <2>1
  <2>3. ~Cancelling /\ Met(k) # NONE /\ k <= Len(LduOffer)
    BY <1>2, <1>5, <1>8, <2>1, <2>2, MeetsOne
  <2>4. ~Blocked(1)
    BY <2>1, <2>2 DEF LoadsTaken
  <2>5. CASE k = 1
    BY <2>3, <2>4, <2>5 DEF Blocked
  <2>6. CASE k = 2
    <3>1. l = 2 /\ LoadsTaken = 2
      BY <2>2, <2>6
    <3>2. ~Blocked(2)
      BY <2>4, <3>1 DEF LoadsTaken
    <3>3. CASE Met(1) = NONE
      BY <2>3, <2>6, <3>2, <3>3 DEF Blocked
    <3>4. CASE Met(1) # NONE
      <4>1. v_ldq_ack_flag(1)
        BY <2>1, <2>4, <3>1, <3>4 DEF Blocked
      <4> QED BY <1>2, <2>1, <2>3, <2>6, <3>1, <4>1, PairAnswered
    <3> QED BY <3>3, <3>4
  <2> QED BY <2>2, <2>5, <2>6
<1>9. ASSUME workload.stores <= REFILL + 1 PROVE RetiredSeen
  <2>1. NoHidden \/ Emptying
    BY <1>2, <1>9
  <2>2. CASE NoHidden
    BY <2>2 DEF NoHidden, RetiredSeen
  <2>3. CASE Emptying
    <3>1. Len(LduOffer) = 0
      BY <1>4, <2>3 DEF Emptying
    <3> QED BY <3>1 DEF RetiredSeen
  <2> QED BY <2>1, <2>2, <2>3
<1> QED BY <1>2, <1>6, <1>7, <1>8, <1>9 DEF Regular, AnswersTaken, TakenAnswered

LEMMA OneKindRegular ==
  ASSUME LsuInv, RetiredFit, OfKind(workload, TRUE) = {} \/ OfKind(workload, FALSE) = {}
  PROVE  RegularData
<1>1. BufOK /\ RobShape
  BY DEF LsuInv
<1>2. PICK b : b = Len(lsu_buf) /\ b \in Nat
  BY <1>1, SeqType DEF BufOK
<1>3. CASE OfKind(workload, TRUE) = {}
  <2>1. \A k \in 1 .. b : lsu_buf[k].ld = FALSE
    BY <1>2, <1>3, NoLoads
  <2>2. Len(LduOffer) = 0 /\ LoadsTaken = 0
    BY <1>1, <1>2, <2>1, NotOffered
  <2>3. ASSUME b > 1 PROVE lsu_buf[1].ld = FALSE /\ lsu_buf[2].ld = FALSE
    BY <1>2, <2>1, <2>3
  <2>4. OffersInOrder
    BY <1>2, <2>3 DEF OffersInOrder
  <2>5. AnswersTaken
    BY <2>2 DEF AnswersTaken, v_ldq_ack_flag
  <2>6. RetiredSeen /\ TakenAnswered
    BY <2>2 DEF RetiredSeen, TakenAnswered
  <2> QED BY <2>4, <2>5, <2>6 DEF RegularData, Regular
<1>4. CASE OfKind(workload, FALSE) = {}
  <2>1. (\A k \in 1 .. b : lsu_buf[k].ld = TRUE) /\ HeldStores = {}
    BY <1>2, <1>4, NoStores
  <2>2. StuOffer = <<>>
    BY <1>1, <1>2, <2>1, NotOffered
  <2>3. ASSUME b > 1 PROVE lsu_buf[1].ld = TRUE /\ lsu_buf[2].ld = TRUE
    BY <1>2, <2>1, <2>3
  <2>4. OffersInOrder
    BY <1>2, <2>3 DEF OffersInOrder
  <2>5. ~SameCycle
    BY <2>2 DEF SameCycle
  <2>6. \A ld : SameAddr(ld) = {}
    BY <2>1 DEF SameAddr, HeldStores
  <2>7. \A k : Met(k) = NONE
    BY <2>5, <2>6 DEF Met
  <2>8. AnswersTaken
    BY <2>7 DEF AnswersTaken, v_ldq_ack_flag
  <2>9. TakenAnswered
    BY <2>5, <2>6 DEF TakenAnswered, Meets
  <2>10. RetiredSeen
    BY <2>1 DEF RetiredSeen, HeldStores
  <2> QED BY <2>4, <2>8, <2>9, <2>10 DEF RegularData, Regular
<1> QED BY <1>3, <1>4

LEMMA ClearRegular ==
  ASSUME AllClear
  PROVE  LsuInv /\ ClearInv => Regular /\ (DrainInTime => RegularData)
<1> SUFFICES ASSUME LsuInv, ClearInv PROVE Regular /\ (DrainInTime => RegularData)
  OBVIOUS
<1>1. Clear(workload) /\ RetiredFit /\ workload \in Workloads
  BY DEF AllClear, LsuInv, DataInv, ClearInv
<1>2. CASE OfKind(workload, TRUE) = {} \/ OfKind(workload, FALSE) = {}
  <2>1. RegularData
    BY <1>1, <1>2, OneKindRegular
  <2> QED BY <2>1 DEF RegularData
<1>3. CASE ~(OfKind(workload, TRUE) = {} \/ OfKind(workload, FALSE) = {})
  <2>1. Regular /\ TakenAnswered /\ (workload.stores <= REFILL + 1 => RetiredSeen)
    BY <1>1, <1>3, ManyRegular DEF Clear
  <2>2. DrainInTime => workload.stores <= REFILL + 1
    BY <1>1, <1>3 DEF DrainInTime
  <2> QED BY <2>1, <2>2 DEF RegularData
<1> QED BY <1>2, <1>3

-----------------------------------------------------------------------------
LEMMA UpTo ==
  ASSUME NEW n \in Nat
  PROVE  IsFiniteSet(1 .. n) /\ Cardinality(1 .. n) = n
<1>1. IsFiniteSet(1 .. n) /\ Cardinality(1 .. n) = IF 1 > n THEN 0 ELSE n - 1 + 1
  BY FS_Interval
<1> QED BY <1>1

(* A set of places and, before it, l places taken.                         *)
LEMMA ShiftCount ==
  ASSUME NEW m \in Nat, NEW S \in SUBSET (1 .. m), NEW t \in Nat, NEW n \in Nat, NEW T \in SUBSET (1 .. n),
         \A k \in S : k + t \in T, NEW l \in Nat, NEW P, \A k \in 1 .. l : P[k] \in 1 .. t /\ P[k] \in T,
         \A j, k \in 1 .. l : P[j] = P[k] => j = k
  PROVE  Cardinality(S) + l <= Cardinality(T)
<1> DEFINE A == {k + t : k \in S}
           B == {P[k] : k \in 1 .. l}
<1>1. IsFiniteSet(S) /\ IsFiniteSet(T) /\ IsFiniteSet(1 .. l) /\ Cardinality(1 .. l) = l
  <2>1. IsFiniteSet(1 .. m) /\ IsFiniteSet(1 .. n) /\ IsFiniteSet(1 .. l) /\ Cardinality(1 .. l) = l
    BY UpTo
  <2> QED BY <2>1, FS_Subset
<1>2. IsFiniteSet(A) /\ Cardinality(A) = Cardinality(S)
  <2> DEFINE f == [k \in S |-> k + t]
  <2>1. f \in [S -> A] /\ \A k \in S : f[k] = k + t
    OBVIOUS
  <2>2. ASSUME NEW x \in S, NEW y \in S, f[x] = f[y] PROVE x = y
    <3>1. x + t = y + t /\ x \in Nat /\ y \in Nat
      BY <2>1, <2>2
    <3> QED BY <3>1
  <2>3. \A a \in A : \E x \in S : f[x] = a
    BY <2>1
  <2> HIDE DEF f, A
  <2> QED BY <1>1, <2>1, <2>2, <2>3, SameSize
<1>3. IsFiniteSet(B) /\ Cardinality(B) = l
  <2> DEFINE f == [k \in 1 .. l |-> P[k]]
  <2>1. f \in [1 .. l -> B] /\ \A k \in 1 .. l : f[k] = P[k]
    OBVIOUS
  <2>2. \A x, y \in 1 .. l : f[x] = f[y] => x = y
    BY <2>1
  <2>3. \A b \in B : \E x \in 1 .. l : f[x] = b
    BY <2>1
  <2> HIDE DEF f, B
  <2>4. IsFiniteSet(B) /\ Cardinality(B) = Cardinality(1 .. l)
    BY <1>1, <2>1, <2>2, <2>3, SameSize
  <2> QED BY <1>1, <2>4
<1>4. A \cap B = {}
  <2> SUFFICES ASSUME NEW k \in S, NEW j \in 1 .. l, k + t = P[j] PROVE FALSE
    OBVIOUS
  <2>1. k >= 1 /\ k \in Nat
    OBVIOUS
  <2>2. P[j] \in 1 .. t
    OBVIOUS
  <2> QED BY <2>1, <2>2
<1>5. A \cup B \subseteq T
  OBVIOUS
<1> HIDE DEF A, B
<1>6. Cardinality(A \cup B) = Cardinality(A) + Cardinality(B)
  <2>1. Cardinality(A \cup B) = Cardinality(A) + Cardinality(B) - Cardinality(A \cap B)
    BY <1>2, <1>3, FS_Union
  <2>2. Cardinality(A \cap B) = 0
    BY <1>4, FS_EmptySet
  <2>3. Cardinality(A) \in Nat /\ Cardinality(B) \in Nat
    BY <1>2, <1>3, FS_CardinalityType
  <2> QED BY <2>1, <2>2, <2>3
<1>7. Cardinality(A \cup B) <= Cardinality(T)
  BY <1>1, <1>5, FS_Subset
<1> QED BY <1>2, <1>3, <1>6, <1>7

(* What waits after a cycle, with what was taken, is what waited and what  *)
(* arrives.                                                                *)
LEMMA BufMoves ==
  ASSUME BufOK, OffersInOrder, NEW accs, IsSeq(accs), NEW new, NewBuf(new), Len(new) = Len(accs),
         \A k \in 1 .. Len(accs) : new[k].ld = accs[k].ld,
         NEW ld \in BOOLEAN, NEW l \in 0 .. 2, \A k \in 1 .. l : Pos(ld, k) \in 1 .. Taken,
         \A k \in 1 .. l : Pos(ld, k) <= Len(lsu_buf) /\ lsu_buf[Pos(ld, k)].ld = ld,
         \A j, k \in 1 .. l : j < k => Pos(ld, j) < Pos(ld, k)
  PROVE  /\ IsFiniteSet(Of(lsu_buf', ld))
         /\ Cardinality(Of(lsu_buf', ld)) + l <= Cardinality(Of(lsu_buf \o accs, ld))
<1> DEFINE D == lsu_buf \o accs
<1>1. JoinFacts(D, lsu_buf, accs)
  BY Joined DEF BufOK
<1>2. PICK b, t, m, b2, d : b = Len(lsu_buf) /\ t = Taken /\ m = Len(accs) /\ b2 = Len(lsu_buf') /\ d = Len(D)
  OBVIOUS
<1>3. /\ b \in Nat /\ t \in 0 .. 2 /\ t <= b /\ m \in Nat /\ b2 = b - t + m /\ d = b + m
      /\ \A k \in 1 .. b - t : lsu_buf'[k] = lsu_buf[k + t]
      /\ \A k \in 1 .. m : lsu_buf'[b - t + k] = new[k]
      /\ \A k \in 1 .. b : D[k] = lsu_buf[k]
      /\ \A k \in 1 .. m : D[b + k] = accs[k]
  BY <1>1, <1>2, SeqType DEF JoinFacts, NewBuf, BufOK
<1>4. b2 \in Nat /\ d \in Nat /\ t \in Nat
  BY <1>3
<1> HIDE DEF D
<1>5. ASSUME NEW k \in 1 .. b2 PROVE k + t \in 1 .. d /\ (lsu_buf'[k].ld = D[k + t].ld)
  <2>1. CASE k <= b - t
    <3>1. k \in 1 .. b - t /\ k + t \in 1 .. b /\ k + t \in 1 .. d
      BY <1>3, <2>1
    <3> QED BY <1>3, <3>1
  <2>2. CASE ~(k <= b - t)
    <3>1. PICK j : j = k - (b - t)
      OBVIOUS
    <3>2. j \in 1 .. m /\ k = b - t + j /\ k + t = b + j /\ k + t \in 1 .. d
      BY <1>3, <2>2, <3>1
    <3>3. lsu_buf'[k] = new[j] /\ D[k + t] = accs[j] /\ new[j].ld = accs[j].ld
      BY <1>2, <1>3, <3>2
    <3> QED BY <3>2, <3>3
  <2> QED BY <2>1, <2>2
<1> DEFINE S == Of(lsu_buf', ld)
           T == Of(D, ld)
<1>6. S \in SUBSET (1 .. b2) /\ T \in SUBSET (1 .. d)
  BY <1>2 DEF Of
<1>7. \A k \in S : k + t \in T
  BY <1>2, <1>5 DEF Of
<1> DEFINE P == [k \in 1 .. l |-> Pos(ld, k)]
<1>8. \A k \in 1 .. l : P[k] = Pos(ld, k)
  OBVIOUS
<1>9. ASSUME NEW k \in 1 .. l PROVE P[k] \in 1 .. t /\ P[k] \in T
  <2>1. PICK p : p = Pos(ld, k)
    OBVIOUS
  <2>2. P[k] = p
    BY <1>8, <2>1
  <2>3. p \in 1 .. t /\ p <= b /\ lsu_buf[p].ld = ld
    BY <1>2, <2>1
  <2>4. p \in 1 .. b /\ p \in 1 .. d
    BY <1>3, <2>3
  <2>5. p \in T
    BY <1>2, <1>3, <2>3, <2>4 DEF Of
  <2> QED BY <2>2, <2>3, <2>5
<1>10. ASSUME NEW j \in 1 .. l, NEW k \in 1 .. l, P[j] = P[k] PROVE j = k
  <2>1. PICK p, q : p = Pos(ld, j) /\ q = Pos(ld, k)
    OBVIOUS
  <2>2. p = q
    BY <1>8, <1>10, <2>1
  <2>3. p \in Int
    BY <1>2, <2>1
  <2>4. (j < k => p < q) /\ (k < j => q < p)
    BY <2>1
  <2> HIDE DEF P
  <2> QED BY <2>2, <2>3, <2>4
<1> HIDE DEF S, T, P
<1>11. l \in Nat /\ IsFiniteSet(S)
  <2>1. IsFiniteSet(1 .. b2)
    BY <1>4, UpTo
  <2>2. IsFiniteSet(S)
    BY <1>6, <2>1, FS_Subset
  <2> QED BY <2>2
<1>12. Cardinality(S) + l <= Cardinality(T)
  BY <1>4, <1>6, <1>7, <1>9, <1>10, <1>11, ShiftCount
<1> QED BY <1>11, <1>12 DEF S, T, D

-----------------------------------------------------------------------------
(* Not more places than there are before the m-th.                         *)
LEMMA FewPlaces ==
  ASSUME NEW c, NEW h, StqShape(c, h), NEW m \in 0 .. STU_DEPTH,
         NEW S \in SUBSET Stq, \A i \in S : Off(i) < m
  PROVE  Cardinality(S) \in Nat /\ Cardinality(S) <= m
<1> DEFINE T == {i \in Stq : Off(i) < m}
<1>1. STU_DEPTH \in Nat /\ stq_rd_ptr \in 0 .. STU_DEPTH - 1
  BY Depths DEF StqShape, Stq
<1>2. T \in SUBSET (0 .. STU_DEPTH - 1)
  BY DEF Stq
<1>3. \A i \in 0 .. STU_DEPTH - 1 : i \in T <=> Place(i, stq_rd_ptr, STU_DEPTH) < m
  BY DEF Stq, Off
<1>4. S \subseteq T
  OBVIOUS
<1> HIDE DEF T
<1>5. IsFiniteSet(T) /\ Cardinality(T) = m
  BY <1>1, <1>2, <1>3, CircleSize
<1> QED BY <1>4, <1>5, FS_Subset, FS_CardinalityType

LEMMA StoresHeldNext == \A c, h : StqShape(c, h)' => Committed' = c /\ Cardinality(HeldStores)' = h
<1>1. \A c, h : StqShape(c, h) => Committed = c /\ Cardinality(HeldStores) = h
  BY StoresHeld
<1>2. (\A c, h : StqShape(c, h) => Committed = c /\ Cardinality(HeldStores) = h)'
  BY <1>1, PTL
<1> QED BY <1>2

LEMMA LoadsHeldNext == \A g : LdqShape(g)' => Cardinality(HeldLoads)' = g
<1>1. \A g : LdqShape(g) => Cardinality(HeldLoads) = g
  BY LoadsHeld
<1>2. (\A g : LdqShape(g) => Cardinality(HeldLoads) = g)'
  BY <1>1, PTL
<1> QED BY <1>2

LEMMA NoneHeld ==
  ASSUME NEW c, NEW h, StqShape(c, h), HeldStores = {}
  PROVE  c = 0 /\ h = 0
<1>1. Cardinality(HeldStores) = h
  BY StoresHeld
<1>2. h = 0
  BY <1>1, FS_EmptySet
<1> QED BY <1>2 DEF StqShape

(* Without loads a retired store is written in every cycle.                *)
LEMMA StoresDrain ==
  ASSUME LsuInv, LoadsTaken = 0, \A i \in Ldq : ~ldq_en[i], NEW c, NEW h, StqShape(c, h)
  PROVE  Request = NONE /\ (Drain <=> c > 0)
<1>1. v_mem_not_req = {}
  BY DEF v_mem_not_req
<1>2. Request = NONE
  BY <1>1 DEF Request
<1>3. stq_rd_ptr \in Stq /\ c \in Nat /\ \A i \in Stq : stq_commit[i] <=> Off(i) < c
  BY DEF StqShape
<1>4. Off(stq_rd_ptr) = 0
  BY <1>3, Depths DEF Off, Place, Stq
<1>5. stq_commit[stq_rd_ptr] <=> c > 0
  BY <1>3, <1>4
<1> QED BY <1>2, <1>5 DEF Drain, s_mem_req_vld

(* The store queue does not fill up with retired stores.                   *)
LEMMA NextFit ==
  ASSUME AllClear
  PROVE  LsuInv /\ ClearInv /\ Next => RetiredFit'
<1> SUFFICES ASSUME LsuInv, ClearInv, Next PROVE RetiredFit'
  OBVIOUS
<1>1. BufOK /\ RobShape
  BY DEF LsuInv
<1>2. PICK c, h : StqShape(c, h) /\ RobStores(c, h)
  BY DEF LsuInv, StoreInv
<1>3. PICK accs, n, edge : Legal(accs, n, edge) /\ Parts(Arriving(accs), n, edge, edge \/ Cancelling)
  BY Steps
<1>4. /\ c \in Nat /\ h \in Nat /\ c <= h /\ h <= STU_DEPTH /\ stq_rd_ptr \in Stq
      /\ \A i \in Stq : Off(i) \in Nat /\ (stq_commit[i] <=> Off(i) < c) /\ (Off(i) = 0 => i = stq_rd_ptr)
  BY <1>2, OffIs DEF StqShape
<1>5. n \in Nat /\ n <= COMMIT_REL_CHANNEL /\ LegalRetire(n)
  BY <1>3 DEF Legal
<1>6. PICK r : r = Cardinality(RetiringStores(n))
  OBVIOUS
<1>7. r \in 0 .. h - c /\ RetiredFacts(n, c, r)
  BY <1>1, <1>2, <1>4, <1>5, <1>6, RetiredFirst DEF RobShape
<1>8. STU_DEPTH \in Nat /\ STU_DEPTH > 2 /\ COMMIT_REL_CHANNEL \in Nat
  BY Depths, LsuAssumption
<1> DEFINE S == {i \in Stq : stq_commit'[i]}
<1>9. S = {i \in Stq : i \in Retiring(n) \/ (stq_commit[i] /\ i \notin (IF Drain THEN {stq_rd_ptr} ELSE {}))}
  BY <1>3 DEF Parts, NextStqFlags
<1>10. /\ \A i \in S : Off(i) < c + r /\ Off(i) < h
       /\ Drain => \A i \in S : Off(i) \in c .. c + r - 1 \/ i # stq_rd_ptr
  <2>1. Retiring(n) = {i \in Stq : Off(i) \in c .. c + r - 1}
    BY <1>7 DEF RetiredFacts
  <2>2. ASSUME NEW i \in S PROVE i \in Stq /\ (i \in Retiring(n) \/ (Off(i) < c /\ (Drain => i # stq_rd_ptr)))
    BY <1>4, <1>9
  <2> HIDE DEF S
  <2>3. ASSUME NEW i \in S PROVE Off(i) < c + r /\ (Drain => Off(i) \in c .. c + r - 1 \/ i # stq_rd_ptr)
    <3>1. Off(i) \in Nat /\ (Off(i) \in c .. c + r - 1 \/ (Off(i) < c /\ (Drain => i # stq_rd_ptr)))
      BY <1>4, <2>1, <2>2
    <3> QED BY <1>4, <1>7, <3>1
  <2>4. ASSUME NEW i \in S PROVE Off(i) < h
    <3>1. Off(i) \in Nat /\ Off(i) < c + r
      BY <1>4, <2>2, <2>3
    <3> QED BY <1>4, <1>7, <3>1
  <2> QED BY <2>3, <2>4
<1>11. S \in SUBSET Stq
  OBVIOUS
<1> HIDE DEF S
<1>12. Cardinality(S) < STU_DEPTH
  <2>1. Clear(workload)
    BY DEF AllClear, LsuInv, DataInv
  <2>2. CASE RoomFor(workload)
    <3>1. workload.stores <= STU_DEPTH - 2 /\ workload.stores \in Nat
      BY <2>2, LsuAssumption DEF RoomFor, LsuInv, DataInv
    <3>2. PICK ns \in Nat : ns = InBuf(FALSE)
      BY <1>1, BufCounts
    <3>3. Cardinality(HeldStores) = h /\ h + ns <= workload.stores
      BY <1>1, <1>2, <3>2, StoresHeld DEF ClearInv, Room
    <3>4. h < STU_DEPTH /\ h \in 0 .. STU_DEPTH
      BY <1>4, <1>8, <3>1, <3>3
    <3>5. Cardinality(S) \in Nat /\ Cardinality(S) <= h
      BY <1>2, <1>10, <1>11, <3>4, FewPlaces
    <3> QED BY <1>8, <3>4, <3>5
  <2>3. CASE OfKind(workload, FALSE) = {}
    <3>1. HeldStores = {}
      BY <2>3, NoStores
    <3>2. h = 0
      BY <1>2, <3>1, NoneHeld
    <3>3. Cardinality(S) \in Nat /\ Cardinality(S) <= 0
      BY <1>2, <1>8, <1>10, <1>11, <3>2, FewPlaces
    <3> QED BY <1>8, <3>3
  <2>4. CASE OfKind(workload, TRUE) = {} /\ COMMIT_REL_CHANNEL < STU_DEPTH
    <3>1. (\A k \in 1 .. Len(lsu_buf) : lsu_buf[k].ld = FALSE) /\ \A i \in Ldq : ~ldq_en[i]
      BY <2>4, NoLoads
    <3>2. LoadsTaken = 0
      BY <1>1, <3>1, NotOffered
    <3>3. Drain <=> c > 0
      BY <1>2, <3>1, <3>2, StoresDrain
    <3>4. CASE c = 0
      <4>1. r <= n
        <5>1. IsFiniteSet(1 .. n) /\ Cardinality(1 .. n) = n
          BY <1>5, UpTo
        <5>2. RetiringStores(n) \subseteq 1 .. n
          BY DEF RetiringStores
        <5> QED BY <1>6, <5>1, <5>2, FS_Subset
      <4>2. r \in 0 .. STU_DEPTH /\ r < STU_DEPTH /\ c + r = r
        BY <1>4, <1>5, <1>7, <1>8, <2>4, <3>4, <4>1
      <4>3. \A i \in S : Off(i) < r
        BY <1>10, <4>2
      <4>4. Cardinality(S) \in Nat /\ Cardinality(S) <= r
        BY <1>2, <1>11, <4>2, <4>3, FewPlaces
      <4> QED BY <1>8, <4>2, <4>4
    <3>5. CASE c # 0
      <4>1. c > 0 /\ Drain
        BY <1>4, <3>3, <3>5
      <4>2. stq_rd_ptr \notin S
        <5>1. Off(stq_rd_ptr) = 0
          BY <1>4, <1>8 DEF Off, Place, Stq
        <5>2. Off(stq_rd_ptr) \notin c .. c + r - 1
          BY <1>4, <1>7, <4>1, <5>1
        <5> QED BY <1>10, <4>1, <5>2
      <4>3. S \subseteq Stq \ {stq_rd_ptr}
        BY <1>11, <4>2
      <4>4. IsFiniteSet(Stq) /\ Cardinality(Stq) = STU_DEPTH
        <5>1. IsFiniteSet(0 .. STU_DEPTH - 1)
              /\ Cardinality(0 .. STU_DEPTH - 1) = IF 0 > STU_DEPTH - 1 THEN 0 ELSE STU_DEPTH - 1 - 0 + 1
          BY <1>8, FS_Interval
        <5> QED BY <1>8, <5>1 DEF Stq
      <4>5. IsFiniteSet(Stq \ {stq_rd_ptr}) /\ Cardinality(Stq \ {stq_rd_ptr}) = STU_DEPTH - 1
        BY <1>4, <4>4, FS_RemoveElement
      <4>6. Cardinality(S) <= STU_DEPTH - 1 /\ Cardinality(S) \in Nat
        BY <4>3, <4>5, FS_Subset, FS_CardinalityType
      <4> QED BY <1>8, <4>6
    <3> QED BY <3>4, <3>5
  <2> QED BY <2>1, <2>2, <2>3, <2>4 DEF Clear
<1>13. Committed' = Cardinality(S)
  BY DEF S, Committed, Stq
<1> QED BY <1>12, <1>13 DEF RetiredFit

-----------------------------------------------------------------------------
(* A cycle: what arrives, retires and is drained.                          *)
Cycle(accs, n, edge, cancel, c, h, r, out, c2, h2, g, g2) ==
  /\ Legal(accs, n, edge) /\ Parts(Arriving(accs), n, edge, cancel)
  /\ cancel \in BOOLEAN /\ (cancel <=> edge \/ Cancelling)
  /\ StqShape(c, h) /\ RobStores(c, h) /\ LdqShape(g) /\ StqShape(c2, h2)' /\ LdqShape(g2)'
  /\ StoresNext(c, h, n, cancel, r, out, c2, h2)

LEMMA Cycles ==
  ASSUME LsuInv, RetiredFit', Next
  PROVE  \E accs, n, edge, cancel, c, h, r, out, c2, h2, g, g2 :
           Cycle(accs, n, edge, cancel, c, h, r, out, c2, h2, g, g2)
<1>1. BufOK /\ RobShape /\ LdqFlags /\ refill \in 0 .. REFILL
  BY DEF LsuInv, DataInv
<1>2. PICK c, h : StqShape(c, h) /\ RobStores(c, h)
  BY DEF LsuInv, StoreInv
<1>3. PICK g : LdqShape(g)
  BY DEF LsuInv, LoadInv
<1>4. PICK accs, n, edge : Legal(accs, n, edge) /\ Parts(Arriving(accs), n, edge, edge \/ Cancelling)
  BY Steps
<1>5. PICK new : new = Arriving(accs)
  OBVIOUS
<1>6. PICK cancel \in BOOLEAN : cancel <=> edge \/ Cancelling
  OBVIOUS
<1>7. Parts(new, n, edge, cancel)
  <2>1. cancel = (edge \/ Cancelling)
    BY <1>6
  <2> QED BY <1>4, <1>5, <2>1
<1>8. Cancelling' <=> edge
  <2>1. refill' = IF edge THEN REFILL ELSE IF refill > 0 THEN refill - 1 ELSE 0
    BY <1>7 DEF Parts
  <2>2. REFILL \in Nat \ {0} /\ edge \in BOOLEAN
    BY <1>4, LsuAssumption DEF Legal
  <2> QED BY <1>1, <2>1, <2>2 DEF Cancelling
<1>9. PICK r, out, c2, h2 : StoresNext(c, h, n, cancel, r, out, c2, h2) /\ StqShape(c2, h2)'
  BY <1>1, <1>2, <1>3, <1>4, <1>6, <1>7, <1>8, NextStores
<1>10. PICK g2 : LdqShape(g2)'
  BY <1>1, <1>3, <1>7, NextLdqShape DEF Parts
<1>11. Cycle(accs, n, edge, cancel, c, h, r, out, c2, h2, g, g2)
  BY <1>2, <1>3, <1>4, <1>5, <1>6, <1>7, <1>9, <1>10 DEF Cycle
<1> QED BY <1>11

(* A cycle that goes on takes the first operations of the buffer and adds  *)
(* what arrives.                                                           *)
LEMMA GoesOn ==
  ASSUME LsuInv, OffersInOrder,
         NEW accs, NEW n, NEW edge, NEW cancel, NEW c, NEW h, NEW r, NEW out, NEW c2, NEW h2, NEW g, NEW g2,
         Cycle(accs, n, edge, cancel, c, h, r, out, c2, h2, g, g2), ~cancel, NEW new, new = Arriving(accs)
  PROVE  /\ accs \in Batches /\ ArrivedFacts(new, accs) /\ NewBuf(new) /\ Len(new) = Len(accs)
         /\ \A ld \in BOOLEAN :
              Cardinality(Of(lsu_buf', ld)) \in Nat
              /\ Cardinality(Of(lsu_buf', ld)) + (IF ld THEN LoadsTaken ELSE StoresTaken)
                   <= Cardinality(Of(lsu_buf \o accs, ld))
<1>1. BufOK /\ RobShape /\ workload \in Workloads
  BY DEF LsuInv, DataInv
<1>2. accs \in Batches /\ LegalArrival(accs)
  BY DEF Cycle, Legal
<1>3. ArrivedFacts(new, accs)
  BY <1>1, <1>2, ArrivalFits, ArrivingIs
<1>4. NextBuffer(new, StoresTaken, LoadsTaken, cancel) /\ cancel = FALSE
  BY DEF Cycle, Parts
<1>5. NewBuf(new)
  BY <1>1, <1>3, <1>4, NextBufferIs DEF ArrivedFacts
<1>6. IsSeq(accs)
  <2>1. PICK k \in 0 .. S_CHANNEL : accs \in [1 .. k -> workload.accesses]
    BY <1>2 DEF Batches
  <2>2. accs = [i \in 1 .. k |-> accs[i]] /\ k \in Nat
    BY <2>1, LsuBufferAssumption
  <2> QED BY <2>2, SeqIntro
<1>7. /\ Len(new) = Len(accs) /\ \A k \in 1 .. Len(accs) : new[k].ld = accs[k].ld
  BY <1>3 DEF ArrivedFacts
<1>8. ASSUME NEW ld \in BOOLEAN, NEW l \in 0 .. 2, NEW s, OfferFacts(s, ld),
             \A k \in 1 .. l : Pos(ld, k) \in 1 .. Taken /\ k \in 1 .. Len(s),
             \A j, k \in 1 .. l : j < k => Pos(ld, j) < Pos(ld, k)
      PROVE  Cardinality(Of(lsu_buf', ld)) \in Nat
             /\ Cardinality(Of(lsu_buf', ld)) + l <= Cardinality(Of(lsu_buf \o accs, ld))
  <2>1. \A k \in 1 .. l : Pos(ld, k) <= Len(lsu_buf) /\ lsu_buf[Pos(ld, k)].ld = ld
    BY <1>8 DEF OfferFacts
  <2>2. /\ IsFiniteSet(Of(lsu_buf', ld))
        /\ Cardinality(Of(lsu_buf', ld)) + l <= Cardinality(Of(lsu_buf \o accs, ld))
    BY <1>1, <1>5, <1>6, <1>7, <1>8, <2>1, BufMoves
  <2> QED BY <2>2, FS_CardinalityType
<1>9. /\ StoresTaken \in 0 .. 2 /\ LoadsTaken \in 0 .. 2
      /\ OfferFacts(StuOffer, FALSE) /\ OfferFacts(LduOffer, TRUE)
      /\ \A k \in 1 .. StoresTaken : Pos(FALSE, k) \in 1 .. Taken /\ k \in 1 .. Len(StuOffer)
      /\ \A k \in 1 .. LoadsTaken : Pos(TRUE, k) \in 1 .. Taken /\ k \in 1 .. Len(LduOffer)
      /\ \A j, k \in 1 .. StoresTaken : j < k => Pos(FALSE, j) < Pos(FALSE, k)
  BY <1>1, TakenBounds, TakenOffered, TakenFirst, PosOrder
<1>10. \A j, k \in 1 .. LoadsTaken : j < k => Pos(TRUE, j) < Pos(TRUE, k)
  BY <1>1, <1>9, PosOrder
<1>11. Cardinality(Of(lsu_buf', FALSE)) \in Nat
       /\ Cardinality(Of(lsu_buf', FALSE)) + StoresTaken <= Cardinality(Of(lsu_buf \o accs, FALSE))
  BY <1>8, <1>9
<1>12. Cardinality(Of(lsu_buf', TRUE)) \in Nat
       /\ Cardinality(Of(lsu_buf', TRUE)) + LoadsTaken <= Cardinality(Of(lsu_buf \o accs, TRUE))
  BY <1>8, <1>9, <1>10
<1>13. ASSUME NEW ld \in BOOLEAN
       PROVE  Cardinality(Of(lsu_buf', ld)) \in Nat
              /\ Cardinality(Of(lsu_buf', ld)) + (IF ld THEN LoadsTaken ELSE StoresTaken)
                   <= Cardinality(Of(lsu_buf \o accs, ld))
  <2>1. CASE ld = TRUE
    BY <1>12, <2>1
  <2>2. CASE ld = FALSE
    BY <1>11, <2>2
  <2> QED BY <2>1, <2>2
<1> QED BY <1>2, <1>3, <1>5, <1>7, <1>13

LEMMA NextRoom ==
  ASSUME LsuInv, OffersInOrder, Room, RetiredFit', Next
  PROVE  Room'
<1>1. BufOK /\ workload \in Workloads
  BY DEF LsuInv, DataInv
<1>2. PICK accs, n, edge, cancel, c, h, r, out, c2, h2, g, g2 :
        Cycle(accs, n, edge, cancel, c, h, r, out, c2, h2, g, g2)
  BY Cycles
<1>3. PICK new : new = Arriving(accs)
  OBVIOUS
<1>4. PICK ns \in Nat, nl \in Nat, ws \in Nat, wl \in Nat :
        ns = InBuf(FALSE) /\ nl = InBuf(TRUE) /\ ws = workload.stores /\ wl = workload.loads
  BY <1>1, BufCounts, LsuAssumption
<1>5. PICK x, y : x = StoresTaken /\ y = LoadsTaken
  OBVIOUS
<1>6. x \in 0 .. 2 /\ y \in 0 .. 2
  BY <1>1, <1>5, TakenBounds
<1>7. /\ Cardinality(HeldStores) = h /\ Cardinality(HeldLoads) = g
      /\ Cardinality(HeldStores)' = h2 /\ Cardinality(HeldLoads)' = g2
  BY <1>2, StoresHeld, LoadsHeld, StoresHeldNext, LoadsHeldNext DEF Cycle
<1>8. h + ns <= ws /\ g + nl <= wl
  BY <1>4, <1>7 DEF Room
<1>9. /\ c \in Nat /\ h \in Nat /\ c <= h /\ r \in 0 .. h - c /\ out \in 0 .. 1 /\ out <= c
      /\ c2 = c + r - out /\ h2 = IF cancel THEN c2 ELSE h + x - out
      /\ cancel \in BOOLEAN
  BY <1>2, <1>5, OffIs DEF Cycle, StoresNext, CommitFacts
<1>10. g \in Nat /\ g2 \in Nat /\ g2 <= (IF cancel THEN 0 ELSE g + y)
  <2>1. /\ g \in 0 .. LDU_DEPTH /\ ldu_credit_cnt = LDU_DEPTH - g
        /\ g2 \in 0 .. LDU_DEPTH /\ ldu_credit_cnt' = LDU_DEPTH - g2
    BY <1>2, Depths DEF Cycle, LdqShape
  <2>2. ldu_credit_cnt' = IF cancel THEN LDU_DEPTH ELSE ldu_credit_cnt + (IF ldq_rd_en THEN 1 ELSE 0) - y
    BY <1>2, <1>5 DEF Cycle, Parts, NextCredits
  <2> QED BY <1>6, <1>9, <2>1, <2>2, Depths
<1>11. workload' = workload
  BY <1>2 DEF Cycle, Parts
<1>12. PICK ns2, nl2 : ns2 = Cardinality(Of(lsu_buf', FALSE)) /\ nl2 = Cardinality(Of(lsu_buf', TRUE))
  OBVIOUS
<1>13. ns2 \in Nat /\ nl2 \in Nat /\ h2 + ns2 <= ws /\ g2 + nl2 <= wl
  <2>1. CASE cancel
    <3>1. lsu_buf' = <<>>
      BY <1>2, <2>1 DEF Cycle, Parts, NextBuffer
    <3>2. \A ld : Of(lsu_buf', ld) = {}
      BY <3>1 DEF Of
    <3>3. ns2 = 0 /\ nl2 = 0
      BY <1>12, <3>2, FS_EmptySet
    <3> QED BY <1>8, <1>9, <1>10, <2>1, <3>3
  <2>2. CASE ~cancel
    <3>1. /\ accs \in Batches
          /\ \A ld \in BOOLEAN :
              Cardinality(Of(lsu_buf', ld)) \in Nat
              /\ Cardinality(Of(lsu_buf', ld)) + (IF ld THEN LoadsTaken ELSE StoresTaken)
                   <= Cardinality(Of(lsu_buf \o accs, ld))
      BY <1>2, <1>3, <2>2, GoesOn
    <3>2. PICK ds, dl : ds = Cardinality(Of(lsu_buf \o accs, FALSE)) /\ dl = Cardinality(Of(lsu_buf \o accs, TRUE))
      OBVIOUS
    <3>3. ns2 \in Nat /\ nl2 \in Nat /\ ns2 + x <= ds /\ nl2 + y <= dl
      BY <1>5, <1>12, <3>1, <3>2
    <3>4. CASE accs = <<>>
      <4>1. lsu_buf \o accs = lsu_buf
        BY <1>1, <3>4 DEF BufOK, IsSeq
      <4>2. ds = ns /\ dl = nl
        BY <1>4, <3>2, <4>1 DEF InBuf
      <4> QED BY <1>6, <1>8, <1>9, <1>10, <2>2, <3>3, <4>2
    <3>5. CASE accs # <<>>
      <4>1. h + ds <= ws /\ g + dl <= wl
        BY <1>2, <1>4, <1>7, <3>2, <3>5 DEF Cycle, Legal, LegalArrival
      <4>2. ds \in Int /\ dl \in Int
        <5>1. Len(lsu_buf \o accs) \in Nat
          <6>1. IsSeq(accs)
            <7>1. PICK k \in 0 .. S_CHANNEL : accs \in [1 .. k -> workload.accesses]
              BY <3>1 DEF Batches
            <7>2. accs = [i \in 1 .. k |-> accs[i]] /\ k \in Nat
              BY <7>1, LsuBufferAssumption
            <7> QED BY <7>2, SeqIntro
          <6>2. JoinFacts(lsu_buf \o accs, lsu_buf, accs)
            BY <1>1, <6>1, Joined DEF BufOK
          <6> QED BY <6>2, SeqType DEF JoinFacts
        <5>2. IsFiniteSet(Of(lsu_buf \o accs, FALSE)) /\ IsFiniteSet(Of(lsu_buf \o accs, TRUE))
          BY <5>1, UpTo, FS_Subset DEF Of
        <5>3. /\ Cardinality(Of(lsu_buf \o accs, FALSE)) \in Nat
              /\ Cardinality(Of(lsu_buf \o accs, TRUE)) \in Nat
          BY <5>2, FS_CardinalityType
        <5>4. ds \in Nat /\ dl \in Nat
          BY <3>2, <5>3, Zenon
        <5> QED BY <5>4
      <4> QED BY <1>6, <1>8, <1>9, <1>10, <2>2, <3>3, <4>1, <4>2
    <3> QED BY <3>4, <3>5
  <2> QED BY <1>9, <2>1, <2>2
<1>14. Cardinality(HeldStores)' + Cardinality(Of(lsu_buf', FALSE)) <= workload.stores
  BY <1>4, <1>7, <1>12, <1>13
<1>15. Cardinality(HeldLoads)' + Cardinality(Of(lsu_buf', TRUE)) <= workload.loads
  BY <1>4, <1>7, <1>12, <1>13
<1> QED BY <1>11, <1>14, <1>15 DEF Room, InBuf

-----------------------------------------------------------------------------
(* What arrives is an operation.                                           *)
LEMMA ArrivingOps ==
  ASSUME workload \in Workloads, IsSeq(rob), RobTyped, arch \in [Bytes -> Value], NEW accs \in Batches,
         NEW k \in 1 .. Len(accs)
  PROVE  Arriving(accs)[k] # NONE
<1> DEFINE op == Arriving(accs)[k]
           first == IF rob = <<>> THEN 0 ELSE rob[Len(rob)].op.id + 1
           x == (first + k - 1) % workload.in_flight
           d == [b \in BytesOf(accs[k]) |->
                  (Speculative[b] + Cardinality({j \in StoresTo(accs, b) : j <= k})) % workload.values]
<1>1. op = [id |-> x, ld |-> accs[k].ld, addr |-> accs[k].addr, strb |-> accs[k].strb, data |-> d]
  BY DEF Arriving
<1>2. IsOp(op)
  BY ArrivingTyped
<1> HIDE DEF x, d
<1>3. op.id = x /\ op.data = d /\ op.addr = accs[k].addr /\ op.strb = accs[k].strb /\ op.ld = accs[k].ld
  BY <1>1
<1> HIDE DEF op
<1>4. x \in Nat
  <2>1. workload.in_flight \in Nat
    BY LsuAssumption
  <2>2. x \in 0 .. workload.in_flight - 1
    BY <1>2, <1>3 DEF IsOp
  <2> QED BY <2>1, <2>2
<1>5. accs[k] \in workload.accesses
  BY BatchLen
<1>6. accs[k].ld \in BOOLEAN /\ accs[k].addr \in Bytes /\ accs[k].strb \in Nat
  <2>1. accs[k] \in [ld : BOOLEAN, addr : Bytes, strb : Nat \ {0}]
    BY <1>5, LsuAssumption
  <2> QED BY <2>1
<1>7. d \in Bits
  <2>1. BytesOf(op) \subseteq Bytes /\ op.data \in [BytesOf(op) -> Value]
    BY <1>2, OpBytes
  <2>2. Value \subseteq Nat
    BY LsuAssumption DEF Value
  <2>3. d \in [BytesOf(op) -> Nat]
    BY <1>3, <2>1, <2>2
  <2> QED BY <2>1, <2>3 DEF Bits
<1>8. op \in Ops
  BY <1>1, <1>4, <1>6, <1>7 DEF Ops
<1>9. op # NONE
  BY <1>8, NoneAssumption
<1> QED BY <1>9 DEF op

LEMMA NextNotNone ==
  ASSUME LsuInv, OffersInOrder, NotNone, RetiredFit', Next
  PROVE  NotNone'
<1>1. BufOK /\ RobShape /\ RobTyped /\ workload \in Workloads /\ arch \in [Bytes -> Value]
  BY DEF LsuInv, DataInv
<1>2. PICK accs, n, edge, cancel, c, h, r, out, c2, h2, g, g2 :
        Cycle(accs, n, edge, cancel, c, h, r, out, c2, h2, g, g2)
  BY Cycles
<1>3. PICK new : new = Arriving(accs)
  OBVIOUS
<1>4. ASSUME NEW k \in 1 .. Len(lsu_buf') PROVE lsu_buf'[k] # NONE
  <2>1. CASE cancel
    <3>1. lsu_buf' = <<>>
      BY <1>2, <2>1 DEF Cycle, Parts, NextBuffer
    <3>2. Len(lsu_buf') = 0
      BY <3>1
    <3> QED BY <3>2
  <2>2. CASE ~cancel
    <3>1. accs \in Batches /\ NewBuf(new) /\ Len(new) = Len(accs)
      BY <1>2, <1>3, <2>2, GoesOn
    <3>2. PICK b, t, m, b2 : b = Len(lsu_buf) /\ t = Taken /\ m = Len(new) /\ b2 = Len(lsu_buf')
      OBVIOUS
    <3>3. /\ b \in Nat /\ t \in 0 .. 2 /\ t <= b /\ m \in Nat /\ b2 = b - t + m
          /\ \A j \in 1 .. b - t : lsu_buf'[j] = lsu_buf[j + t]
          /\ \A j \in 1 .. m : lsu_buf'[b - t + j] = new[j]
      BY <1>1, <3>1, <3>2, SeqType DEF NewBuf, BufOK
    <3>4. CASE k <= b - t
      <4>1. k \in 1 .. b - t /\ k + t \in 1 .. b
        BY <3>2, <3>3, <3>4
      <4> QED BY <3>2, <3>3, <4>1 DEF NotNone
    <3>5. CASE ~(k <= b - t)
      <4>1. PICK j : j = k - (b - t)
        OBVIOUS
      <4>2. k \in 1 .. b2
        BY <3>2
      <4>3. j \in 1 .. m /\ k = b - t + j
        BY <3>3, <3>5, <4>1, <4>2
      <4>4. new[j] # NONE
        BY <1>1, <1>3, <3>1, <3>2, <4>3, ArrivingOps DEF RobShape
      <4> QED BY <3>3, <4>3, <4>4
    <3> QED BY <3>4, <3>5
  <2> QED BY <2>1, <2>2
<1>5. ASSUME NEW i \in Stq, stq_en'[i] \/ stq_commit'[i] PROVE stq_pld'[i] # NONE
  <2>1. stq_pld' = [j \in Stq |->
          IF ~stq_en'[j] /\ ~stq_commit'[j] THEN NONE
          ELSE IF \E k \in 1 .. StoresTaken : j = StqEntry(k)
               THEN StuOffer[CHOOSE k \in 1 .. StoresTaken : j = StqEntry(k)]
          ELSE stq_pld[j]]
    BY <1>2 DEF Cycle, Parts, NextStqPld
  <2>2. CASE \E k \in 1 .. StoresTaken : i = StqEntry(k)
    <3>1. PICK k \in 1 .. StoresTaken : stq_pld'[i] = StuOffer[k]
      BY <1>5, <2>1, <2>2
    <3>2. k \in 1 .. Len(StuOffer) /\ OfferFacts(StuOffer, FALSE)
      BY <1>1, TakenOffered
    <3>3. PICK p, b : p = Pos(FALSE, k) /\ b = Len(lsu_buf)
      OBVIOUS
    <3>4. p \in 1 .. 2 /\ p <= b /\ StuOffer[k] = lsu_buf[p] /\ b \in Nat
      BY <1>1, <3>2, <3>3, SeqType DEF OfferFacts, BufOK
    <3>5. p \in 1 .. b
      BY <3>4
    <3> QED BY <3>1, <3>3, <3>4, <3>5 DEF NotNone
  <2>3. CASE ~\E k \in 1 .. StoresTaken : i = StqEntry(k)
    <3>1. stq_pld'[i] = stq_pld[i]
      BY <1>5, <2>1, <2>3
    <3>2. i \in HeldStores
      <4>1. NextStqFlags(StoresTaken, Retiring(n), Drain, cancel)
        BY <1>2 DEF Cycle, Parts
      <4>2. (stq_commit'[i] => i \in Retiring(n) \/ stq_commit[i])
            /\ (stq_en'[i] => (\E k \in 1 .. StoresTaken : i = StqEntry(k)) \/ stq_en[i])
        BY <4>1 DEF NextStqFlags
      <4>3. i \in Retiring(n) \/ stq_commit[i] \/ stq_en[i]
        BY <1>5, <2>3, <4>2
      <4>4. i \in Retiring(n) => Off(i) < h
        <5>1. r \in 0 .. h - c /\ RetiredFacts(n, c, r) /\ c \in Nat /\ h \in Nat /\ Off(i) \in Nat
          BY <1>2, OffIs DEF Cycle, StoresNext
        <5>2. i \in Retiring(n) => Off(i) \in c .. c + r - 1
          BY <5>1 DEF RetiredFacts
        <5> QED BY <5>1, <5>2
      <4>5. Off(i) < h => i \in HeldStores
        BY <1>2, StoresHeld DEF Cycle
      <4> QED BY <4>3, <4>4, <4>5 DEF HeldStores
    <3> QED BY <3>1, <3>2 DEF NotNone
  <2> QED BY <2>2, <2>3
<1> QED BY <1>4, <1>5 DEF NotNone, HeldStores, Stq

-----------------------------------------------------------------------------
(* Nothing but the hidden stores is there during the refill.               *)
LEMMA Empty ==
  ASSUME LsuInv, rob = <<>>, \A i \in Ldq : ~ldq_en[i]
  PROVE  /\ Len(lsu_buf) = 0 /\ StoresTaken = 0 /\ LoadsTaken = 0 /\ Len(rob) = 0
         /\ \A c, h : StqShape(c, h) => (Drain <=> c > 0)
<1>1. BufOK /\ RobShape
  BY DEF LsuInv
<1>2. PICK x, b, s, l : x = Len(rob) /\ b = Len(lsu_buf) /\ s = StoresTaken /\ l = LoadsTaken
  OBVIOUS
<1>3. x = 0 /\ x - b >= 0 /\ b \in Nat
  BY <1>1, <1>2, SeqType DEF RobShape, In, BufOK
<1>4. b = 0
  BY <1>3
<1>5. \A k \in 1 .. Len(lsu_buf) : FALSE
  BY <1>2, <1>4
<1>6. s = 0 /\ l = 0
  BY <1>1, <1>2, <1>5, NotOffered
<1> QED BY <1>2, <1>3, <1>4, <1>6, StoresDrain

LEMMA KeepsSeen ==
  ASSUME NoHidden, NEW accs, NEW n, NEW cancel, NEW c, NEW h, NEW r, NEW out, NEW c2, NEW h2, NEW g, NEW g2,
         Cycle(accs, n, FALSE, cancel, c, h, r, out, c2, h2, g, g2)
  PROVE  NoHidden'
<1>1. /\ StqShape(c, h) /\ r \in 0 .. h - c /\ RetiredFacts(n, c, r)
      /\ NextStqFlags(StoresTaken, Retiring(n), Drain, cancel) /\ (cancel <=> Cancelling)
  BY DEF Cycle, StoresNext, Parts
<1>2. /\ c \in Nat /\ h \in Nat /\ \A i \in Stq : Off(i) \in Nat /\ (stq_commit[i] <=> Off(i) < c)
      /\ stq_rd_ptr \in Stq
  BY <1>1, OffIs DEF StqShape
<1>3. ASSUME NEW i \in Stq, stq_commit'[i] PROVE stq_en'[i]
  <2>1. /\ i \in Retiring(n) \/ (stq_commit[i] /\ i \notin (IF Drain THEN {stq_rd_ptr} ELSE {}))
        /\ stq_en'[i] <=>
             /\ cancel => stq_commit[i]
             /\ (\E k \in 1 .. StoresTaken : i = StqEntry(k))
                \/ (stq_en[i] /\ i \notin (IF Drain THEN {stq_rd_ptr} ELSE {}))
    BY <1>1, <1>3 DEF NextStqFlags
  <2>2. CASE i \in Retiring(n)
    <3>1. Off(i) \in c .. c + r - 1
      BY <1>1, <2>2 DEF RetiredFacts
    <3>2. Off(i) \in c .. h - 1 /\ ~(Off(i) < c)
      BY <1>1, <1>2, <3>1
    <3>3. ~Cancelling
      <4>1. Cancelling => h = c
        BY <1>1 DEF StqShape
      <4> QED BY <1>2, <3>2, <4>1
    <3>4. stq_en[i] /\ ~cancel
      BY <1>1, <3>2, <3>3 DEF StqShape
    <3>5. Drain => i # stq_rd_ptr
      BY <1>2, <3>2 DEF Drain, s_mem_req_vld
    <3> QED BY <2>1, <3>4, <3>5
  <2>3. CASE i \notin Retiring(n)
    <3>1. stq_en[i] /\ stq_commit[i]
      BY <2>1, <2>3 DEF NoHidden
    <3> QED BY <2>1, <2>3, <3>1
  <2> QED BY <2>2, <2>3
<1> QED BY <1>3 DEF NoHidden, Stq

LEMMA NextSeen ==
  ASSUME LsuInv, Room, Seen, RetiredFit', Next
  PROVE  Seen'
<1>1. BufOK /\ RobShape /\ workload \in Workloads /\ refill \in 0 .. REFILL
  BY DEF LsuInv, DataInv
<1>2. PICK accs, n, edge, cancel, c, h, r, out, c2, h2, g, g2 :
        Cycle(accs, n, edge, cancel, c, h, r, out, c2, h2, g, g2)
  BY Cycles
<1>3. /\ edge \in BOOLEAN /\ n \in Nat /\ LegalRetire(n) /\ LegalArrival(accs) /\ accs \in Batches
      /\ cancel \in BOOLEAN /\ (cancel <=> edge \/ Cancelling)
  BY <1>2 DEF Cycle, Legal
<1>4. /\ NextStqFlags(StoresTaken, Retiring(n), Drain, cancel)
      /\ NextLdqFlags(LoadsTaken, Request, branch_ack_vld(edge), cancel)
      /\ NextRob(Arriving(accs), n, edge, cancel)
      /\ workload' = workload
      /\ refill' = IF edge THEN REFILL ELSE IF refill > 0 THEN refill - 1 ELSE 0
  BY <1>2 DEF Cycle, Parts
<1>5. PICK ns \in Nat, ws \in Nat : ns = InBuf(FALSE) /\ ws = workload.stores
  BY <1>1, BufCounts, LsuAssumption
<1>6. Cardinality(HeldStores) = h /\ Committed = c /\ Committed' = c2
  BY <1>2, StoresHeld, StoresHeldNext DEF Cycle
<1>7. /\ c \in Nat /\ h \in Nat /\ c <= h /\ r \in 0 .. h - c /\ out \in 0 .. 1 /\ out <= c
      /\ c2 = c + r - out /\ out = IF Drain THEN 1 ELSE 0
  BY <1>2, OffIs DEF Cycle, StoresNext, CommitFacts
<1>8. h + ns <= ws /\ REFILL \in Nat \ {0}
  BY <1>5, <1>6, LsuAssumption DEF Room
<1>9. ASSUME edge PROVE Emptying'
  <2>1. rob' = <<>>
    BY <1>3, <1>4, <1>9 DEF NextRob
  <2>2. \A i \in Ldq : ~ldq_en'[i]
    BY <1>3, <1>4, <1>9 DEF NextLdqFlags
  <2>3. c2 + REFILL <= ws + REFILL
    BY <1>7, <1>8
  <2>4. refill' = REFILL
    BY <1>4, <1>9
  <2> QED BY <1>4, <1>5, <1>6, <2>1, <2>2, <2>3, <2>4 DEF Emptying, Ldq
<1>10. ASSUME c2 = 0 PROVE NoHidden'
  <2>1. /\ \A i \in Stq : stq_commit'[i] <=> Off(i)' < c2
        /\ \A i \in Stq : Off(i)' = IF Off(i) < out THEN STU_DEPTH - 1 ELSE Off(i) - out
    BY <1>2 DEF Cycle, StoresNext, CommitFacts
  <2>2. \A i \in Stq : Off(i) \in Nat
    BY <1>2, OffIs DEF Cycle
  <2>3. \A i \in Stq : ~stq_commit'[i]
    BY <1>7, <1>10, <2>1, <2>2, Depths
  <2> QED BY <2>3 DEF NoHidden, Stq
<1>11. ASSUME ~edge, NoHidden PROVE NoHidden'
  <2>1. edge = FALSE
    BY <1>3, <1>11
  <2> QED BY <1>2, <1>11, <2>1, KeepsSeen
<1>12. ASSUME ~edge, Emptying, ws <= REFILL + 1 PROVE NoHidden' \/ Emptying'
  <2>1. /\ rob = <<>> /\ (\A i \in Ldq : ~ldq_en[i]) /\ c + REFILL <= ws + refill
    BY <1>5, <1>6, <1>12 DEF Emptying
  <2>2. Len(lsu_buf) = 0 /\ StoresTaken = 0 /\ LoadsTaken = 0 /\ Len(rob) = 0 /\ (Drain <=> c > 0)
    BY <1>2, <2>1, Empty DEF Cycle
  <2>3. h = c
    <3>1. DoneStores = {}
      BY <2>2 DEF DoneStores
    <3>2. \A o \in c .. h - 1 : FALSE
      BY <1>2, <3>1 DEF Cycle, RobStores
    <3> QED BY <1>7, <3>2
  <2>4. c2 = IF c > 0 THEN c - 1 ELSE 0
    BY <1>7, <2>2, <2>3
  <2>5. CASE c2 = 0
    BY <1>10, <2>5
  <2>6. CASE c2 # 0
    <3>1. c > 1 /\ c2 = c - 1
      BY <1>7, <2>4, <2>6
    <3>2. refill > 0 /\ refill # 0
      <4>1. PICK f, m : f = refill /\ m = REFILL
        OBVIOUS
      <4>2. /\ f \in 0 .. m /\ m \in Nat /\ c + m <= ws + f /\ ws <= m + 1 /\ c > 1
            /\ ws \in Nat /\ c \in Nat
        BY <1>1, <1>5, <1>7, <1>8, <1>12, <2>1, <3>1, <4>1
      <4>3. f > 0 /\ f # 0
        BY <4>2
      <4> QED BY <4>1, <4>3
    <3>3. refill' = refill - 1 /\ refill \in Nat
      BY <1>1, <1>4, <1>8, <1>12, <3>2
    <3>4. c2 + REFILL <= ws + refill'
      BY <1>7, <1>8, <2>1, <3>1, <3>3
    <3>5. \A i \in Ldq : ~ldq_en'[i]
      <4>1. {LdqEntry(k) : k \in 1 .. LoadsTaken} = {}
        BY <2>2
      <4> QED BY <1>4, <2>1, <4>1 DEF NextLdqFlags
    <3>6. rob' = <<>>
      <4>1. CASE cancel
        BY <1>4, <4>1 DEF NextRob
      <4>2. CASE ~cancel
        <5>1. accs = <<>>
          <6>1. accs # <<>> => refill = 0
            BY <1>3, Zenon DEF LegalArrival
          <6> QED BY <3>2, <6>1
        <5>2. Len(Arriving(accs)) = 0
          <6>1. Arriving(accs) = [k \in 1 .. 0 |-> Arriving(accs)[k]]
            BY <5>1 DEF Arriving
          <6> HIDE DEF Arriving
          <6> QED BY <6>1, SeqIntro
        <5>3. Len(rob) - n = 0
          BY <1>3, <2>2 DEF LegalRetire
        <5>4. PICK x, y : /\ x = [k \in 1 .. Len(rob) - n |-> Reported(rob[n + k], StoreReports, {q.op.id : q \in LoadReports(edge)})]
                          /\ y = [k \in 1 .. Len(Arriving(accs)) |-> [op |-> Arriving(accs)[k], done |-> FALSE, entry |-> NONE]]
          OBVIOUS
        <5>5. rob' = x \o y
          BY <1>4, <4>2, <5>4 DEF NextRob
        <5>6. x = [k \in 1 .. 0 |-> x[k]] /\ y = [k \in 1 .. 0 |-> y[k]]
          BY <5>2, <5>3, <5>4
        <5>7. IsSeq(x) /\ IsSeq(y) /\ Len(x) = 0 /\ Len(y) = 0
          BY <5>6, SeqIntro
        <5>8. IsSeq(rob') /\ Len(rob') = 0
          BY <5>5, <5>7, Joined DEF JoinFacts
        <5> QED BY <5>8, SeqType
      <4> QED BY <4>1, <4>2
    <3> QED BY <1>4, <1>5, <1>6, <3>4, <3>5, <3>6 DEF Emptying, Ldq
  <2> QED BY <2>5, <2>6
<1>13. ws <= REFILL + 1 => NoHidden' \/ Emptying'
  BY <1>3, <1>5, <1>9, <1>11, <1>12 DEF Seen
<1> QED BY <1>4, <1>5, <1>13 DEF Seen

-----------------------------------------------------------------------------
LEMMA InitClear == Init => ClearInv
<1> SUFFICES ASSUME Init PROVE ClearInv
  OBVIOUS
<1>1. workload \in Workloads /\ lsu_buf = <<>> /\ \A i \in Stq : ~stq_en[i] /\ ~stq_commit[i]
  BY DEF Init, BufferInit, StqInit
<1>2. \A i \in Ldq : ~ldq_en[i]
  BY DEF Init, LdqInit
<1>3. HeldStores = {} /\ HeldLoads = {} /\ {i \in Stq : stq_commit[i]} = {}
  BY <1>1, <1>2 DEF HeldStores, HeldLoads
<1>4. Len(lsu_buf) = 0 /\ \A ld : Of(lsu_buf, ld) = {}
  BY <1>1 DEF Of
<1>5. Cardinality({}) = 0
  BY FS_EmptySet
<1>6. workload.stores \in Nat /\ workload.loads \in Nat
  BY <1>1, LsuAssumption
<1>7. Cardinality(HeldStores) = 0 /\ Cardinality(HeldLoads) = 0 /\ Committed = 0
  BY <1>3, <1>5 DEF Committed
<1>8. InBuf(TRUE) = 0 /\ InBuf(FALSE) = 0
  BY <1>4, <1>5 DEF InBuf
<1>9. Room
  <2>1. PICK ws, wl : ws = workload.stores /\ wl = workload.loads
    OBVIOUS
  <2>2. 0 + 0 <= ws /\ 0 + 0 <= wl
    BY <1>6, <2>1
  <2>3. /\ Cardinality(HeldStores) + InBuf(FALSE) = 0 + 0
        /\ Cardinality(HeldLoads) + InBuf(TRUE) = 0 + 0
    BY <1>7, <1>8, Zenon
  <2> QED BY <2>1, <2>2, <2>3 DEF Room
<1>10. NotNone
  BY <1>3, <1>4 DEF NotNone
<1>11. Seen
  BY <1>1 DEF Seen, NoHidden
<1>12. RetiredFit
  BY <1>7, Depths DEF RetiredFit
<1> QED BY <1>9, <1>10, <1>11, <1>12 DEF ClearInv

LEMMA StutterClear == ClearInv /\ UNCHANGED vars => ClearInv'
<1> SUFFICES ASSUME ClearInv, UNCHANGED vars PROVE ClearInv'
  OBVIOUS
<1>1. /\ lsu_buf' = lsu_buf /\ rob' = rob /\ refill' = refill /\ workload' = workload
      /\ ldq_en' = ldq_en /\ stq_en' = stq_en /\ stq_commit' = stq_commit /\ stq_pld' = stq_pld
  BY DEF vars, stq, ldq
<1>2. HeldStores' = HeldStores /\ HeldLoads' = HeldLoads /\ Committed' = Committed
  BY <1>1 DEF HeldStores, HeldLoads, Committed
<1>3. InBuf(TRUE)' = InBuf(TRUE) /\ InBuf(FALSE)' = InBuf(FALSE)
  BY <1>1 DEF InBuf
<1>4. Room'
  BY <1>1, <1>2, <1>3 DEF ClearInv, Room
<1>5. NotNone'
  BY <1>1, <1>2 DEF ClearInv, NotNone
<1>6. Seen'
  BY <1>1, <1>2 DEF ClearInv, Seen, NoHidden, Emptying
<1>7. RetiredFit'
  BY <1>2 DEF ClearInv, RetiredFit
<1> QED BY <1>4, <1>5, <1>6, <1>7 DEF ClearInv

LEMMA NextClear ==
  ASSUME AllClear
  PROVE  LsuInv /\ ClearInv /\ Next => (LsuInv /\ ClearInv)'
<1> SUFFICES ASSUME LsuInv, ClearInv, Next PROVE LsuInv' /\ ClearInv'
  OBVIOUS
<1>1. Regular /\ OffersInOrder
  BY ClearRegular DEF Regular
<1>2. RetiredFit'
  BY NextFit
<1>3. LsuInv'
  BY <1>1, <1>2, NextInv
<1>4. Room /\ NotNone /\ Seen
  BY DEF ClearInv
<1>5. Room' /\ NotNone' /\ Seen'
  BY <1>1, <1>2, <1>4, NextRoom, NextNotNone, NextSeen
<1> QED BY <1>2, <1>3, <1>5 DEF ClearInv

(* For the programs that keep clear of them, and with every size of buffer *)
(* and queues, the three situations do not arise, however the queues fill, *)
(* drain and are cancelled.                                                *)
THEOREM LsuStaysRegular ==
  ASSUME AllClear
  PROVE  Spec => []Regular
<1>1. Init => LsuInv /\ ClearInv
  BY InitInv, InitClear
<1>2. LsuInv /\ ClearInv /\ [Next]_vars => (LsuInv /\ ClearInv)'
  BY NextClear, StutterInv, StutterClear
<1>3. LsuInv /\ ClearInv => Regular
  BY ClearRegular
<1> QED BY <1>1, <1>2, <1>3, PTL DEF Spec

(* So what the unit promises of types, credits, order, reports and memory  *)
(* holds for them in every run.                                            *)
THEOREM LsuClear ==
  ASSUME AllClear
  PROVE  Spec => [](LsuTypeOK /\ CreditExact /\ LsuInOrder /\ OneReportEach /\ StoresReachMemory)
BY LsuStaysRegular, LsuTypes, LsuCredits, LsuOrder, LsuReports, LsuStores, PTL

(* If the refill is long enough, the loads of a new path are compared with *)
(* every store they need as well: none of the five situations arises,      *)
THEOREM LsuRegular ==
  ASSUME AllClear, DrainInTime
  PROVE  Spec => []RegularData
<1>1. Init => LsuInv /\ ClearInv
  BY InitInv, InitClear
<1>2. LsuInv /\ ClearInv /\ [Next]_vars => (LsuInv /\ ClearInv)'
  BY NextClear, StutterInv, StutterClear
<1>3. LsuInv /\ ClearInv => RegularData
  BY ClearRegular
<1> QED BY <1>1, <1>2, <1>3, PTL DEF Spec

(* and every load returns what program order says, if loads and stores     *)
(* that share a byte start together.                                       *)
THEOREM LsuLoadsClear ==
  ASSUME AllClear, DrainInTime, StartTogether
  PROVE  Spec => []LoadsReadProgramOrder
BY LsuRegular, LsuLoads, PTL
=============================================================================

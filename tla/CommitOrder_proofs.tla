-------------------------- MODULE CommitOrder_proofs --------------------------
(***************************************************************************)
(* Retirement is sequential execution, for every program without floating- *)
(* point instructions, whatever the front end predicts.  (With them it is  *)
(* not: the floating-point unit does not see a cancel.)                    *)
(*                                                                         *)
(* The argument: the ids in use form a path through the program, each at   *)
(* the address predicted for its predecessor.  What waits in a unit and    *)
(* what has reported carry the address the path has at their id.           *)
(***************************************************************************)
EXTENDS CommitQueue_proofs

(* The address of the k-th instruction in flight; k = Used is the next one *)
(* to be delivered.                                                        *)
PcAt(k) == IF k = 0 THEN real_next_pc ELSE v_be_pld[Slot(rd_ptr, k - 1)]

NextPcAt(k) == IF k = 0 THEN real_next_pc' ELSE v_be_pld'[Slot(rd_ptr', k - 1)]

FloatIdle ==
  multi_cycle_cnt = FP_STAGES /\ ~instruction_en_o_d /\ ~instruction_en_o

Types ==
  /\ real_next_pc \in Pc /\ fetch_pc \in Pc
  /\ v_commit_queue \in [Ids -> Result \cup {NONE}]
  /\ waiting \subseteq Inst /\ mext_d \in [1 .. 2 -> Inst \cup {NONE}]

(* A unit's instruction is in one place.                                   *)
OnePlace ==
  /\ mext_d[1] # NONE => mext_d[1] # mext_d[2] /\ mext_d[1] \notin waiting
  /\ mext_d[2] \notin waiting

UnitsOnPath ==
  \A u \in InUnits : \E k \in 0 .. Used - 1 : u.id = Slot(rd_ptr, k) /\ u.pc = PcAt(k)

ResultsOnPath ==
  \A k \in 0 .. Used - 1 :
    v_commit_queue[Slot(rd_ptr, k)] # NONE =>
      /\ v_commit_queue[Slot(rd_ptr, k)].inst_pc = PcAt(k)
      /\ v_commit_queue[Slot(rd_ptr, k)].inst_nxt_pc \in Succ[PcAt(k)]

UnitOrResult ==
  \A i \in Ids : v_be_pld[i] # NONE /\ v_commit_queue[i] = NONE
                   <=> \E u \in InUnits : u.id = i

ResultUsed == \A i \in Ids : v_commit_queue[i] # NONE => v_be_pld[i] # NONE

OrderInv ==
  /\ CreditInv
  /\ Types
  /\ fetch_pc = PcAt(Used)
  /\ UnitsOnPath
  /\ ResultsOnPath
  /\ UnitOrResult
  /\ ResultUsed
  /\ OnePlace
  /\ FloatIdle

LEMMA Program ==
  /\ NONE \notin Pc /\ NONE \notin Inst /\ NONE \notin Result
  /\ Succ \in [Pc -> SUBSET Pc] /\ ResetPcs \subseteq Pc
BY CommitAssumption

(* Two units' instructions with one id are the same.                       *)
LEMMA UnitsDistinct ==
  ASSUME OrderInv, NEW u \in InUnits, NEW w \in InUnits, u.id = w.id
  PROVE  u = w
<1>1. u \in Inst /\ w \in Inst
  BY DEF OrderInv, Types, InUnits
<1>2. PICK k \in 0 .. Used - 1 : u.id = Slot(rd_ptr, k) /\ u.pc = PcAt(k)
  BY DEF OrderInv, UnitsOnPath
<1>3. PICK j \in 0 .. Used - 1 : w.id = Slot(rd_ptr, j) /\ w.pc = PcAt(j)
  BY DEF OrderInv, UnitsOnPath
<1>4. Used \in 0 .. D /\ rd_ptr \in Ids /\ D \in Nat
  BY CreditExactSlots, Depth DEF OrderInv, CreditInv
<1>5. k \in 0 .. D - 1 /\ j \in 0 .. D - 1
  BY <1>4
<1>6. k = j
  BY <1>2, <1>3, <1>4, <1>5, SlotInjective
<1>7. u.pc = w.pc
  BY <1>2, <1>3, <1>6
<1> QED BY <1>1, <1>7 DEF Inst

(* The retiring group executes the path, and up to a misprediction the     *)
(* path is where it led.                                                   *)
LEMMA RetiredOnPath ==
  ASSUME OrderInv, NEW j \in 0 .. rd_ptr_add - 1
  PROVE  /\ Retired(j) \in Result
         /\ Retired(j).inst_pc = PcAt(j)
         /\ Retired(j).inst_nxt_pc \in Succ[PcAt(j)]
         /\ j < rd_ptr_add - 1 \/ ~CancelEdge => PcAt(j + 1) = Retired(j).inst_nxt_pc
<1>1. /\ rd_ptr_add \in 0 .. Used /\ RfCommit(j) /\ v_commit_queue[Slot(rd_ptr, j)] # NONE
      /\ \A k \in 0 .. rd_ptr_add - 1 : RfCommit(k)
  BY RetiringUsed DEF OrderInv
<1>2. Used \in 0 .. D /\ D \in Nat /\ rd_ptr \in Ids
  BY CreditExactSlots, Depth DEF OrderInv, CreditInv
<1>3. j \in 0 .. Used - 1 /\ j \in 0 .. D
  BY <1>1, <1>2
<1>4. Slot(rd_ptr, j) \in Ids
  BY <1>2, <1>3, SlotValue
<1>5. Retired(j) = v_commit_queue[Slot(rd_ptr, j)]
  BY DEF Retired, Head, Slot, D
<1>6. /\ Retired(j) \in Result /\ Retired(j).inst_pc = PcAt(j)
      /\ Retired(j).inst_nxt_pc \in Succ[PcAt(j)]
  BY <1>1, <1>3, <1>4, <1>5 DEF OrderInv, Types, ResultsOnPath
<1>7. PcAt(j + 1) = v_be_pld[Slot(rd_ptr, j)]
  <2>1. j + 1 # 0 /\ j + 1 - 1 = j
    BY <1>3
  <2> QED BY <2>1 DEF PcAt
<1>8. ASSUME Correct(j) PROVE PcAt(j + 1) = Retired(j).inst_nxt_pc
  BY <1>5, <1>7, <1>8 DEF Correct, Head, Slot, D
<1>9. j < rd_ptr_add - 1 => Correct(j)
  <2>1. SUFFICES ASSUME j < rd_ptr_add - 1 PROVE Correct(j)
    OBVIOUS
  <2>2. j + 1 \in 0 .. rd_ptr_add - 1 /\ j \in 0 .. j + 1 - 1
    BY <1>1, <1>2, <2>1
  <2>3. RfCommit(j + 1)
    BY <1>1, <2>2
  <2> QED BY <2>2, <2>3 DEF RfCommit
<1>10. ~CancelEdge => Correct(j)
  <2>1. j \in Channels
    BY RetiringPrefix
  <2> QED BY <1>1, <2>1 DEF CancelEdge, RfCommit
<1> QED BY <1>6, <1>8, <1>9, <1>10

-----------------------------------------------------------------------------
(* Completing instructions report one result each, with their address.     *)
LEMMA ResultFacts ==
  ASSUME OrderInv, NEW now \in SUBSET waiting, NEW res \in Results(now)
  PROVE  /\ Completing(now) \subseteq InUnits
         /\ \A r \in res : \E c \in Completing(now) :
              r.id = c.id /\ r.inst_pc = c.pc /\ r.inst_nxt_pc \in Succ[c.pc] /\ r \in Result
         /\ \A c \in Completing(now) : \E r \in res : r.id = c.id
<1>1. Completing(now) \subseteq InUnits
  BY DEF Completing, InUnits, OrderInv, FloatIdle
<1>2. Completing(now) \subseteq Inst
  BY <1>1 DEF InUnits, OrderInv, Types
<1>3. PICK nxt : /\ \A c \in Completing(now) : nxt[c] \in Succ[c.pc]
                 /\ res = {[id |-> c.id, inst_pc |-> c.pc, inst_nxt_pc |-> nxt[c]] :
                             c \in Completing(now)}
  BY DEF Results
<1>4. ASSUME NEW c \in Completing(now)
      PROVE  [id |-> c.id, inst_pc |-> c.pc, inst_nxt_pc |-> nxt[c]] \in Result
  BY <1>2, <1>3, Program DEF Inst, Result
<1>5. ASSUME NEW r \in res
      PROVE  \E c \in Completing(now) :
               r.id = c.id /\ r.inst_pc = c.pc /\ r.inst_nxt_pc \in Succ[c.pc] /\ r \in Result
  <2>1. PICK c \in Completing(now) :
          r = [id |-> c.id, inst_pc |-> c.pc, inst_nxt_pc |-> nxt[c]]
    BY <1>3
  <2>2. r.id = c.id /\ r.inst_pc = c.pc /\ r.inst_nxt_pc = nxt[c] /\ r \in Result
    BY <1>4, <2>1
  <2> QED BY <1>3, <2>2
<1>6. ASSUME NEW c \in Completing(now) PROVE \E r \in res : r.id = c.id
  <2>1. [id |-> c.id, inst_pc |-> c.pc, inst_nxt_pc |-> nxt[c]] \in res
    BY <1>3
  <2> QED BY <2>1
<1> QED BY <1>1, <1>5, <1>6

(* Units in a cycle without a cancel: what completes leaves, what is       *)
(* dispatched enters.                                                      *)
LEMMA UnitStep ==
  ASSUME OrderInv, FpPc = {}, NEW now \in SUBSET waiting,
         NEW mx \in waiting \cup {NONE}, NEW fx \in waiting \cup {NONE}, NEW new,
         LegalIssue(now, mx, fx), ~CancelEn, NextWaiting(now, mx, fx, new), NextMext(mx),
         new \subseteq Inst, new \cap InUnits = {}
  PROVE  /\ InUnits' = (InUnits \ Completing(now)) \cup new
         /\ OnePlace'
         /\ waiting' \subseteq Inst /\ mext_d' \in [1 .. 2 -> Inst \cup {NONE}]
<1>1. /\ waiting \subseteq Inst /\ mext_d \in [1 .. 2 -> Inst \cup {NONE}] /\ NONE \notin Inst
      /\ 1 \in 1 .. 2 /\ 2 \in 1 .. 2
  BY Program DEF OrderInv, Types
<1>2. /\ mext_d[1] # NONE => mext_d[1] # mext_d[2] /\ mext_d[1] \notin waiting
      /\ mext_d[2] \notin waiting
  BY DEF OrderInv, OnePlace
<1>3. fx = NONE /\ (mx # NONE => mx \in waiting \ now)
  BY DEF LegalIssue
<1>4. waiting' = (waiting \ (now \cup {mx})) \cup new
  BY <1>1, <1>3 DEF NextWaiting, CancelEn
<1>5. mext_d' \in [1 .. 2 -> Inst \cup {NONE}] /\ mext_d'[1] = mx /\ mext_d'[2] = mext_d[1]
  BY <1>1, <1>3 DEF NextMext
<1>6. Completing(now) = now \cup ({mext_d[2]} \ {NONE})
  BY DEF Completing, OrderInv, FloatIdle
<1>7. InUnits = waiting \cup ({mext_d[1], mext_d[2]} \ {NONE})
  BY <1>1 DEF InUnits
<1>8. InUnits' = waiting' \cup ({mext_d'[1], mext_d'[2]} \ {NONE})
  BY <1>1 DEF InUnits
<1>9. InUnits' = (InUnits \ Completing(now)) \cup new
  BY <1>1, <1>2, <1>3, <1>4, <1>5, <1>6, <1>7, <1>8
<1>10. OnePlace'
  BY <1>1, <1>2, <1>3, <1>4, <1>5, <1>7 DEF OnePlace
<1> QED BY <1>1, <1>4, <1>5, <1>9, <1>10
-----------------------------------------------------------------------------
(* Without floating-point instructions their unit never starts.            *)
LEMMA IdleStays ==
  ASSUME FloatIdle, FpPc = {}, NEW now, NEW mx, NEW fx, LegalIssue(now, mx, fx), NextFloat(fx)
  PROVE  FloatIdle'
<1>1. fx = NONE
  BY DEF LegalIssue
<1>2. FP_STAGES \in Nat
  BY CommitAssumption
<1>3. /\ multi_cycle_cnt = FP_STAGES /\ ~instruction_en_o_d /\ ~instruction_en_o
      /\ FP_STAGES # FP_STAGES - 1 /\ ~(FP_STAGES < FP_STAGES)
  BY <1>2 DEF FloatIdle
<1>4. /\ multi_cycle_cnt' = multi_cycle_cnt /\ instruction_en_o' = instruction_en_o_d
      /\ instruction_en_o_d' = (multi_cycle_cnt = FP_STAGES - 1)
  BY <1>1, <1>3, Zenon DEF NextFloat
<1> QED BY <1>3, <1>4, Zenon DEF FloatIdle

(* A cycle that cancels leaves an empty path that starts where the         *)
(* mispredicted instruction led; in the cycle after it nothing happens.    *)
LEMMA CancelStep ==
  ASSUME OrderInv, FpPc = {}, CancelEn, CreditInv',
         NEW n \in 0 .. INST_READ_CHANNEL, NEW tgt \in [1 .. n -> Pc], LegalDispatch(n),
         NEW now \in SUBSET waiting, NEW mx \in waiting \cup {NONE},
         NEW fx \in waiting \cup {NONE}, NEW res, LegalIssue(now, mx, fx),
         Clock(n, tgt, now, mx, fx, res)
  PROVE  OrderInv'
<1>1. /\ \A i \in Ids : v_be_pld'[i] = NONE /\ v_commit_queue'[i] = NONE
      /\ v_commit_queue' \in [Ids -> Result \cup {NONE}]
  BY DEF Clock, NextBePld, NextQueue
<1>2. mext_d' \in [1 .. 2 -> Inst \cup {NONE}] /\ mext_d'[1] = NONE /\ mext_d'[2] = NONE
  BY DEF Clock, NextMext
<1>3. FloatIdle'
  BY IdleStays DEF Clock, OrderInv
<1>4. Used \in 0 .. D /\ D \in Nat \ {0} /\ rd_ptr_add \in 0 .. Used
  BY CreditExactSlots, RetiringUsed, Depth DEF OrderInv
<1>5. waiting' = {} /\ Used' = 0 /\ fetch_pc' = real_next_pc' /\ real_next_pc' \in Pc
  <2>1. CASE CancelEdge
    <3>1. waiting' = {} /\ Used' = 0
      BY <2>1, Depth DEF Clock, NextWaiting, NextFront, Used, D
    <3>2. rd_ptr_add > 0 /\ rd_ptr_add # 0 /\ rd_ptr_add - 1 \in 0 .. rd_ptr_add - 1
      BY <1>4, <2>1, CancelRetires
    <3>3. /\ fetch_pc' = Retired(rd_ptr_add - 1).inst_nxt_pc
          /\ real_next_pc' = Retired(rd_ptr_add - 1).inst_nxt_pc
      BY <2>1, <3>2 DEF Clock, NextFront, NextReal
    <3>4. Retired(rd_ptr_add - 1) \in Result
      BY <3>2, RetiredOnPath
    <3> QED BY <3>1, <3>3, <3>4 DEF Result
  <2>2. CASE ~CancelEdge
    <3>1. cancel_cnt < CANCEL_CNT_NUM /\ Used = 0 /\ rd_ptr_add = 0 /\ n = 0
      BY <1>4, <2>2 DEF CancelEn, OrderInv, CreditInv, LegalDispatch
    <3>2. waiting = {}
      BY <3>1 DEF OrderInv, UnitsOnPath, InUnits
    <3>3. waiting' = {}
      BY <2>2, <3>1, <3>2 DEF Clock, NextWaiting, Dispatched
    <3>4. fetch_pc' = fetch_pc /\ real_next_pc' = real_next_pc /\ Used' = Used
      BY <2>2, <3>1, Depth DEF Clock, NextFront, NextReal, Used, OrderInv, CreditInv, D
    <3>5. fetch_pc = real_next_pc
      BY <3>1 DEF OrderInv, PcAt
    <3> QED BY <3>1, <3>3, <3>4, <3>5 DEF OrderInv, Types
  <2> QED BY <2>1, <2>2
<1>6. InUnits' = {}
  <2>1. \A s \in 1 .. 2 : mext_d'[s] = NONE
    BY <1>2
  <2> QED BY <1>5, <2>1 DEF InUnits
<1>7. Types'
  BY <1>1, <1>2, <1>5 DEF Types
<1>8. fetch_pc' = PcAt(Used)'
  BY <1>5 DEF PcAt
<1>9. UnitsOnPath'
  BY <1>6 DEF UnitsOnPath
<1>10. ResultsOnPath'
  BY <1>5 DEF ResultsOnPath
<1>11. UnitOrResult'
  BY <1>1, <1>6 DEF UnitOrResult
<1>12. OnePlace' /\ ResultUsed'
  BY <1>1, <1>2, <1>5 DEF OnePlace, ResultUsed
<1> QED BY <1>3, <1>7, <1>8, <1>9, <1>10, <1>11, <1>12 DEF OrderInv

(* Without a cancel the path loses its first rd_ptr_add instructions and   *)
(* grows by what is dispatched.                                            *)
LEMMA PathStep ==
  ASSUME OrderInv, ~CancelEn, NEW n \in 0 .. INST_READ_CHANNEL, NEW tgt \in [1 .. n -> Pc],
         LegalDispatch(n), NextPtr, NextReal, NextFront(n, tgt), NextBePld(n, tgt)
  PROVE  /\ Used' = Used - rd_ptr_add + n /\ Used + n \in 0 .. D
         /\ \A k \in 0 .. D : rd_ptr_add + k <= D =>
              Slot(rd_ptr', k) = Slot(rd_ptr, rd_ptr_add + k)
         /\ \A k \in 0 .. Used - rd_ptr_add : NextPcAt(k) = PcAt(rd_ptr_add + k)
         /\ \A k \in 1 .. n : NextPcAt(Used - rd_ptr_add + k) = tgt[k]
         /\ fetch_pc' = NextPcAt(Used')
         /\ real_next_pc' \in Pc /\ fetch_pc' \in Pc
<1> DEFINE a == rd_ptr_add
<1>1. /\ Used \in 0 .. D /\ D \in Nat \ {0} /\ rd_ptr \in Ids /\ a \in 0 .. Used
      /\ n \in 0 .. D /\ commit_credit_cnt \in 0 .. D
  BY CreditExactSlots, RetiringUsed, Depth DEF OrderInv, CreditInv, D
<1>2. ~CancelEdge
  BY DEF CancelEn
<1>3. /\ n > 0 => Used + n < D
      /\ \A k \in 1 .. n : v_be_pld'[Slot(rd_ptr, Used + k - 1)] = tgt[k]
      /\ \A k \in a .. Used - 1 : v_be_pld'[Slot(rd_ptr, k)] = v_be_pld[Slot(rd_ptr, k)]
  BY WindowStep DEF OrderInv
<1>4. rd_ptr' = Slot(rd_ptr, a)
  BY DEF NextPtr, Head, Slot, D
<1>5. Used' = Used - a + n /\ Used + n \in 0 .. D
  <2>1. commit_credit_cnt' = commit_credit_cnt + a - n
    BY <1>2 DEF NextFront
  <2>2. Used = D - commit_credit_cnt /\ Used' = D - commit_credit_cnt'
    BY DEF Used, D
  <2> QED BY <1>1, <1>3, <2>1, <2>2
<1>6. \A k \in 0 .. D : a + k <= D => Slot(rd_ptr', k) = Slot(rd_ptr, a + k)
  BY <1>1, <1>4, SlotShift
<1>7. real_next_pc' = PcAt(a)
  <2>1. CASE a = 0
    BY <2>1 DEF NextReal, PcAt
  <2>2. CASE a # 0
    <3>1. a - 1 \in 0 .. a - 1 /\ (a - 1) + 1 = a
      BY <1>1, <2>2
    <3>2. PcAt((a - 1) + 1) = Retired(a - 1).inst_nxt_pc
      BY <1>2, <3>1, RetiredOnPath
    <3> QED BY <2>2, <3>1, <3>2 DEF NextReal
  <2> QED BY <2>1, <2>2
<1>8. real_next_pc' \in Pc
  <2>1. CASE a = 0
    BY <2>1 DEF NextReal, OrderInv, Types
  <2>2. CASE a # 0
    <3>1. a - 1 \in 0 .. a - 1
      BY <1>1, <2>2
    <3>2. Retired(a - 1) \in Result
      BY <3>1, RetiredOnPath
    <3> QED BY <2>2, <3>2 DEF NextReal, Result
  <2> QED BY <2>1, <2>2
<1>9. \A k \in 1 .. D : a + k <= D => NextPcAt(k) = v_be_pld'[Slot(rd_ptr, a + k - 1)]
  <2> TAKE k \in 1 .. D
  <2> HAVE a + k <= D
  <2>1. k # 0 /\ k - 1 \in 0 .. D /\ a + (k - 1) <= D /\ a + (k - 1) = a + k - 1
    BY <1>1
  <2>2. Slot(rd_ptr', k - 1) = Slot(rd_ptr, a + k - 1)
    BY <1>6, <2>1
  <2> QED BY <2>1, <2>2 DEF NextPcAt
<1>10. \A k \in 0 .. Used - a : NextPcAt(k) = PcAt(a + k)
  <2> TAKE k \in 0 .. Used - a
  <2>1. CASE k = 0
    <3>1. NextPcAt(0) = real_next_pc' /\ a + 0 = a
      BY <1>1 DEF NextPcAt
    <3> QED BY <1>7, <2>1, <3>1
  <2>2. CASE k # 0
    <3>1. k \in 1 .. D /\ a + k <= D /\ a + k - 1 \in a .. Used - 1 /\ a + k # 0
      BY <1>1, <2>2
    <3>2. NextPcAt(k) = v_be_pld[Slot(rd_ptr, a + k - 1)]
      BY <1>3, <1>9, <3>1
    <3>3. PcAt(a + k) = v_be_pld[Slot(rd_ptr, a + k - 1)]
      <4>1. \A m : m # 0 => PcAt(m) = v_be_pld[Slot(rd_ptr, m - 1)]
        BY DEF PcAt
      <4>2. (a + k) - 1 = a + k - 1
        BY <1>1
      <4> QED BY <3>1, <4>1, <4>2
    <3> QED BY <3>2, <3>3, Zenon
  <2> QED BY <2>1, <2>2
<1>11. \A k \in 1 .. n : NextPcAt(Used - a + k) = tgt[k]
  <2> TAKE k \in 1 .. n
  <2> DEFINE m == Used - a + k
  <2>1. m \in 1 .. D /\ a + m <= D /\ a + m - 1 = Used + k - 1
    BY <1>1, <1>5
  <2> HIDE DEF m
  <2>2. NextPcAt(m) = v_be_pld'[Slot(rd_ptr, Used + k - 1)]
    BY <1>9, <2>1
  <2>3. NextPcAt(m) = tgt[k]
    BY <1>3, <2>2
  <2> QED BY <2>3 DEF m
<1>12. fetch_pc' = NextPcAt(Used')
  <2> DEFINE u == Used'
  <2>1. CASE n = 0
    <3>1. fetch_pc' = fetch_pc /\ fetch_pc = PcAt(Used)
      BY <1>2, <2>1 DEF NextFront, OrderInv
    <3>2. u \in 0 .. Used - a /\ a + u = Used
      BY <1>1, <1>5, <2>1
    <3> HIDE DEF u
    <3>3. NextPcAt(u) = PcAt(Used)
      BY <1>10, <3>2
    <3> QED BY <3>1, <3>3 DEF u
  <2>2. CASE n # 0
    <3>1. fetch_pc' = tgt[n] /\ n \in 1 .. n
      BY <1>1, <1>2, <2>2 DEF NextFront
    <3>2. NextPcAt(Used - a + n) = tgt[n]
      BY <1>11, <3>1
    <3> QED BY <1>5, <3>1, <3>2
  <2> QED BY <2>1, <2>2
<1>13. fetch_pc' \in Pc
  <2>1. fetch_pc' = IF n = 0 THEN fetch_pc ELSE tgt[n]
    BY <1>2 DEF NextFront
  <2> QED BY <1>1, <2>1 DEF OrderInv, Types
<1> QED BY <1>5, <1>6, <1>8, <1>10, <1>11, <1>12, <1>13
(* The queue in a cycle without a cancel: an id gets the result of the     *)
(* instruction that completes under it, or keeps what it has.              *)
LEMMA QueueStep ==
  ASSUME OrderInv, ~CancelEn, NEW now \in SUBSET waiting, NEW res \in Results(now),
         NextQueue(res)
  PROVE  /\ v_commit_queue' \in [Ids -> Result \cup {NONE}]
         /\ \A c \in Completing(now) :
              /\ v_commit_queue'[c.id] # NONE
              /\ v_commit_queue'[c.id].inst_pc = c.pc
              /\ v_commit_queue'[c.id].inst_nxt_pc \in Succ[c.pc]
         /\ \A i \in Ids \ RetiringIds :
              (\A c \in Completing(now) : c.id # i) => v_commit_queue'[i] = v_commit_queue[i]
         /\ \A i \in RetiringIds :
              (\A c \in Completing(now) : c.id # i) => v_commit_queue'[i] = NONE
<1>1. /\ Completing(now) \subseteq InUnits
      /\ \A r \in res : \E c \in Completing(now) :
           r.id = c.id /\ r.inst_pc = c.pc /\ r.inst_nxt_pc \in Succ[c.pc] /\ r \in Result
      /\ \A c \in Completing(now) : \E r \in res : r.id = c.id
  BY ResultFacts
<1>2. NONE \notin Result /\ \A c \in Completing(now) : c.id \in Ids
  BY <1>1, Program DEF InUnits, OrderInv, Types, Inst
<1>3. v_commit_queue \in [Ids -> Result \cup {NONE}]
  BY DEF OrderInv, Types
<1>4. v_commit_queue' = [i \in Ids |->
         IF \E r \in res : r.id = i THEN CHOOSE r \in res : r.id = i
         ELSE IF i \in RetiringIds THEN NONE ELSE v_commit_queue[i]]
  BY DEF NextQueue
<1>5. ASSUME NEW i \in Ids, \E r \in res : r.id = i
      PROVE  v_commit_queue'[i] \in res /\ v_commit_queue'[i].id = i
  BY <1>4, <1>5
<1>6. \A i \in Ids : (\A c \in Completing(now) : c.id # i) => ~ \E r \in res : r.id = i
  BY <1>1
<1>7. v_commit_queue' \in [Ids -> Result \cup {NONE}]
  <2>1. \A i \in Ids : v_commit_queue'[i] \in Result \cup {NONE}
    BY <1>1, <1>3, <1>4, <1>5
  <2> QED BY <1>4, <2>1
<1>8. ASSUME NEW c \in Completing(now)
      PROVE  /\ v_commit_queue'[c.id] # NONE
             /\ v_commit_queue'[c.id].inst_pc = c.pc
             /\ v_commit_queue'[c.id].inst_nxt_pc \in Succ[c.pc]
  <2> DEFINE r == v_commit_queue'[c.id]
  <2>1. r \in res /\ r.id = c.id
    BY <1>1, <1>2, <1>5
  <2> HIDE DEF r
  <2>2. PICK w \in Completing(now) :
          r.id = w.id /\ r.inst_pc = w.pc /\ r.inst_nxt_pc \in Succ[w.pc] /\ r \in Result
    BY <1>1, <2>1
  <2>3. w = c
    BY <1>1, <2>1, <2>2, UnitsDistinct
  <2> QED BY <1>2, <2>2, <2>3 DEF r
<1>9. RetiringIds \subseteq Ids
  BY CreditExactSlots, SlotValue, RetiringUsed, Depth DEF OrderInv, CreditInv
<1> QED BY <1>4, <1>6, <1>7, <1>8, <1>9

(* Dispatched instructions continue the path.                              *)
LEMMA DispatchStep ==
  ASSUME OrderInv, ~CancelEn, NEW n \in 0 .. INST_READ_CHANNEL, NEW tgt \in [1 .. n -> Pc],
         LegalDispatch(n), NextPtr, NextReal, NextFront(n, tgt), NextBePld(n, tgt)
  PROVE  /\ Dispatched(n, tgt) \subseteq Inst
         /\ \A w \in Dispatched(n, tgt) : \E k \in Used .. Used + n - 1 :
              w.id = Slot(rd_ptr, k) /\ w.pc = NextPcAt(k - rd_ptr_add)
         /\ \A k \in Used .. Used + n - 1 : \E w \in Dispatched(n, tgt) : w.id = Slot(rd_ptr, k)
<1> DEFINE a == rd_ptr_add
           pc(i) == IF i = 1 THEN fetch_pc ELSE tgt[i - 1]
<1>1. /\ Used \in 0 .. D /\ D \in Nat \ {0} /\ rd_ptr \in Ids /\ a \in 0 .. Used
      /\ n \in 0 .. D
  BY CreditExactSlots, RetiringUsed, Depth DEF OrderInv, CreditInv, D
<1>2. /\ Used + n \in 0 .. D
      /\ \A k \in 0 .. Used - a : NextPcAt(k) = PcAt(a + k)
      /\ \A k \in 1 .. n : NextPcAt(Used - a + k) = tgt[k]
  BY PathStep
<1>3. \A k \in 1 .. n : Idx(k) = Slot(rd_ptr, Used + k - 1)
  BY WindowStep DEF OrderInv
<1>4. ASSUME NEW i \in 1 .. n
      PROVE  /\ Idx(i) \in Ids /\ pc(i) \in Pc
             /\ Used + i - 1 \in Used .. Used + n - 1
             /\ pc(i) = NextPcAt((Used + i - 1) - a)
  <2>1. Used + i - 1 \in Used .. Used + n - 1 /\ Used + i - 1 \in 0 .. D
    BY <1>1, <1>2
  <2>2. Idx(i) \in Ids
    BY <1>1, <1>3, <2>1, SlotValue
  <2>3. CASE i = 1
    <3>1. /\ Used - a \in 0 .. Used - a /\ a + (Used - a) = Used
          /\ (Used + i - 1) - a = Used - a
      BY <1>1, <2>3
    <3>2. pc(i) = fetch_pc /\ fetch_pc = PcAt(Used) /\ fetch_pc \in Pc
      BY <2>3 DEF OrderInv, Types
    <3> HIDE DEF pc
    <3>3. NextPcAt(Used - a) = PcAt(Used)
      BY <1>2, <3>1
    <3> QED BY <2>1, <2>2, <3>1, <3>2, <3>3
  <2>4. CASE i # 1
    <3>1. i - 1 \in 1 .. n /\ (Used + i - 1) - a = Used - a + (i - 1)
      BY <1>1, <2>4
    <3>2. pc(i) = tgt[i - 1] /\ tgt[i - 1] \in Pc
      BY <2>4, <3>1
    <3> HIDE DEF pc
    <3>3. NextPcAt(Used - a + (i - 1)) = tgt[i - 1]
      BY <1>2, <3>1
    <3> QED BY <2>1, <2>2, <3>1, <3>2, <3>3
  <2> QED BY <2>3, <2>4
<1>5. Dispatched(n, tgt) = {[id |-> Idx(i), pc |-> pc(i)] : i \in 1 .. n}
  BY DEF Dispatched
<1> HIDE DEF pc
<1>6. Dispatched(n, tgt) \subseteq Inst
  BY <1>4, <1>5 DEF Inst
<1>7. ASSUME NEW w \in Dispatched(n, tgt)
      PROVE  \E k \in Used .. Used + n - 1 :
               w.id = Slot(rd_ptr, k) /\ w.pc = NextPcAt(k - a)
  <2>1. PICK i \in 1 .. n : w = [id |-> Idx(i), pc |-> pc(i)]
    BY <1>5
  <2>2. w.id = Slot(rd_ptr, Used + i - 1) /\ w.pc = pc(i)
    BY <1>3, <2>1
  <2> QED BY <1>4, <2>2
<1>8. ASSUME NEW k \in Used .. Used + n - 1
      PROVE  \E w \in Dispatched(n, tgt) : w.id = Slot(rd_ptr, k)
  <2>1. k - Used + 1 \in 1 .. n /\ Used + (k - Used + 1) - 1 = k
    BY <1>1
  <2>2. Idx(k - Used + 1) = Slot(rd_ptr, k)
    BY <1>3, <2>1
  <2>3. [id |-> Idx(k - Used + 1), pc |-> pc(k - Used + 1)] \in Dispatched(n, tgt)
    BY <1>5, <2>1
  <2> QED BY <2>2, <2>3
<1> QED BY <1>6, <1>7, <1>8

LEMMA RunStep ==
  ASSUME OrderInv, FpPc = {}, ~CancelEn, CreditInv',
         NEW n \in 0 .. INST_READ_CHANNEL, NEW tgt \in [1 .. n -> Pc], LegalDispatch(n),
         NEW now \in SUBSET waiting, NEW mx \in waiting \cup {NONE},
         NEW fx \in waiting \cup {NONE}, NEW res \in Results(now), LegalIssue(now, mx, fx),
         Clock(n, tgt, now, mx, fx, res)
  PROVE  OrderInv'
<1> DEFINE a   == rd_ptr_add
           new == Dispatched(n, tgt)
<1>1. /\ Used \in 0 .. D /\ D \in Nat \ {0} /\ rd_ptr \in Ids /\ a \in 0 .. Used
      /\ n \in 0 .. D
      /\ \A i \in Ids : v_be_pld[i] # NONE <=> InUse(i, rd_ptr, Used)
      /\ RetiringIds = {Slot(rd_ptr, k) : k \in 0 .. a - 1}
      /\ \A k \in 0 .. a - 1 : v_commit_queue[Slot(rd_ptr, k)] # NONE
  BY CreditExactSlots, RetiringUsed, Depth DEF OrderInv, CreditInv, D
<1>2. NextPtr /\ NextReal /\ NextFront(n, tgt) /\ NextBePld(n, tgt) /\ NextQueue(res)
  BY DEF Clock
<1>3. /\ Used' = Used - a + n /\ Used + n \in 0 .. D
      /\ \A k \in 0 .. D : a + k <= D => Slot(rd_ptr', k) = Slot(rd_ptr, a + k)
      /\ \A k \in 0 .. Used - a : NextPcAt(k) = PcAt(a + k)
      /\ fetch_pc' = NextPcAt(Used') /\ real_next_pc' \in Pc /\ fetch_pc' \in Pc
  BY <1>2, PathStep
<1>4. /\ \A k \in 1 .. n : v_be_pld'[Slot(rd_ptr, Used + k - 1)] = tgt[k]
      /\ \A k \in a .. Used - 1 : v_be_pld'[Slot(rd_ptr, k)] = v_be_pld[Slot(rd_ptr, k)]
      /\ \A i \in Ids : v_be_pld'[i] # NONE =>
           \E k \in a .. Used + n - 1 : i = Slot(rd_ptr, k)
  BY <1>2, WindowStep DEF OrderInv
<1>5. /\ new \subseteq Inst
      /\ \A w \in new : \E k \in Used .. Used + n - 1 :
           w.id = Slot(rd_ptr, k) /\ w.pc = NextPcAt(k - a)
      /\ \A k \in Used .. Used + n - 1 : \E w \in new : w.id = Slot(rd_ptr, k)
  BY <1>2, DispatchStep
<1>6. /\ v_commit_queue' \in [Ids -> Result \cup {NONE}]
      /\ \A c \in Completing(now) :
           /\ v_commit_queue'[c.id] # NONE
           /\ v_commit_queue'[c.id].inst_pc = c.pc
           /\ v_commit_queue'[c.id].inst_nxt_pc \in Succ[c.pc]
      /\ \A i \in Ids \ RetiringIds :
           (\A c \in Completing(now) : c.id # i) => v_commit_queue'[i] = v_commit_queue[i]
      /\ \A i \in RetiringIds :
           (\A c \in Completing(now) : c.id # i) => v_commit_queue'[i] = NONE
  BY <1>2, QueueStep
<1>7. Completing(now) \subseteq InUnits
  BY ResultFacts
<1>8. \A k, j \in 0 .. Used + n - 1 : Slot(rd_ptr, k) = Slot(rd_ptr, j) => k = j
  <2> TAKE k, j \in 0 .. Used + n - 1
  <2>1. k \in 0 .. D - 1 /\ j \in 0 .. D - 1
    BY <1>1, <1>3
  <2> QED BY <1>1, <2>1, SlotInjective
<1>9. \A k \in 0 .. Used + n - 1 : Slot(rd_ptr, k) \in Ids
  <2> TAKE k \in 0 .. Used + n - 1
  <2>1. k \in 0 .. D
    BY <1>1, <1>3
  <2> QED BY <1>1, <2>1, SlotValue
(* Units hold positions from a on, arrivals positions from Used on.        *)
<1>10. \A u \in InUnits : \E k \in a .. Used - 1 : u.id = Slot(rd_ptr, k) /\ u.pc = PcAt(k)
  <2> TAKE u \in InUnits
  <2>1. PICK k \in 0 .. Used - 1 : u.id = Slot(rd_ptr, k) /\ u.pc = PcAt(k)
    BY DEF OrderInv, UnitsOnPath
  <2>2. u.id \in Ids
    BY DEF OrderInv, Types, InUnits, Inst
  <2>3. v_commit_queue[u.id] = NONE
    BY <2>2 DEF OrderInv, UnitOrResult
  <2>4. k \notin 0 .. a - 1
    BY <1>1, <2>1, <2>3
  <2>5. k \in a .. Used - 1
    BY <1>1, <2>4
  <2> QED BY <2>1, <2>5
<1>11. \A u \in InUnits, w \in new : u.id # w.id
  <2> TAKE u \in InUnits, w \in new
  <2>1. PICK k \in a .. Used - 1 : u.id = Slot(rd_ptr, k)
    BY <1>10
  <2>2. PICK j \in Used .. Used + n - 1 : w.id = Slot(rd_ptr, j)
    BY <1>5
  <2>3. k \in 0 .. Used + n - 1 /\ j \in 0 .. Used + n - 1 /\ k # j
    BY <1>1
  <2> QED BY <1>8, <2>1, <2>2, <2>3
<1>12. /\ InUnits' = (InUnits \ Completing(now)) \cup new
       /\ OnePlace'
       /\ waiting' \subseteq Inst /\ mext_d' \in [1 .. 2 -> Inst \cup {NONE}]
  <2>1. new \cap InUnits = {}
    BY <1>11
  <2> QED BY <1>5, <2>1, UnitStep DEF Clock
<1>13. Types'
  BY <1>3, <1>6, <1>12 DEF Types
<1>14. fetch_pc' = PcAt(Used)'
  BY <1>3 DEF PcAt, NextPcAt
<1>15. \A k \in a .. Used + n - 1 :
         /\ k - a \in 0 .. Used' - 1
         /\ Slot(rd_ptr', k - a) = Slot(rd_ptr, k)
         /\ k < Used => NextPcAt(k - a) = PcAt(k)
  <2> TAKE k \in a .. Used + n - 1
  <2>1. /\ k - a \in 0 .. D /\ a + (k - a) = k /\ k <= D /\ k - a \in 0 .. Used' - 1
        /\ k < Used => k - a \in 0 .. Used - a
    BY <1>1, <1>3
  <2> QED BY <1>3, <2>1
<1>16. UnitsOnPath'
  <2>1. ASSUME NEW u \in InUnits'
        PROVE  \E k \in 0 .. Used' - 1 : u.id = Slot(rd_ptr', k) /\ u.pc = NextPcAt(k)
    <3>1. CASE u \in InUnits
      <4>1. PICK k \in a .. Used - 1 : u.id = Slot(rd_ptr, k) /\ u.pc = PcAt(k)
        BY <1>10, <3>1
      <4>2. k \in a .. Used + n - 1 /\ k < Used
        BY <1>1
      <4> QED BY <1>15, <4>1, <4>2
    <3>2. CASE u \in new
      <4>1. PICK k \in Used .. Used + n - 1 : u.id = Slot(rd_ptr, k) /\ u.pc = NextPcAt(k - a)
        BY <1>5, <3>2
      <4>2. k \in a .. Used + n - 1
        BY <1>1
      <4> QED BY <1>15, <4>1, <4>2
    <3> QED BY <1>12, <2>1, <3>1, <3>2
  <2> QED BY <2>1 DEF UnitsOnPath, PcAt, NextPcAt
(* What has reported after the cycle is still in use.                      *)
<1>17. \A i \in Ids : v_commit_queue'[i] # NONE => \E k \in a .. Used - 1 : i = Slot(rd_ptr, k)
  <2> TAKE i \in Ids
  <2> HAVE v_commit_queue'[i] # NONE
  <2>1. CASE \E c \in Completing(now) : c.id = i
    BY <1>7, <1>10, <2>1
  <2>2. CASE \A c \in Completing(now) : c.id # i
    <3>1. i \notin RetiringIds /\ v_commit_queue[i] # NONE
      BY <1>6, <2>2
    <3>2. InUse(i, rd_ptr, Used)
      BY <1>1, <3>1 DEF OrderInv, ResultUsed
    <3>3. PICK k \in 0 .. Used - 1 : i = Slot(rd_ptr, k)
      BY <3>2 DEF InUse
    <3>4. k \notin 0 .. a - 1
      BY <1>1, <3>1, <3>3
    <3>5. k \in a .. Used - 1
      BY <1>1, <3>4
    <3> QED BY <3>3, <3>5
  <2> QED BY <2>1, <2>2
<1>18. \A k \in a .. Used - 1 :
         /\ Slot(rd_ptr, k) \in Ids \ RetiringIds
         /\ v_be_pld'[Slot(rd_ptr, k)] # NONE
  <2> TAKE k \in a .. Used - 1
  <2>1. k \in 0 .. Used - 1 /\ k \in 0 .. Used + n - 1
    BY <1>1
  <2>2. \A j \in 0 .. a - 1 : j \in 0 .. Used + n - 1 /\ j # k
    BY <1>1
  <2>3. Slot(rd_ptr, k) \in Ids \ RetiringIds
    BY <1>1, <1>8, <1>9, <2>1, <2>2
  <2>4. v_be_pld[Slot(rd_ptr, k)] # NONE
    BY <1>1, <2>1, <2>3 DEF InUse
  <2> QED BY <1>4, <2>3, <2>4
<1>19. ResultUsed'
  BY <1>17, <1>18 DEF ResultUsed
<1>20. ResultsOnPath'
  <2>1. ASSUME NEW k \in 0 .. Used' - 1, v_commit_queue'[Slot(rd_ptr', k)] # NONE
        PROVE  /\ v_commit_queue'[Slot(rd_ptr', k)].inst_pc = NextPcAt(k)
               /\ v_commit_queue'[Slot(rd_ptr', k)].inst_nxt_pc \in Succ[NextPcAt(k)]
    <3> DEFINE i == Slot(rd_ptr, a + k)
    <3>1. /\ a + k \in a .. Used + n - 1 /\ a + k \in 0 .. Used + n - 1
          /\ k \in 0 .. D /\ a + k <= D
      BY <1>1, <1>3
    <3>2. Slot(rd_ptr', k) = i /\ i \in Ids
      BY <1>3, <1>9, <3>1
    <3> HIDE DEF i
    <3>3. PICK j \in a .. Used - 1 : i = Slot(rd_ptr, j)
      BY <1>17, <2>1, <3>2
    <3>4. j \in 0 .. Used + n - 1 /\ j \in 0 .. Used - 1
      BY <1>1
    <3>5. j = a + k
      BY <1>8, <3>1, <3>3, <3>4 DEF i
    <3>6. k \in 0 .. Used - a /\ NextPcAt(k) = PcAt(j)
      <4>1. k \in 0 .. Used - a
        BY <1>1, <3>1, <3>5
      <4> QED BY <1>3, <3>5, <4>1
    <3>7. CASE \E c \in Completing(now) : c.id = i
      <4>1. PICK c \in Completing(now) : c.id = i
        BY <3>7
      <4>2. PICK m \in a .. Used - 1 : c.id = Slot(rd_ptr, m) /\ c.pc = PcAt(m)
        BY <1>7, <1>10
      <4>3. m \in 0 .. Used + n - 1
        BY <1>1
      <4>4. m = j
        BY <1>8, <3>3, <3>4, <4>1, <4>2, <4>3
      <4> QED BY <1>6, <3>2, <3>6, <4>1, <4>2, <4>4
    <3>8. CASE \A c \in Completing(now) : c.id # i
      <4>1. v_commit_queue'[i] = v_commit_queue[i]
        BY <1>6, <1>18, <3>3, <3>8
      <4> QED BY <2>1, <3>2, <3>3, <3>4, <3>6, <4>1 DEF OrderInv, ResultsOnPath
    <3> QED BY <3>7, <3>8
  <2> QED BY <2>1 DEF ResultsOnPath, PcAt, NextPcAt
<1>21. UnitOrResult'
  <2>1. ASSUME NEW i \in Ids, NEW u \in InUnits', u.id = i
        PROVE  v_be_pld'[i] # NONE /\ v_commit_queue'[i] = NONE
    <3>1. CASE u \in InUnits \ Completing(now)
      <4>1. \A c \in Completing(now) : c.id # i
        BY <1>7, <2>1, <3>1, UnitsDistinct
      <4>2. PICK k \in a .. Used - 1 : i = Slot(rd_ptr, k)
        BY <1>10, <2>1, <3>1
      <4>3. v_commit_queue[i] = NONE
        BY <2>1, <3>1 DEF OrderInv, UnitOrResult
      <4> QED BY <1>6, <1>18, <4>1, <4>2, <4>3
    <3>2. CASE u \in new
      <4>1. PICK k \in Used .. Used + n - 1 : i = Slot(rd_ptr, k)
        BY <1>5, <2>1, <3>2
      <4>2. k - Used + 1 \in 1 .. n /\ Used + (k - Used + 1) - 1 = k /\ k \in 0 .. Used + n - 1
        BY <1>1
      <4>3. v_be_pld'[i] = tgt[k - Used + 1] /\ tgt[k - Used + 1] \in Pc
        BY <1>4, <4>1, <4>2
      <4>4. ~ \E j \in a .. Used - 1 : i = Slot(rd_ptr, j)
        <5>1. \A j \in a .. Used - 1 : j \in 0 .. Used + n - 1 /\ j # k
          BY <1>1
        <5> QED BY <1>8, <4>1, <4>2, <5>1
      <4> QED BY <1>17, <4>3, <4>4, Program
    <3> QED BY <1>12, <2>1, <3>1, <3>2
  <2>2. ASSUME NEW i \in Ids, v_be_pld'[i] # NONE, v_commit_queue'[i] = NONE
        PROVE  \E u \in InUnits' : u.id = i
    <3>1. PICK k \in a .. Used + n - 1 : i = Slot(rd_ptr, k)
      BY <1>4, <2>2
    <3>2. CASE k < Used
      <4>1. k \in a .. Used - 1 /\ k \in 0 .. Used - 1
        BY <1>1, <3>2
      <4>2. \A c \in Completing(now) : c.id # i
        BY <1>6, <2>2
      <4>3. v_commit_queue[i] = NONE /\ v_be_pld[i] # NONE
        BY <1>1, <1>6, <1>18, <2>2, <3>1, <4>1, <4>2 DEF InUse
      <4>4. PICK u \in InUnits : u.id = i
        BY <4>3 DEF OrderInv, UnitOrResult
      <4> QED BY <1>12, <4>2, <4>4
    <3>3. CASE ~(k < Used)
      <4>1. k \in Used .. Used + n - 1
        BY <1>1, <3>3
      <4> QED BY <1>5, <1>12, <3>1, <4>1
    <3> QED BY <3>2, <3>3
  <2> QED BY <2>1, <2>2 DEF UnitOrResult
<1>22. FloatIdle'
  BY IdleStays DEF Clock, OrderInv
<1> QED BY <1>12, <1>13, <1>14, <1>16, <1>19, <1>20, <1>21, <1>22 DEF OrderInv

-----------------------------------------------------------------------------
LEMMA InitOrderInv == Init => OrderInv
<1> SUFFICES ASSUME Init PROVE OrderInv
  OBVIOUS
<1>1. CreditInv
  BY InitCreditInv
<1>2. /\ v_commit_queue = [i \in Ids |-> NONE] /\ v_be_pld = [i \in Ids |-> NONE]
      /\ waiting = {} /\ mext_d = [s \in 1 .. 2 |-> NONE]
      /\ real_next_pc \in ResetPcs /\ fetch_pc = real_next_pc
      /\ multi_cycle_cnt = FP_STAGES /\ instruction_en_o_d = FALSE /\ instruction_en_o = FALSE
  BY DEF Init
<1>3. Used = 0
  BY Depth DEF Init, Used, D
<1>4. InUnits = {}
  BY <1>2 DEF InUnits
<1>5. Types
  BY <1>2, Program DEF Types
<1>6. fetch_pc = PcAt(Used)
  BY <1>2, <1>3 DEF PcAt
<1>7. UnitsOnPath /\ ResultsOnPath
  BY <1>3, <1>4 DEF UnitsOnPath, ResultsOnPath
<1>8. UnitOrResult /\ ResultUsed
  BY <1>2, <1>4 DEF UnitOrResult, ResultUsed
<1>9. OnePlace /\ FloatIdle
  BY <1>2 DEF OnePlace, FloatIdle
<1> QED BY <1>1, <1>5, <1>6, <1>7, <1>8, <1>9 DEF OrderInv

LEMMA NextOrderInv ==
  ASSUME FpPc = {} PROVE OrderInv /\ [Next]_vars => OrderInv'
<1> SUFFICES ASSUME OrderInv, [Next]_vars PROVE OrderInv'
  OBVIOUS
<1>1. CreditInv'
  BY NextCreditInv DEF OrderInv
<1>2. CASE UNCHANGED vars
  <2>1. /\ UNCHANGED queue /\ UNCHANGED front /\ waiting' = waiting /\ mext_d' = mext_d
        /\ UNCHANGED float
    BY <1>2 DEF vars
  <2>2. /\ v_commit_queue' = v_commit_queue /\ v_be_pld' = v_be_pld /\ rd_ptr' = rd_ptr
        /\ real_next_pc' = real_next_pc /\ commit_credit_cnt' = commit_credit_cnt
        /\ fetch_pc' = fetch_pc /\ multi_cycle_cnt' = multi_cycle_cnt
        /\ instruction_en_o_d' = instruction_en_o_d /\ instruction_en_o' = instruction_en_o
    BY <2>1 DEF queue, front, float
  <2>3. Used' = Used /\ InUnits' = InUnits
    BY <2>1, <2>2 DEF Used, InUnits
  <2>4. Types' /\ OnePlace' /\ FloatIdle' /\ ResultUsed'
    BY <2>1, <2>2 DEF OrderInv, Types, OnePlace, FloatIdle, ResultUsed
  <2>5. UnitOrResult' /\ fetch_pc' = PcAt(Used)'
    BY <2>2, <2>3 DEF OrderInv, UnitOrResult, PcAt
  <2>6. UnitsOnPath' /\ ResultsOnPath'
    BY <2>2, <2>3 DEF OrderInv, UnitsOnPath, ResultsOnPath, PcAt
  <2> QED BY <1>1, <2>4, <2>5, <2>6 DEF OrderInv
<1>3. CASE Next
  <2>1. PICK now \in SUBSET waiting, mx \in waiting \cup {NONE}, fx \in waiting \cup {NONE} :
          Cycle(now, mx, fx)
    BY <1>3 DEF Next, Run, Cancel
  <2>2. LegalIssue(now, mx, fx)
    BY <2>1 DEF Cycle
  <2>3. PICK n \in 0 .. INST_READ_CHANNEL :
          /\ LegalDispatch(n)
          /\ \E tgt \in Predictions(n), res \in Results(now) : Clock(n, tgt, now, mx, fx, res)
    BY <2>1 DEF Cycle
  <2>4. PICK tgt \in Predictions(n), res \in Results(now) : Clock(n, tgt, now, mx, fx, res)
    BY <2>3
  <2>5. tgt \in [1 .. n -> Pc]
    BY DEF Predictions
  <2>6. CASE CancelEn
    BY <1>1, <2>2, <2>3, <2>4, <2>5, <2>6, CancelStep
  <2>7. CASE ~CancelEn
    BY <1>1, <2>2, <2>3, <2>4, <2>5, <2>7, RunStep
  <2> QED BY <2>6, <2>7
<1> QED BY <1>2, <1>3

LEMMA OrderInvHolds ==
  ASSUME FpPc = {} PROVE Spec => []OrderInv
<1>1. OrderInv /\ [Next]_vars => OrderInv'
  BY NextOrderInv
<1> QED BY <1>1, InitOrderInv, PTL DEF Spec

-----------------------------------------------------------------------------
(* Each retiring instruction lies where the one retired before it led,     *)
(* across groups, mispredictions and reuse of ids: what the simulation's   *)
(* "Error Detect" checks, for every program without floating point.        *)
THEOREM RetiresInOrder ==
  ASSUME FpPc = {} PROVE Spec => []RetireInOrder
<1>1. OrderInv => RetireInOrder
  <2> SUFFICES ASSUME OrderInv, NEW j \in Channels, RfCommit(j)
               PROVE  Retired(j).inst_pc =
                        IF j = 0 THEN real_next_pc ELSE Retired(j - 1).inst_nxt_pc
    BY DEF RetireInOrder
  <2>1. j \in 0 .. rd_ptr_add - 1 /\ rd_ptr_add \in Nat
    BY RetiringPrefix
  <2>2. Retired(j).inst_pc = PcAt(j)
    BY <2>1, RetiredOnPath
  <2>3. CASE j = 0
    BY <2>2, <2>3 DEF PcAt
  <2>4. CASE j # 0
    <3>1. /\ j - 1 \in 0 .. rd_ptr_add - 1 /\ j - 1 < rd_ptr_add - 1
          /\ (j - 1) + 1 = j
      BY <2>1, <2>4
    <3>2. PcAt((j - 1) + 1) = Retired(j - 1).inst_nxt_pc
      BY <3>1, RetiredOnPath
    <3> QED BY <2>2, <2>4, <3>1, <3>2
  <2> QED BY <2>3, <2>4
<1> QED BY <1>1, OrderInvHolds, PTL

(* No result is lost, none arrives twice, and nothing cancelled is left to *)
(* report under a reused id (toy_commit's crossbar relies on all three).   *)
THEOREM ResultsOnce ==
  ASSUME FpPc = {} PROVE Spec => []OneResultEach
<1>1. OrderInv => OneResultEach
  <2> SUFFICES ASSUME OrderInv PROVE OneResultEach
    OBVIOUS
  <2>1. InFloat = {}
    BY CommitAssumption DEF InFloat, OrderInv, FloatIdle
  <2>2. InUnits \cup InFloat = InUnits
    BY <2>1
  <2>3. \A u, w \in InUnits : u.id = w.id => u = w
    BY UnitsDistinct
  <2>4. \A i \in Ids : v_be_pld[i] # NONE /\ v_commit_queue[i] = NONE
                         <=> i \in {u.id : u \in InUnits}
    BY DEF OrderInv, UnitOrResult
  <2> QED BY <2>2, <2>3, <2>4 DEF OneResultEach, OrderInv, OnePlace
<1> QED BY <1>1, OrderInvHolds, PTL

(* Retirement refines the sequential machine: however many instructions    *)
(* retire in a cycle, they are the next ones of the program.               *)
THEOREM RefinesSequential ==
  ASSUME FpPc = {} PROVE Spec => ImplementsSequential
<1>1. Init => Sequential!Init
  BY DEF Init, Sequential!Init
<1>2. OrderInv /\ [Next]_vars => [Sequential!Next]_real_next_pc
  <2> SUFFICES ASSUME OrderInv, [Next]_vars, real_next_pc' # real_next_pc
               PROVE  Sequential!Next
    OBVIOUS
  <2> DEFINE a    == rd_ptr_add
             path == [i \in 0 .. a |-> IF i = 0 THEN real_next_pc ELSE Retired(i - 1).inst_nxt_pc]
  <2>1. Next
    BY DEF vars, queue
  <2>2. NextReal
    BY <2>1 DEF Next, Run, Cancel, Cycle, Clock
  <2>3. a \in 1 .. COMMIT_REL_CHANNEL
    BY <2>2, RetiringPrefix, CommitAssumption DEF NextReal
  <2>4. \A i \in 1 .. a :
          /\ i - 1 \in 0 .. a - 1 /\ i - 1 \in 0 .. a
          /\ Retired(i - 1) \in Result
          /\ Retired(i - 1).inst_nxt_pc \in Succ[PcAt(i - 1)]
          /\ i < a => PcAt(i) = Retired(i - 1).inst_nxt_pc
    <3> TAKE i \in 1 .. a
    <3>1. i - 1 \in 0 .. a - 1 /\ i - 1 \in 0 .. a /\ (i - 1) + 1 = i
          /\ (i < a => i - 1 < a - 1)
      BY <2>3
    <3> QED BY <3>1, RetiredOnPath
  <2>5. path \in [0 .. a -> Pc]
    <3>1. \A i \in 0 .. a : i # 0 => i \in 1 .. a
      BY <2>3
    <3> QED BY <2>4, <3>1 DEF OrderInv, Types, Result
  <2>6. path[0] = real_next_pc
    BY <2>3
  <2>7. \A i \in 0 .. a - 1 : path[i] = PcAt(i)
    <3> TAKE i \in 0 .. a - 1
    <3>1. i \in 0 .. a
      BY <2>3
    <3>2. CASE i = 0
      BY <3>1, <3>2 DEF PcAt
    <3>3. CASE i # 0
      <4>1. i \in 1 .. a /\ i < a
        BY <2>3, <3>3
      <4> QED BY <2>4, <3>1, <3>3, <4>1
    <3> QED BY <3>2, <3>3
  <2>8. \A i \in 1 .. a : path[i] \in Succ[path[i - 1]]
    <3> TAKE i \in 1 .. a
    <3>1. path[i] = Retired(i - 1).inst_nxt_pc
      BY <2>3
    <3>2. path[i - 1] = PcAt(i - 1)
      BY <2>4, <2>7
    <3> QED BY <2>4, <3>1, <3>2
  <2>9. real_next_pc' = path[a]
    BY <2>2, <2>3 DEF NextReal
  <2> HIDE DEF path
  <2>10. Sequential!Retire(a)
    BY <2>5, <2>6, <2>8, <2>9 DEF Sequential!Retire
  <2> QED BY <2>3, <2>10 DEF Sequential!Next
<1> QED BY <1>1, <1>2, OrderInvHolds, PTL DEF Spec, ImplementsSequential, Sequential!Spec
=============================================================================

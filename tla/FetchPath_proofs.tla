--------------------------- MODULE FetchPath_proofs ---------------------------
(***************************************************************************)
(* The registered ready of the issue buffer never promises a slot that is  *)
(* not there, for every depth, window and number of channels.              *)
(***************************************************************************)
EXTENDS FetchPath, FiniteSetTheorems, TLAPS

RoomInv ==
  /\ wr_ptr \in 0 .. BUFFER_DEPTH
  /\ v_mem_en \in [Slots -> BOOLEAN]
  /\ v_s_rdy \in [Channels -> BOOLEAN]
  /\ RoomKept

Ready == {c \in Channels : v_s_rdy[c]}

(* The first n of the m numbers from 0 are n, or all m.                    *)
LEMMA PrefixSize ==
  ASSUME NEW m \in Nat, NEW n \in Int, NEW S, S = {i \in 0 .. m - 1 : i < n}
  PROVE  /\ IsFiniteSet(S)
         /\ Cardinality(S) = IF n <= 0 THEN 0 ELSE IF n <= m THEN n ELSE m
<1>1. CASE n <= 0
  <2>1. S = {}
    BY <1>1
  <2> QED BY <1>1, <2>1, FS_EmptySet
<1>2. CASE 0 < n /\ n <= m
  <2>1. S = 0 .. n - 1
    BY <1>2
  <2>2. IsFiniteSet(0 .. n - 1) /\ Cardinality(0 .. n - 1) = n
    BY <1>2, FS_Interval
  <2>3. ~(n <= 0) /\ n <= m
    BY <1>2
  <2> QED BY <2>1, <2>2, <2>3, Zenon
<1>3. CASE m < n
  <2>1. S = 0 .. m - 1
    BY <1>3
  <2>2. IsFiniteSet(0 .. m - 1) /\ Cardinality(0 .. m - 1) = m
    BY <1>3, FS_Interval
  <2>3. ~(n <= 0) /\ ~(n <= m)
    BY <1>3
  <2> QED BY <2>1, <2>2, <2>3, Zenon
<1> QED BY <1>1, <1>2, <1>3

(* What leaves is occupied, and what is accepted was ready.                *)
LEMMA InOutBounds ==
  ASSUME RoomInv, NEW taken, NEW vld, vld \subseteq Channels
  PROVE  /\ CntO(taken) \in 0 .. wr_ptr
         /\ CntI(vld) \in Nat
         /\ CntI(vld) <= Cardinality(Ready)
         /\ Cardinality(Ready) \in 0 .. BUFFER_DEPTH - wr_ptr
<1> DEFINE Occupied == 0 .. wr_ptr - 1
           Accepted == {c \in vld : v_s_rdy[c]}
<1>1. wr_ptr \in Nat /\ BUFFER_DEPTH \in Nat /\ S_CHANNEL \in Nat /\ OOO_DEPTH \in Nat
  BY IssueBufferAssumption DEF RoomInv
<1>2. IsFiniteSet(Occupied) /\ Cardinality(Occupied) = wr_ptr
  BY <1>1, FS_Interval
<1>3. Issuing(taken) \subseteq Occupied
  <2>1. Window \subseteq Slots
    BY <1>1, IssueBufferAssumption DEF Window, Slots
  <2>2. \A i \in Slots : v_mem_en[i] => i < wr_ptr
    BY DEF RoomInv, RoomKept
  <2>3. \A i \in Slots : i \in Nat
    BY DEF Slots
  <2> QED BY <1>1, <2>1, <2>2, <2>3 DEF Issuing, MVld
<1>4. /\ IsFiniteSet(Issuing(taken))
      /\ Cardinality(Issuing(taken)) <= Cardinality(Occupied)
  BY <1>2, <1>3, FS_Subset
<1>5. CntO(taken) \in 0 .. wr_ptr
  BY <1>1, <1>2, <1>4, FS_CardinalityType DEF CntO
<1>6. IsFiniteSet(Channels)
  BY <1>1, FS_Interval DEF Channels
<1>7. IsFiniteSet(Ready)
  BY <1>6, FS_Subset DEF Ready
<1>8. /\ IsFiniteSet(Accepted)
      /\ Cardinality(Accepted) <= Cardinality(Ready)
  <2>1. Accepted \subseteq Ready
    BY DEF Ready
  <2> QED BY <1>7, <2>1, FS_Subset
<1>9. Cardinality(Ready) <= BUFFER_DEPTH - wr_ptr
  BY DEF RoomInv, RoomKept, Ready
<1>10. Cardinality(Ready) \in Nat /\ Cardinality(Accepted) \in Nat
  BY <1>7, <1>8, FS_CardinalityType
<1> QED BY <1>1, <1>5, <1>8, <1>9, <1>10 DEF CntI

LEMMA InitRoomInv == PathInit => RoomInv
<1> SUFFICES ASSUME PathInit PROVE RoomInv
  OBVIOUS
<1>1. /\ wr_ptr = 0 /\ v_mem_en = [i \in Slots |-> FALSE]
      /\ v_s_rdy = [c \in Channels |-> TRUE]
  BY DEF PathInit, IssueBufferInit
<1>2. BUFFER_DEPTH \in Nat /\ S_CHANNEL \in Nat /\ S_CHANNEL <= BUFFER_DEPTH
  BY IssueBufferAssumption
<1>3. Cardinality({c \in Channels : v_s_rdy[c]}) = S_CHANNEL
  <2>1. {c \in Channels : v_s_rdy[c]} = 0 .. S_CHANNEL - 1
    BY <1>1 DEF Channels
  <2>2. Cardinality(0 .. S_CHANNEL - 1) = S_CHANNEL
    BY <1>2, FS_Interval
  <2> QED BY <2>1, <2>2, Zenon
<1>4. \A i \in Slots : ~(i < wr_ptr)
  BY <1>1 DEF Slots
<1> QED BY <1>1, <1>2, <1>3, <1>4 DEF RoomInv, RoomKept

(* A cycle accepts at most what was ready and frees what issues, and is    *)
(* ready again only for channels that fit behind a full set of arrivals.   *)
LEMMA NextRoomInv ==
  ASSUME RoomInv, NEW line, NEW credit \in BOOLEAN, NEW taken, NEW edge \in BOOLEAN,
         Clock(line, credit, taken, edge)
  PROVE  RoomInv'
<1> DEFINE vld == IF credit THEN AckVld ELSE {}
           in  == CntI(vld)
           out == CntO(taken)
<1>1. BUFFER_DEPTH \in Nat /\ S_CHANNEL \in Nat /\ S_CHANNEL <= BUFFER_DEPTH
  BY IssueBufferAssumption
<1>2. vld \subseteq Channels
  BY FetchPathAssumption DEF AckVld, Banks, Channels
<1>3. /\ out \in 0 .. wr_ptr /\ in \in Nat /\ in <= Cardinality(Ready)
      /\ Cardinality(Ready) \in 0 .. BUFFER_DEPTH - wr_ptr
  BY <1>2, InOutBounds
<1>4. Cardinality(Ready) <= S_CHANNEL
  <2>1. IsFiniteSet(Channels) /\ Cardinality(Channels) = S_CHANNEL
    BY <1>1, FS_Interval DEF Channels
  <2> QED BY <2>1, FS_Subset DEF Ready
<1>5. wr_ptr \in 0 .. BUFFER_DEPTH
  BY DEF RoomInv
<1>6. /\ wr_ptr' = IF edge THEN 0 ELSE wr_ptr - out + in
      /\ v_mem_en' = [i \in Slots |-> ~edge /\ i < wr_ptr - out + in]
      /\ v_s_rdy' = [c \in Channels |-> edge \/ c + S_CHANNEL < BUFFER_DEPTH - wr_ptr + out]
  BY DEF Clock, NextIssueBuffer, NextMemEn, NextSRdy, WrPtrNxt, ReadyNum
<1> HIDE DEF vld, in, out
<1>7. wr_ptr' \in 0 .. BUFFER_DEPTH
  BY <1>1, <1>3, <1>5, <1>6
<1>8. v_mem_en' \in [Slots -> BOOLEAN] /\ v_s_rdy' \in [Channels -> BOOLEAN]
  BY <1>6
<1>9. \A i \in Slots : v_mem_en'[i] <=> i < wr_ptr'
  <2>1. \A i \in Slots : i \in Nat
    BY DEF Slots
  <2>2. CASE edge
    <3>1. \A i \in Slots : ~v_mem_en'[i]
      BY <1>6, <2>2, Zenon
    <3>2. \A i \in Slots : ~(i < wr_ptr')
      BY <1>6, <2>1, <2>2
    <3> QED BY <3>1, <3>2, Zenon
  <2>3. CASE ~edge
    BY <1>6, <2>3
  <2> QED BY <2>2, <2>3
<1>10. Cardinality({c \in Channels : v_s_rdy'[c]}) <= BUFFER_DEPTH - wr_ptr'
  <2>1. CASE edge
    <3>1. {c \in Channels : v_s_rdy'[c]} = 0 .. S_CHANNEL - 1
      BY <1>6, <2>1 DEF Channels
    <3>2. Cardinality(0 .. S_CHANNEL - 1) = S_CHANNEL
      BY <1>1, FS_Interval
    <3>3. S_CHANNEL <= BUFFER_DEPTH - wr_ptr'
      BY <1>1, <1>6, <2>1
    <3> QED BY <3>1, <3>2, <3>3
  <2>2. CASE ~edge
    <3> DEFINE n == BUFFER_DEPTH - wr_ptr + out - S_CHANNEL
               R == {c \in Channels : v_s_rdy'[c]}
    <3>1. n \in Int
      BY <1>1, <1>3, <1>5
    <3>2. R = {c \in 0 .. S_CHANNEL - 1 : c < n}
      <4>1. \A c \in Channels : v_s_rdy'[c] <=> c + S_CHANNEL < BUFFER_DEPTH - wr_ptr + out
        BY <1>6, <2>2
      <4>2. \A c \in Channels :
               c + S_CHANNEL < BUFFER_DEPTH - wr_ptr + out <=> c < n
        <5>1. \A c \in Channels : c \in Int
          BY DEF Channels
        <5> QED BY <1>1, <1>3, <1>5, <5>1
      <4> QED BY <4>1, <4>2 DEF Channels
    <3>3. Cardinality(R) = IF n <= 0 THEN 0 ELSE IF n <= S_CHANNEL THEN n ELSE S_CHANNEL
      <4> HIDE DEF n, R
      <4> QED BY <1>1, <3>1, <3>2, PrefixSize
    <3>4. wr_ptr' = wr_ptr - out + in
      BY <1>6, <2>2
    <3>5. (IF n <= 0 THEN 0 ELSE IF n <= S_CHANNEL THEN n ELSE S_CHANNEL)
            <= BUFFER_DEPTH - wr_ptr'
      BY <1>1, <1>3, <1>4, <1>5, <3>4
    <3> QED BY <3>3, <3>5
  <2> QED BY <2>1, <2>2
<1> QED BY <1>7, <1>8, <1>9, <1>10 DEF RoomInv, RoomKept

LEMMA NextRoomStep == RoomInv /\ [PathNext]_pathVars => RoomInv'
<1> SUFFICES ASSUME RoomInv, [PathNext]_pathVars PROVE RoomInv'
  OBVIOUS
<1>1. CASE UNCHANGED pathVars
  BY <1>1 DEF pathVars, ibVars, RoomInv, RoomKept, Slots, Channels
<1>2. CASE Run
  BY <1>2, NextRoomInv DEF Run
<1>3. CASE CancelEdge
  BY <1>3, NextRoomInv DEF CancelEdge
<1> QED BY <1>1, <1>2, <1>3 DEF PathNext

(* Ready never promises more than there is room for (toy_dispatch_issue_   *)
(* buffer registers it a cycle before the instructions it lets in).        *)
THEOREM RoomAlwaysKept == PathSpec => []RoomKept
<1>1. RoomInv => RoomKept
  BY DEF RoomInv
<1> QED BY <1>1, InitRoomInv, NextRoomStep, PTL DEF PathSpec

-----------------------------------------------------------------------------
(* Rotation: the place of bank b in the rotation that starts at x, and how *)
(* it moves when the start advances by n.                                  *)
K == INST_READ_CHANNEL
Back(p, n) == IF p >= n THEN p - n ELSE p - n + K
One(c) == IF c THEN 1 ELSE 0

LEMMA Widths ==
  /\ K \in Nat \ {0} /\ S_CHANNEL = K /\ Channels = Banks /\ Banks = 0 .. K - 1
  /\ FQ_BUF_IN_NUM \in Nat \ {0} /\ FQ_BUF_DEPTH \in Nat /\ FQ_BUF_IN_NUM <= FQ_BUF_DEPTH
BY FetchQueueAssumption, FetchPathAssumption DEF K, Channels, Banks

LEMMA ModValue ==
  ASSUME NEW d \in Nat \ {0}, NEW q \in Int, NEW x \in Int, NEW r \in 0 .. d - 1, x = d * q + r
  PROVE  x % d = r
OBVIOUS

LEMMA DivMod ==
  ASSUME NEW d \in Nat \ {0}, NEW x \in Int
  PROVE  x \div d \in Int /\ x % d \in 0 .. d - 1 /\ x = d * (x \div d) + (x % d)
OBVIOUS

LEMMA Rotate ==
  ASSUME NEW x \in Int, NEW b \in Int, NEW s \in Int, NEW t \in 0 .. K - 1
  PROVE  (b - ((x + (K * s + t)) % (2 * K))) % K = Back((b - x) % K, t)
<1> DEFINE y == x + (K * s + t)
           g == y \div (2 * K)
           h == (b - x) \div K
           p == (b - x) % K
<1>1. K \in Nat \ {0} /\ 2 * K \in Nat \ {0} /\ K * s \in Int
  BY Widths
<1>2. y \in Int
  BY <1>1
<1>3. g \in Int /\ y % (2 * K) \in Int /\ y = (2 * K) * g + (y % (2 * K))
  <2> DEFINE d == 2 * K
  <2>1. d \in Nat \ {0}
    BY <1>1
  <2> HIDE DEF y, d
  <2>2. y \div d \in Int /\ y % d \in 0 .. d - 1 /\ y = d * (y \div d) + (y % d)
    BY <1>2, <2>1, DivMod
  <2>3. y % d \in Int
    BY <2>1, <2>2
  <2> QED BY <2>2, <2>3 DEF d
<1>4. h \in Int /\ p \in 0 .. K - 1 /\ b - x = K * h + p
  <2>1. b - x \in Int
    OBVIOUS
  <2> QED BY <1>1, <2>1, DivMod
<1> DEFINE w == y % (2 * K)
           z == b - w
<1> HIDE DEF g, h, p
<1>5. z = K * (h + 2 * g - s) + (p - t)
  <2>1. z = b - x - K * s - t + (2 * K) * g
    <3>1. w \in Int /\ x + (K * s + t) = (2 * K) * g + w /\ (2 * K) * g \in Int
      BY <1>1, <1>3
    <3> HIDE DEF w
    <3> QED BY <1>1, <3>1
  <2>2. (2 * K) * g = K * (2 * g)
    BY <1>1, <1>3
  <2>3. z = K * h + p - K * s - t + K * (2 * g)
    BY <1>1, <1>3, <1>4, <2>1, <2>2
  <2>4. K * (h + 2 * g - s) = K * h + K * (2 * g) - K * s
    BY <1>1, <1>3, <1>4
  <2> QED BY <1>1, <1>3, <1>4, <2>3, <2>4
<1>6. h + 2 * g - s \in Int /\ z \in Int
  BY <1>1, <1>3, <1>4
<1> HIDE DEF z, w
<1>7. CASE p >= t
  <2>1. p - t \in 0 .. K - 1 /\ Back(p, t) = p - t
    BY <1>1, <1>4, <1>7 DEF Back
  <2>2. z % K = p - t
    BY <1>1, <1>5, <1>6, <2>1, ModValue
  <2> QED BY <2>1, <2>2 DEF z, w, y, p
<1>8. CASE p < t
  <2> DEFINE q == h + 2 * g - s
  <2>1. p - t + K \in 0 .. K - 1 /\ Back(p, t) = p - t + K /\ q - 1 \in Int
    BY <1>1, <1>4, <1>6, <1>8 DEF Back
  <2>2. z = K * (q - 1) + (p - t + K)
    <3>1. z = K * q + (p - t) /\ q \in Int
      BY <1>5, <1>6
    <3> HIDE DEF q
    <3> QED BY <1>1, <1>4, <3>1
  <2> HIDE DEF q
  <2>3. z % K = p - t + K
    BY <1>1, <1>6, <2>1, <2>2, ModValue
  <2> QED BY <2>1, <2>3 DEF z, w, y, p
<1> QED BY <1>4, <1>7, <1>8

(* The two rotation registers are inverse to each other.                   *)
LEMMA RotationInverse ==
  ASSUME NEW x \in Int
  PROVE  /\ \A b \in Banks : /\ (b - x) % K \in Banks
                             /\ (x + ((b - x) % K)) % K = b
         /\ \A i \in Banks : /\ (x + i) % K \in Banks
                             /\ (((x + i) % K) - x) % K = i
<1>1. K \in Nat \ {0} /\ Banks = 0 .. K - 1
  BY Widths
<1>2. ASSUME NEW b \in Banks PROVE (b - x) % K \in Banks /\ (x + ((b - x) % K)) % K = b
  <2> DEFINE h == (b - x) \div K
             p == (b - x) % K
  <2>1. h \in Int /\ p \in 0 .. K - 1 /\ b - x = K * h + p /\ b \in 0 .. K - 1
    <3>1. b - x \in Int
      BY <1>1
    <3> QED BY <1>1, <3>1, DivMod
  <2> HIDE DEF h, p
  <2>2. x + p = K * (-h) + b /\ -h \in Int /\ x + p \in Int
    <3>1. K * (-h) = -(K * h) /\ K * h \in Int
      BY <1>1, <2>1
    <3> QED BY <1>1, <2>1, <3>1
  <2>3. (x + p) % K = b
    BY <1>1, <2>1, <2>2, ModValue
  <2> QED BY <1>1, <2>1, <2>3 DEF p
<1>3. ASSUME NEW i \in Banks PROVE (x + i) % K \in Banks /\ (((x + i) % K) - x) % K = i
  <2> DEFINE h == (x + i) \div K
             p == (x + i) % K
  <2>1. h \in Int /\ p \in 0 .. K - 1 /\ x + i = K * h + p /\ i \in 0 .. K - 1
    <3>1. x + i \in Int
      BY <1>1
    <3> QED BY <1>1, <3>1, DivMod
  <2> HIDE DEF h, p
  <2>2. p - x = K * (-h) + i /\ -h \in Int /\ p - x \in Int
    <3>1. K * (-h) = -(K * h) /\ K * h \in Int
      BY <1>1, <2>1
    <3> QED BY <1>1, <2>1, <3>1
  <2>3. (p - x) % K = i
    BY <1>1, <2>1, <2>2, ModValue
  <2> QED BY <1>1, <2>1, <2>3 DEF p
<1> QED BY <1>2, <1>3

(* The slots p, p + K, ... of a line of K * s + t instructions.            *)
LEMMA BankFill ==
  ASSUME NEW s \in Nat, NEW t \in 0 .. K - 1, K * s + t <= FQ_BUF_IN_NUM * K, NEW p \in 0 .. K - 1
  PROVE  /\ Cardinality({j \in BankIns : j * K + p < K * s + t}) = s + One(p < t)
         /\ s + One(p < t) \in 0 .. FQ_BUF_IN_NUM
<1> DEFINE n == s + One(p < t)
           S == {j \in BankIns : j * K + p < K * s + t}
<1>1. K \in Nat \ {0} /\ FQ_BUF_IN_NUM \in Nat \ {0} /\ BankIns = 0 .. FQ_BUF_IN_NUM - 1
  BY Widths DEF BankIns
<1>2. One(p < t) = IF p < t THEN 1 ELSE 0
  BY DEF One
<1>3. \A e \in Int : (e >= 1 => K * e >= K) /\ (e <= -1 => K * e <= -K)
  BY <1>1
<1>4. n \in 0 .. FQ_BUF_IN_NUM
  <2> DEFINE e == FQ_BUF_IN_NUM - s
  <2>1. e \in Int /\ K * e = FQ_BUF_IN_NUM * K - K * s /\ K * s \in Int /\ FQ_BUF_IN_NUM * K \in Int
    BY <1>1
  <2>2. K * e >= t
    <3> HIDE DEF e
    <3> QED BY <1>1, <2>1
  <2>3. e >= 0 /\ (e = 0 => t = 0)
    <3> HIDE DEF e
    <3>1. ~(e <= -1)
      BY <1>1, <1>3, <2>1, <2>2
    <3>2. e = 0 => t = 0
      BY <1>1, <2>1, <2>2
    <3> QED BY <2>1, <3>1, <3>2
  <2> QED BY <1>1, <1>2, <2>3
<1>5. \A j \in BankIns : j * K + p < K * s + t <=> j < n
  <2> TAKE j \in BankIns
  <2> DEFINE e == s - j
  <2>1. e \in Int /\ K * e = K * s - j * K /\ K * s \in Int /\ j * K \in Int /\ j \in Int
    BY <1>1
  <2>2. j * K + p < K * s + t <=> p < K * e + t
    <3> HIDE DEF e
    <3> QED BY <1>1, <2>1
  <2>3. CASE e >= 1
    <3>1. K * e >= K /\ K * e \in Int
      BY <1>1, <1>3, <2>1, <2>3
    <3>2. p < K * e + t
      <4> HIDE DEF e
      <4> QED BY <1>1, <3>1
    <3> QED BY <1>2, <2>1, <2>2, <2>3, <3>2
  <2>4. CASE e = 0
    <3>1. p < K * e + t <=> p < t
      BY <1>1, <2>4
    <3>2. j = s
      BY <2>1, <2>4
    <3> QED BY <1>2, <2>2, <3>1, <3>2
  <2>5. CASE e <= -1
    <3>1. K * e <= -K /\ K * e \in Int
      BY <1>1, <1>3, <2>1, <2>5
    <3>2. ~(p < K * e + t)
      <4> HIDE DEF e
      <4> QED BY <1>1, <3>1
    <3> QED BY <1>2, <2>1, <2>2, <2>5, <3>2
  <2> QED BY <2>1, <2>3, <2>4, <2>5
<1>6. S = {j \in 0 .. FQ_BUF_IN_NUM - 1 : j < n}
  BY <1>1, <1>5
<1> HIDE DEF n, S
<1>7. Cardinality(S) = IF n <= 0 THEN 0 ELSE IF n <= FQ_BUF_IN_NUM THEN n ELSE FQ_BUF_IN_NUM
  <2>1. n \in Int /\ FQ_BUF_IN_NUM \in Nat
    BY <1>1, <1>4
  <2> QED BY <1>6, <2>1, PrefixSize
<1>8. Cardinality(S) = n
  BY <1>1, <1>4, <1>7
<1> QED BY <1>4, <1>8 DEF n, S

(* Reading m and writing K * s + t instructions keeps the banks level: the *)
(* first r of the rotation hold one more, and the next write goes to r.    *)
CanRead(q, r, m) == \A p \in 0 .. K - 1 : p < m => q + One(p < r) > 0
LevelAgain(q, r, m, s, t, u, v) ==
  /\ K * u + v = K * q + r - m + (K * s + t)
  /\ \A p \in 0 .. K - 1 :
       /\ q + One(p < r) - One(p < m) + (s + One(Back(p, r) < t)) = u + One(Back(p, m) < v)
       /\ Back(Back(p, r), t) = Back(Back(p, m), v)

LEMMA Level ==
  ASSUME NEW q \in Nat, NEW r \in 0 .. K - 1, NEW m \in 0 .. K, NEW s \in Nat,
         NEW t \in 0 .. K - 1, CanRead(q, r, m)
  PROVE  \E u \in Nat, v \in 0 .. K - 1 : LevelAgain(q, r, m, s, t, u, v)
<1>1. K \in Nat \ {0}
  BY Widths
<1> DEFINE q1 == IF m <= r THEN q ELSE q - 1
           r1 == IF m <= r THEN r - m ELSE r - m + K
           u  == IF r1 + t < K THEN q1 + s ELSE q1 + s + 1
           v  == IF r1 + t < K THEN r1 + t ELSE r1 + t - K
<1>2. q1 \in Nat /\ r1 \in 0 .. K - 1
  <2>1. CASE m <= r
    BY <1>1, <2>1
  <2>2. CASE m > r
    <3>1. m - 1 \in 0 .. K - 1 /\ m - 1 < m /\ ~(m - 1 < r)
      BY <1>1, <2>2
    <3>2. q > 0
      BY <3>1 DEF CanRead, One
    <3> QED BY <1>1, <2>2, <3>2
  <2> QED BY <1>1, <2>1, <2>2
<1>3. u \in Nat /\ v \in 0 .. K - 1
  <2> HIDE DEF q1, r1
  <2> QED BY <1>1, <1>2
<1>4. ASSUME NEW p \in 0 .. K - 1
      PROVE  /\ q + One(p < r) - One(p < m) = q1 + One(Back(p, m) < r1)
             /\ Back(p, r) = Back(Back(p, m), r1) /\ Back(p, m) \in 0 .. K - 1
  BY <1>1 DEF One, Back
<1>5. ASSUME NEW p \in 0 .. K - 1
      PROVE  /\ q1 + One(p < r1) + (s + One(Back(p, r1) < t)) = u + One(p < v)
             /\ Back(Back(p, r1), t) = Back(p, v)
  <2> HIDE DEF q1, r1
  <2> QED BY <1>1, <1>2 DEF One, Back
<1>6. ASSUME NEW p \in 0 .. K - 1
      PROVE  /\ q + One(p < r) - One(p < m) + (s + One(Back(p, r) < t)) = u + One(Back(p, m) < v)
             /\ Back(Back(p, r), t) = Back(Back(p, m), v)
  <2> HIDE DEF q1, r1, u, v
  <2> QED BY <1>4, <1>5
<1>7. K * u + v = K * q + r - m + (K * s + t)
  <2>1. K * q1 + r1 = K * q + r - m
    <3>1. K * (q - 1) = K * q - K /\ K * q \in Int
      BY <1>1
    <3> QED BY <1>1, <3>1
  <2>2. K * u + v = K * q1 + r1 + (K * s + t)
    <3> HIDE DEF q1, r1
    <3>1. K * (q1 + s) = K * q1 + K * s /\ K * (q1 + s + 1) = K * q1 + K * s + K
      BY <1>1, <1>2
    <3>2. K * q1 \in Int /\ K * s \in Int
      BY <1>1, <1>2
    <3> QED BY <1>1, <1>2, <3>1, <3>2
  <2> QED BY <2>1, <2>2
<1> HIDE DEF u, v
<1> QED BY <1>3, <1>6, <1>7 DEF LevelAgain

-----------------------------------------------------------------------------
(* The fetch queue's rotation and the level of its banks.                  *)
ReadyPrefix == \A c, d \in Channels : c < d /\ v_s_rdy[d] => v_s_rdy[c]

Rotation ==
  /\ fq_rd_ptr \in Int /\ fq_wr_ptr \in Int
  /\ \A b \in Banks : /\ rd_add_ptr[b] = (b - fq_rd_ptr) % K
                      /\ wr_add_ptr[b] = (b - fq_wr_ptr) % K
                      /\ rd_add_ptr_rev[b] = (fq_rd_ptr + b) % K

Filled(q, r) ==
  \A b \in Banks : /\ crdt_cnt[b] = q + One(rd_add_ptr[b] < r)
                   /\ wr_add_ptr[b] = Back(rd_add_ptr[b], r)

BalanceInv ==
  /\ RoomInv
  /\ ReadyPrefix
  /\ Rotation
  /\ crdt_cnt \in [Banks -> 0 .. FQ_BUF_DEPTH]
  /\ \E q \in Nat, r \in 0 .. K - 1 : Filled(q, r)

LEMMA RotationFacts ==
  ASSUME Rotation, NEW b \in Banks
  PROVE  /\ rd_add_ptr[b] \in Banks /\ rd_add_ptr_rev[b] \in Banks
         /\ rd_add_ptr_rev[rd_add_ptr[b]] = b
         /\ rd_add_ptr[rd_add_ptr_rev[b]] = b
BY RotationInverse DEF Rotation

(* When m instructions are read, every bank moves up m places.             *)
LEMMA ReadRotates ==
  ASSUME Rotation, Rotation', NEW m \in 0 .. K, fq_rd_ptr' = (fq_rd_ptr + m) % (2 * K),
         NEW b \in Banks
  PROVE  rd_add_ptr'[b] = Back(rd_add_ptr[b], m)
<1>1. K \in Nat \ {0} /\ Banks = 0 .. K - 1
  BY Widths
<1>2. /\ fq_rd_ptr \in Int /\ b \in Int /\ m \in Int
      /\ rd_add_ptr[b] = (b - fq_rd_ptr) % K /\ rd_add_ptr'[b] = (b - fq_rd_ptr') % K
  <2>1. fq_rd_ptr \in Int /\ rd_add_ptr[b] = (b - fq_rd_ptr) % K
    BY Zenon DEF Rotation
  <2>2. rd_add_ptr'[b] = (b - fq_rd_ptr') % K
    BY Zenon DEF Rotation
  <2> QED BY <1>1, <2>1, <2>2
<1>3. CASE m < K
  <2>1. m \in 0 .. K - 1 /\ m = K * 0 + m
    BY <1>1, <1>3
  <2>2. (b - ((fq_rd_ptr + (K * 0 + m)) % (2 * K))) % K = Back((b - fq_rd_ptr) % K, m)
    BY <1>2, <2>1, Rotate
  <2> QED BY <1>2, <2>1, <2>2
<1>4. CASE m = K
  <2>1. 0 \in 0 .. K - 1 /\ m = K * 1 + 0
    BY <1>1, <1>4
  <2>2. (b - ((fq_rd_ptr + (K * 1 + 0)) % (2 * K))) % K = Back((b - fq_rd_ptr) % K, 0)
    BY <1>2, <2>1, Rotate
  <2>3. Back(rd_add_ptr[b], 0) = Back(rd_add_ptr[b], m)
    <3>1. rd_add_ptr[b] \in 0 .. K - 1
      BY <1>1, RotationFacts
    <3> QED BY <1>1, <1>4, <3>1 DEF Back
  <2> QED BY <1>2, <2>1, <2>2, <2>3
<1> QED BY <1>1, <1>3, <1>4

(* A set of the first numbers is an interval.                              *)
LEMMA DownClosed ==
  ASSUME NEW m \in Nat, NEW S \in SUBSET (0 .. m - 1), \A j \in S : \A i \in 0 .. j : i \in S
  PROVE  Cardinality(S) \in 0 .. m /\ S = 0 .. Cardinality(S) - 1
<1>1. IsFiniteSet(0 .. m - 1) /\ Cardinality(0 .. m - 1) = m
  BY FS_Interval
<1>2. IsFiniteSet(S) /\ Cardinality(S) <= m /\ Cardinality(S) \in Nat
  BY <1>1, FS_Subset, FS_CardinalityType
<1>3. \A j \in S : j < Cardinality(S)
  <2> TAKE j \in S
  <2>1. j \in Nat /\ 0 .. j \subseteq S
    OBVIOUS
  <2>2. Cardinality(0 .. j) = j + 1
    BY <2>1, FS_Interval
  <2>3. Cardinality(0 .. j) <= Cardinality(S)
    BY <1>2, <2>1, FS_Subset
  <2> QED BY <1>2, <2>1, <2>2, <2>3
<1>4. S \subseteq 0 .. Cardinality(S) - 1
  BY <1>2, <1>3
<1> DEFINE n == Cardinality(S)
<1>5. n \in 0 .. m /\ S \subseteq 0 .. n - 1
  BY <1>2, <1>4
<1>6. IsFiniteSet(0 .. n - 1) /\ Cardinality(0 .. n - 1) = Cardinality(S)
  <2>1. n \in Nat
    BY <1>2
  <2>2. n = Cardinality(S)
    OBVIOUS
  <2> HIDE DEF n
  <2>3. IsFiniteSet(0 .. n - 1) /\ Cardinality(0 .. n - 1) = n
    BY <2>1, FS_Interval
  <2> QED BY <2>2, <2>3
<1>7. S = 0 .. n - 1
  <2> HIDE DEF n
  <2> QED BY <1>5, <1>6, FS_Subset
<1> QED BY <1>5, <1>7

(* What is read comes from the first banks of the rotation.                *)
LEMMA ReadsFirst ==
  ASSUME BalanceInv, NEW credit \in BOOLEAN, NEW rdy,
         rdy = IF credit THEN {c \in Channels : v_s_rdy[c]} ELSE {}
  PROVE  /\ ReadNum(rdy) \in 0 .. K
         /\ \A b \in Banks : /\ Reads(b, rdy) = One(rd_add_ptr[b] < ReadNum(rdy))
                             /\ rd_add_ptr[b] < ReadNum(rdy) => crdt_cnt[b] > 0
<1> DEFINE S == AckVld \cap rdy
<1>1. K \in Nat \ {0} /\ Channels = Banks /\ Banks = 0 .. K - 1
  BY Widths
<1>2. PICK q \in Nat, r \in 0 .. K - 1 : Filled(q, r)
  BY DEF BalanceInv
<1>3. Rotation /\ ReadyPrefix
  BY DEF BalanceInv
<1>4. S \in SUBSET (0 .. K - 1)
  BY <1>1 DEF AckVld
<1>5. \A j \in S : \A i \in 0 .. j : i \in S
  <2> TAKE j \in S
  <2> TAKE i \in 0 .. j
  <2>1. i \in Banks /\ j \in Banks /\ FqVld(j) /\ j \in rdy /\ (i < j \/ i = j)
    BY <1>1, <1>4 DEF AckVld
  <2>2. i \in rdy
    BY <1>1, <1>3, <2>1 DEF ReadyPrefix
  <2>3. FqVld(i)
    <3>1. /\ crdt_cnt[rd_add_ptr_rev[i]] = q + One(i < r)
          /\ crdt_cnt[rd_add_ptr_rev[j]] = q + One(j < r)
      <4>1. /\ rd_add_ptr_rev[i] \in Banks /\ rd_add_ptr[rd_add_ptr_rev[i]] = i
            /\ rd_add_ptr_rev[j] \in Banks /\ rd_add_ptr[rd_add_ptr_rev[j]] = j
        BY <1>3, <2>1, RotationFacts
      <4> QED BY <1>2, <4>1 DEF Filled
    <3> QED BY <1>1, <2>1, <3>1 DEF FqVld, One
  <2> QED BY <2>1, <2>2, <2>3 DEF AckVld
<1>6. Cardinality(S) \in 0 .. K /\ S = 0 .. Cardinality(S) - 1
  <2> HIDE DEF S
  <2>1. K \in Nat
    BY <1>1
  <2> QED BY <1>4, <1>5, <2>1, DownClosed
<1>7. ReadNum(rdy) = Cardinality(S)
  BY DEF ReadNum
<1>8. ASSUME NEW b \in Banks
      PROVE  /\ Reads(b, rdy) = One(rd_add_ptr[b] < ReadNum(rdy))
             /\ rd_add_ptr[b] < ReadNum(rdy) => crdt_cnt[b] > 0
  <2>1. rd_add_ptr[b] \in Banks /\ rd_add_ptr_rev[rd_add_ptr[b]] = b
    BY <1>3, RotationFacts
  <2>2. rd_add_ptr[b] \in S <=> crdt_cnt[b] > 0 /\ rd_add_ptr[b] \in rdy
    BY <2>1 DEF AckVld, FqVld
  <2>3. rd_add_ptr[b] \in S <=> rd_add_ptr[b] < ReadNum(rdy)
    <3> HIDE DEF S
    <3> QED BY <1>1, <1>6, <1>7, <2>1
  <2> QED BY <2>2, <2>3 DEF Reads, One
<1> QED BY <1>6, <1>7, <1>8

(* A cycle keeps the banks level: the rotation registers, computed from    *)
(* what this cycle reads and writes, are those the next one needs.  The    *)
(* banks together hold what was not read and the line.                     *)
FilledAgain(l) == \E u \in Nat, v \in 0 .. K - 1 : Filled(u, v)' /\ K * u + v = l

LEMMA NextBalanceInv ==
  ASSUME BalanceInv, RoomInv', NEW n \in LINES, NEW credit \in BOOLEAN, NEW taken \in SUBSET MVld,
         NEW edge \in BOOLEAN, Clock(Line(n), credit, taken, edge),
         NEW rdy, rdy = IF credit THEN {c \in Channels : v_s_rdy[c]} ELSE {}
  PROVE  /\ BalanceInv'
         /\ \A q \in Nat, r \in 0 .. K - 1 :
              ~edge /\ Filled(q, r) => FilledAgain(K * q + r - ReadNum(rdy) + n)
<1> DEFINE line == Line(n)
           m    == ReadNum(rdy)
           s    == n \div K
           t    == n % K
<1>1. /\ K \in Nat \ {0} /\ Channels = Banks /\ Banks = 0 .. K - 1 /\ S_CHANNEL = K
      /\ FQ_BUF_IN_NUM \in Nat \ {0} /\ FQ_BUF_DEPTH \in Nat /\ FQ_BUF_IN_NUM <= FQ_BUF_DEPTH
  BY Widths
<1>2. n \in Nat /\ Len(line) = n /\ (line = <<>> <=> n = 0)
  <2>1. n \in Nat
    BY <1>1, FetchPathAssumption DEF FILTER_CHANNEL
  <2> QED BY <2>1 DEF Line
<1>3. /\ LegalLine(line) /\ NextRotation(line, rdy, edge) /\ NextBankPtr(line, rdy, edge)
      /\ NextSRdy(taken, edge)
  BY DEF Clock, NextFetchQueue, NextIssueBuffer
<1>4. /\ m \in 0 .. K
      /\ \A b \in Banks : /\ Reads(b, rdy) = One(rd_add_ptr[b] < m)
                          /\ rd_add_ptr[b] < m => crdt_cnt[b] > 0
  BY ReadsFirst
<1>5. s \in Nat /\ t \in 0 .. K - 1 /\ n = K * s + t
  <2>1. s \in Int /\ t \in 0 .. K - 1 /\ n = K * s + t
    BY <1>1, <1>2, DivMod
  <2>2. s >= 0
    <3> SUFFICES ASSUME s <= -1 PROVE FALSE
      BY <2>1
    <3> HIDE DEF s, t
    <3>1. K * s <= -K
      BY <1>1, <2>1
    <3> QED BY <1>1, <1>2, <2>1, <3>1
  <2> QED BY <2>1, <2>2
<1>6. n <= FQ_BUF_IN_NUM * K /\ (n # 0 => \A b \in Banks : FQ_BUF_DEPTH - crdt_cnt[b] >= FQ_BUF_IN_NUM)
  <2>1. n <= FQ_BUF_IN_NUM * K
    BY <1>1, <1>2, FetchPathAssumption DEF FILTER_CHANNEL, K
  <2> QED BY <1>2, <1>3, <2>1 DEF LegalLine, FilterRdy
<1> HIDE DEF line, m, s, t
<1>7. ReadyPrefix'
  <2>1. v_s_rdy' = [c \in Channels |-> edge \/ c + S_CHANNEL < ReadyNum(taken)]
    BY <1>3 DEF NextSRdy
  <2>2. ReadyNum(taken) \in Int
    <3>1. CntO(taken) \in 0 .. wr_ptr /\ wr_ptr \in Int /\ BUFFER_DEPTH \in Int
      <4>1. {} \subseteq Channels
        OBVIOUS
      <4> QED BY <4>1, InOutBounds, IssueBufferAssumption DEF BalanceInv, RoomInv
    <3> QED BY <3>1 DEF ReadyNum
  <2>3. ASSUME NEW c \in Channels, NEW d \in Channels, c < d, v_s_rdy'[d] PROVE v_s_rdy'[c]
    <3>1. c \in Int /\ d \in Int /\ S_CHANNEL \in Int
      BY <1>1
    <3>2. d + S_CHANNEL < ReadyNum(taken) => c + S_CHANNEL < ReadyNum(taken)
      BY <2>2, <2>3, <3>1
    <3>3. edge \/ d + S_CHANNEL < ReadyNum(taken)
      BY <2>1, <2>3, Zenon
    <3> QED BY <2>1, <3>2, <3>3, Zenon
  <2> QED BY <2>3 DEF ReadyPrefix
<1>8. Rotation'
  <2>1. /\ fq_rd_ptr' \in Int /\ fq_wr_ptr' \in Int
    <3> DEFINE d == 2 * K
    <3>1. d \in Nat \ {0} /\ fq_rd_ptr + m \in Int /\ fq_wr_ptr + n \in Int
      BY <1>1, <1>2, <1>4 DEF BalanceInv, Rotation
    <3>2. /\ fq_rd_ptr' = (IF edge THEN 0 ELSE (fq_rd_ptr + m) % d)
          /\ fq_wr_ptr' = (IF edge THEN 0 ELSE (fq_wr_ptr + n) % d)
      BY <1>2, <1>3 DEF NextRotation, K, m
    <3> HIDE DEF d
    <3>3. (fq_rd_ptr + m) % d \in Int /\ (fq_wr_ptr + n) % d \in Int
      BY <3>1
    <3> QED BY <3>2, <3>3
  <2>2. \A b \in Banks : /\ rd_add_ptr'[b] = (b - fq_rd_ptr') % K
                         /\ wr_add_ptr'[b] = (b - fq_wr_ptr') % K
                         /\ rd_add_ptr_rev'[b] = (fq_rd_ptr' + b) % K
    BY <1>3 DEF NextRotation, K
  <2> QED BY <2>1, <2>2 DEF Rotation
<1>9. ASSUME edge PROVE BalanceInv'
  <2>1. fq_rd_ptr' = 0 /\ fq_wr_ptr' = 0 /\ crdt_cnt' = [b \in Banks |-> 0]
    BY <1>3, <1>9 DEF NextRotation, NextBankPtr
  <2>2. crdt_cnt' \in [Banks -> 0 .. FQ_BUF_DEPTH]
    BY <1>1, <2>1
  <2>3. \A b \in Banks : rd_add_ptr'[b] = b /\ wr_add_ptr'[b] = b
    <3> TAKE b \in Banks
    <3>1. b - 0 = K * 0 + b /\ b \in 0 .. K - 1 /\ b - 0 \in Int
      BY <1>1
    <3>2. (b - 0) % K = b
      BY <1>1, <3>1, ModValue
    <3> QED BY <1>8, <2>1, <3>2 DEF Rotation
  <2>4. Filled(0, 0)' /\ 0 \in 0 .. K - 1
    BY <1>1, <2>1, <2>3 DEF Filled, One, Back
  <2>5. \E q \in Nat, r \in 0 .. K - 1 : Filled(q, r)'
    BY <2>4
  <2> QED BY <1>7, <1>8, <2>2, <2>5 DEF BalanceInv, Filled
<1>10. ASSUME ~edge, NEW q \in Nat, NEW r \in 0 .. K - 1, Filled(q, r)
       PROVE  crdt_cnt' \in [Banks -> 0 .. FQ_BUF_DEPTH] /\ FilledAgain(K * q + r - m + n)
  <2>1. Filled(q, r)
    BY <1>10
  <2>2. \A b \in Banks : rd_add_ptr[b] \in 0 .. K - 1
    BY <1>1, RotationFacts DEF BalanceInv
  <2>3. CanRead(q, r, m)
    <3> SUFFICES ASSUME NEW p \in 0 .. K - 1 PROVE p < m => q + One(p < r) > 0
      BY DEF CanRead
    <3>1. rd_add_ptr_rev[p] \in Banks /\ rd_add_ptr[rd_add_ptr_rev[p]] = p
      BY <1>1, RotationFacts DEF BalanceInv
    <3> QED BY <1>4, <2>1, <3>1 DEF Filled
  <2>4. PICK u \in Nat, v \in 0 .. K - 1 : LevelAgain(q, r, m, s, t, u, v)
    <3>1. /\ q \in Nat /\ r \in 0 .. K - 1 /\ m \in 0 .. K /\ s \in Nat /\ t \in 0 .. K - 1
      BY <1>4, <1>5
    <3> QED BY <3>1, <2>3, Level
  <2>5. ASSUME NEW b \in Banks
        PROVE  /\ rd_add_ptr'[b] = Back(rd_add_ptr[b], m)
               /\ wr_add_ptr'[b] = Back(wr_add_ptr[b], t)
    <3>1. fq_rd_ptr' = (fq_rd_ptr + m) % (2 * K) /\ fq_wr_ptr' = (fq_wr_ptr + (K * s + t)) % (2 * K)
      BY <1>2, <1>3, <1>5, <1>10 DEF NextRotation, K, m
    <3>2. /\ fq_rd_ptr \in Int /\ fq_wr_ptr \in Int /\ b \in Int /\ m \in Int
          /\ rd_add_ptr[b] = (b - fq_rd_ptr) % K /\ wr_add_ptr[b] = (b - fq_wr_ptr) % K
          /\ rd_add_ptr'[b] = (b - fq_rd_ptr') % K /\ wr_add_ptr'[b] = (b - fq_wr_ptr') % K
      <4>1. Rotation /\ b \in Int /\ m \in Int
        BY <1>1, <1>4 DEF BalanceInv
      <4>2. /\ fq_rd_ptr \in Int /\ fq_wr_ptr \in Int
            /\ rd_add_ptr[b] = (b - fq_rd_ptr) % K /\ wr_add_ptr[b] = (b - fq_wr_ptr) % K
        BY <4>1, Zenon DEF Rotation
      <4>3. rd_add_ptr'[b] = (b - fq_rd_ptr') % K /\ wr_add_ptr'[b] = (b - fq_wr_ptr') % K
        BY <1>8, Zenon DEF Rotation
      <4> QED BY <4>1, <4>2, <4>3
    <3>3. wr_add_ptr'[b] = Back(wr_add_ptr[b], t)
      BY <1>5, <3>1, <3>2, Rotate
    <3>4. rd_add_ptr'[b] = Back(rd_add_ptr[b], m)
      BY <1>4, <1>8, <3>1, ReadRotates DEF BalanceInv
    <3> QED BY <3>3, <3>4
  <2>6. ASSUME NEW b \in Banks
        PROVE  /\ Cardinality(ReqEn(b, line)) = s + One(wr_add_ptr[b] < t)
               /\ s + One(wr_add_ptr[b] < t) \in 0 .. FQ_BUF_IN_NUM
               /\ n = 0 => s + One(wr_add_ptr[b] < t) = 0
    <3>1. wr_add_ptr[b] \in 0 .. K - 1
      BY <1>1, <2>1, <2>2 DEF Filled, Back
    <3>2. ReqEn(b, line) = {j \in BankIns : j * K + wr_add_ptr[b] < K * s + t}
      BY <1>2, <1>5 DEF ReqEn, LineSlot, K
    <3>3. n = 0 => s = 0 /\ t = 0
      BY <1>1, <1>5
    <3>4. n = 0 => s + One(wr_add_ptr[b] < t) = 0
      BY <3>1, <3>3 DEF One
    <3> QED BY <1>5, <1>6, <3>1, <3>2, <3>4, BankFill
  <2>7. ASSUME NEW b \in Banks
        PROVE  /\ crdt_cnt'[b] = crdt_cnt[b] + (s + One(wr_add_ptr[b] < t)) - One(rd_add_ptr[b] < m)
               /\ crdt_cnt'[b] \in 0 .. FQ_BUF_DEPTH
    <3> DEFINE in  == s + One(wr_add_ptr[b] < t)
               out == One(rd_add_ptr[b] < m)
               c   == crdt_cnt[b] + in - out
    <3>1. /\ in \in 0 .. FQ_BUF_IN_NUM /\ (n = 0 => in = 0) /\ out \in 0 .. 1
          /\ (out = 1 => crdt_cnt[b] > 0) /\ crdt_cnt[b] \in 0 .. FQ_BUF_DEPTH
      <4>1. crdt_cnt[b] \in 0 .. FQ_BUF_DEPTH
        BY DEF BalanceInv
      <4>2. rd_add_ptr[b] < m => crdt_cnt[b] > 0
        BY <1>4
      <4> QED BY <2>6, <4>1, <4>2 DEF One
    <3>2. crdt_cnt'[b] = c % (2 * FQ_BUF_DEPTH)
      BY <1>3, <1>4, <1>10, <2>6 DEF NextBankPtr
    <3> HIDE DEF in, out
    <3>3. c \in 0 .. FQ_BUF_DEPTH
      BY <1>1, <1>6, <3>1
    <3>4. c = (2 * FQ_BUF_DEPTH) * 0 + c /\ c \in 0 .. 2 * FQ_BUF_DEPTH - 1 /\ c \in Int
          /\ 2 * FQ_BUF_DEPTH \in Nat \ {0}
      BY <1>1, <3>3
    <3> HIDE DEF c
    <3>5. c % (2 * FQ_BUF_DEPTH) = c
      BY <3>4, ModValue
    <3> QED BY <3>2, <3>3, <3>5 DEF c, in, out
  <2>8. crdt_cnt' \in [Banks -> 0 .. FQ_BUF_DEPTH]
    <3>1. crdt_cnt' = [b \in Banks |-> crdt_cnt'[b]]
      BY <1>3 DEF NextBankPtr
    <3> QED BY <2>7, <3>1
  <2>9. Filled(u, v)'
    <3>1. ASSUME NEW b \in Banks
          PROVE  /\ crdt_cnt'[b] = u + One(rd_add_ptr'[b] < v)
                 /\ wr_add_ptr'[b] = Back(rd_add_ptr'[b], v)
      <4> DEFINE p == rd_add_ptr[b]
      <4>1. /\ crdt_cnt[b] = q + One(p < r) /\ wr_add_ptr[b] = Back(p, r) /\ p \in 0 .. K - 1
        BY <2>1, <2>2 DEF Filled
      <4>2. /\ q + One(p < r) - One(p < m) + (s + One(Back(p, r) < t)) = u + One(Back(p, m) < v)
            /\ Back(Back(p, r), t) = Back(Back(p, m), v)
        BY <2>4, <4>1 DEF LevelAgain
      <4>3. crdt_cnt'[b] = q + One(p < r) + (s + One(Back(p, r) < t)) - One(p < m)
        BY <2>7, <4>1
      <4>4. /\ One(p < r) \in Int /\ One(Back(p, r) < t) \in Int /\ One(p < m) \in Int
        BY DEF One
      <4>5. crdt_cnt'[b] = u + One(Back(p, m) < v)
        <5> HIDE DEF p
        <5> QED BY <1>5, <4>2, <4>3, <4>4
      <4> QED BY <2>5, <4>1, <4>2, <4>5
    <3> QED BY <3>1 DEF Filled
  <2>10. K * u + v = K * q + r - m + n
    BY <1>5, <2>4 DEF LevelAgain
  <2> QED BY <2>8, <2>9, <2>10 DEF FilledAgain
<1>11. ASSUME ~edge PROVE BalanceInv'
  <2>1. PICK q \in Nat, r \in 0 .. K - 1 : Filled(q, r)
    BY DEF BalanceInv
  <2>2. crdt_cnt' \in [Banks -> 0 .. FQ_BUF_DEPTH] /\ FilledAgain(K * q + r - m + n)
    BY <1>10, <1>11, <2>1
  <2>3. \E u \in Nat, v \in 0 .. K - 1 : Filled(u, v)'
    BY <2>2 DEF FilledAgain
  <2> QED BY <1>7, <1>8, <2>2, <2>3 DEF BalanceInv, Filled
<1>12. BalanceInv'
  BY <1>9, <1>11
<1> QED BY <1>10, <1>12 DEF m

LEMMA InitBalanceInv == PathInit => BalanceInv
<1> SUFFICES ASSUME PathInit PROVE BalanceInv
  OBVIOUS
<1>1. /\ K \in Nat \ {0} /\ Banks = 0 .. K - 1 /\ FQ_BUF_DEPTH \in Nat
  BY Widths
<1>2. /\ fq_wr_ptr = 0 /\ fq_rd_ptr = 0 /\ v_s_rdy = [c \in Channels |-> TRUE]
      /\ crdt_cnt = [b \in Banks |-> 0]
      /\ wr_add_ptr = [b \in Banks |-> b] /\ rd_add_ptr = [b \in Banks |-> b]
      /\ rd_add_ptr_rev = [i \in Banks |-> i]
  BY DEF PathInit, FetchQueueInit, IssueBufferInit
<1>3. \A b \in Banks : (b - 0) % K = b /\ (0 + b) % K = b
  <2> TAKE b \in Banks
  <2>1. b - 0 = K * 0 + b /\ 0 + b = K * 0 + b /\ b \in 0 .. K - 1 /\ b - 0 \in Int /\ 0 + b \in Int
    BY <1>1
  <2> QED BY <1>1, <2>1, ModValue
<1>4. Rotation
  BY <1>2, <1>3 DEF Rotation
<1>5. Filled(0, 0) /\ 0 \in 0 .. K - 1
  BY <1>1, <1>2 DEF Filled, One, Back
<1>6. ReadyPrefix
  BY <1>2 DEF ReadyPrefix
<1>7. crdt_cnt \in [Banks -> 0 .. FQ_BUF_DEPTH]
  BY <1>1, <1>2
<1> QED BY <1>4, <1>5, <1>6, <1>7, InitRoomInv DEF BalanceInv

(* The banks stay level whatever lines arrive, whatever is read and when   *)
(* cancels come: the rotations toy_fetch_queue2 precomputes always fit,    *)
(* for every number and depth of banks.                                    *)
THEOREM BanksStayBalanced == PathSpec => []BanksBalanced
<1>1. RoomInv /\ [PathNext]_pathVars => RoomInv'
  BY NextRoomStep
<1>2. BalanceInv /\ [PathNext]_pathVars => BalanceInv'
  <2> SUFFICES ASSUME BalanceInv, [PathNext]_pathVars PROVE BalanceInv'
    OBVIOUS
  <2>1. RoomInv'
    BY <1>1 DEF BalanceInv
  <2>2. CASE UNCHANGED pathVars
    BY <2>1, <2>2 DEF pathVars, ibVars, fqVars, fqRotation, fqBanks,
                      BalanceInv, ReadyPrefix, Rotation, Filled
  <2>3. ASSUME NEW n \in LINES, NEW credit \in BOOLEAN, NEW taken \in SUBSET MVld,
               NEW edge \in BOOLEAN, Clock(Line(n), credit, taken, edge)
        PROVE  BalanceInv'
    BY <2>1, <2>3, NextBalanceInv, Zenon
  <2> QED BY <2>2, <2>3 DEF PathNext, Run, CancelEdge
<1>3. BalanceInv => BanksBalanced
  <2> SUFFICES ASSUME BalanceInv, NEW i \in Banks, NEW k \in Banks, i < k
               PROVE  crdt_cnt[rd_add_ptr_rev[i]] - crdt_cnt[rd_add_ptr_rev[k]] \in {0, 1}
    BY DEF BanksBalanced
  <2>1. PICK q \in Nat, r \in 0 .. K - 1 : Filled(q, r)
    BY DEF BalanceInv
  <2>2. /\ rd_add_ptr_rev[i] \in Banks /\ rd_add_ptr[rd_add_ptr_rev[i]] = i
        /\ rd_add_ptr_rev[k] \in Banks /\ rd_add_ptr[rd_add_ptr_rev[k]] = k
    BY RotationFacts DEF BalanceInv
  <2>3. /\ crdt_cnt[rd_add_ptr_rev[i]] = q + One(i < r)
        /\ crdt_cnt[rd_add_ptr_rev[k]] = q + One(k < r)
    BY <2>1, <2>2 DEF Filled
  <2>4. i \in Int /\ k \in Int /\ r \in Int
    BY Widths
  <2> QED BY <2>3, <2>4 DEF One
<1> QED BY <1>2, <1>3, InitBalanceInv, PTL DEF PathSpec
=============================================================================

--------------------------- MODULE FlowControl_proofs ---------------------------
(***************************************************************************)
(* What holds of FlowControl for every number of transmission queues, and  *)
(* for every size, unit, limit and modulus of the counters.                *)
(***************************************************************************)
EXTENDS FlowControl, SequenceTheorems, TLAPS

-----------------------------------------------------------------------------
(* Counters that wrap around *)

\* The modulus is twice a number that the limits stay below.
LEMMA Modulus ==
    /\ TwoTo32 \in Nat \ {0} /\ TwoTo32 \div 2 \in Nat \ {0}
    /\ TwoTo32 = 2 * (TwoTo32 \div 2)
    /\ MinLimit \in Uint32 /\ MaxLimit \in 0..(TwoTo32 \div 2 - 1)
<1>1. TwoTo32 \in Nat \ {0} /\ TwoTo32 % 2 = 0
  BY LimitsAssumption
<1>2. TwoTo32 \div 2 \in Nat \ {0} /\ TwoTo32 = 2 * (TwoTo32 \div 2)
  BY <1>1
<1>3. MaxLimit \in Nat /\ MaxLimit < TwoTo32 \div 2
  BY <1>2, LimitsAssumption
<1>4. QED
  BY <1>1, <1>2, <1>3, LimitsAssumption DEF Uint32

LEMMA WrappedType == ASSUME NEW x \in Int PROVE U32(x) \in Uint32 /\ U32(x) \in Int
  BY Modulus DEF U32, Uint32

LEMMA DivisionSplit ==
    ASSUME NEW x \in Int, NEW n \in Nat, n > 0
    PROVE  \E k \in Int : x = k * n + (x % n)
<1>1. x \div n \in Int /\ x = n * (x \div n) + (x % n) /\ x % n \in Int
  OBVIOUS
<1>2. PICK k \in Int : k = x \div n
  BY <1>1
<1>3. n * k = k * n
  BY <1>2
<1>4. QED
  BY <1>1, <1>2, <1>3

LEMMA WrappedSplit ==
    ASSUME NEW x \in Int
    PROVE  \E k \in Int : x = k * TwoTo32 + U32(x)
<1>1. TwoTo32 \in Nat /\ TwoTo32 > 0
  BY Modulus
<1>2. \E k \in Int : x = k * TwoTo32 + (x % TwoTo32)
  BY <1>1, DivisionSplit
<1>3. QED
  BY <1>2 DEF U32

\* A number has one remainder.
LEMMA OneRemainder ==
    ASSUME NEW N \in Nat, NEW r \in 0..(N - 1), NEW s \in 0..(N - 1),
           NEW k \in Int, NEW l \in Int, k * N + r = l * N + s
    PROVE  r = s
<1>1. CASE k = l
  BY <1>1
<1>2. CASE k < l
  <2>1. PICK d \in Nat : l = k + 1 + d
    <3>1. l - k - 1 \in Nat /\ l = k + 1 + (l - k - 1)
      BY <1>2
    <3>2. QED
      BY <3>1
  <2>2. l * N = k * N + N + d * N /\ d * N \in Nat
    BY <2>1
  <2>3. QED
    BY <2>2
<1>3. CASE l < k
  <2>1. PICK d \in Nat : k = l + 1 + d
    <3>1. k - l - 1 \in Nat /\ k = l + 1 + (k - l - 1)
      BY <1>3
    <3>2. QED
      BY <3>1
  <2>2. k * N = l * N + N + d * N /\ d * N \in Nat
    BY <2>1
  <2>3. QED
    BY <2>2
<1>4. QED
  BY <1>1, <1>2, <1>3

\* Numbers that differ by a multiple of the modulus wrap to the same.
LEMMA WrappedShift ==
    ASSUME NEW x \in Int, NEW y \in Int, NEW k \in Int, x = y + k * TwoTo32
    PROVE  U32(x) = U32(y)
<1>1. PICK a \in Int : x = a * TwoTo32 + U32(x)
  BY WrappedSplit
<1>2. PICK b \in Int : y = b * TwoTo32 + U32(y)
  BY WrappedSplit
<1>3. TwoTo32 \in Nat /\ U32(x) \in 0..(TwoTo32 - 1) /\ U32(y) \in 0..(TwoTo32 - 1)
  BY Modulus, WrappedType DEF Uint32
<1>4. PICK c \in Int : c = b + k
  OBVIOUS
<1>5. a * TwoTo32 + U32(x) = c * TwoTo32 + U32(y)
  <2>1. /\ k * TwoTo32 \in Int /\ a * TwoTo32 \in Int /\ b * TwoTo32 \in Int
        /\ U32(x) \in Int /\ U32(y) \in Int
    BY <1>3
  <2>2. c * TwoTo32 = b * TwoTo32 + k * TwoTo32
    BY <1>3, <1>4
  <2> DEFINE K == k * TwoTo32
             A == a * TwoTo32
             B == b * TwoTo32
             C == c * TwoTo32
  <2>3. x = y + K /\ x = A + U32(x) /\ y = B + U32(y) /\ C = B + K
    BY <1>1, <1>2, <2>2
  <2>4. K \in Int /\ A \in Int /\ B \in Int /\ C \in Int
    BY <2>1, <2>2
  <2> HIDE DEF K, A, B, C
  <2>5. A + U32(x) = C + U32(y)
    BY <2>1, <2>3, <2>4
  <2>6. QED
    BY <2>5 DEF A, C
<1>6. QED
  BY <1>3, <1>5, OneRemainder

LEMMA WrappedSmall == ASSUME NEW x \in Uint32 PROVE U32(x) = x /\ x \in Int
<1>1. x \in 0..(TwoTo32 - 1) /\ x \in Int /\ TwoTo32 \in Nat
  BY Modulus DEF Uint32
<1>2. PICK k \in Int : x = k * TwoTo32 + U32(x)
  BY <1>1, WrappedSplit
<1>3. U32(x) \in 0..(TwoTo32 - 1)
  BY <1>1, WrappedType DEF Uint32
<1>4. 0 * TwoTo32 + x = k * TwoTo32 + U32(x)
  BY <1>1, <1>2
<1>5. QED
  BY <1>1, <1>3, <1>4, OneRemainder

\* Wrapping the operands of a sum or a difference changes nothing.
LEMMA WrappedSum ==
    ASSUME NEW x \in Int, NEW y \in Int
    PROVE  /\ U32(U32(x) + y) = U32(x + y)
           /\ U32(x - U32(y)) = U32(x - y)
<1>1. PICK a \in Int : x = a * TwoTo32 + U32(x)
  BY WrappedSplit
<1>2. PICK b \in Int : y = b * TwoTo32 + U32(y)
  BY WrappedSplit
<1>3. TwoTo32 \in Int /\ U32(x) \in Int /\ U32(y) \in Int
  BY Modulus, WrappedType
<1>4. PICK c \in Int : c = -a
  OBVIOUS
<1>5. a * TwoTo32 \in Int /\ c * TwoTo32 = -(a * TwoTo32) /\ b * TwoTo32 \in Int
  BY <1>3, <1>4
<1>6. PICK u \in Int : u = U32(x) + y
  BY <1>3
<1>7. PICK v \in Int : v = x + y
  OBVIOUS
<1>8. u = v + c * TwoTo32
  BY <1>1, <1>3, <1>5, <1>6, <1>7
<1>9. PICK w \in Int : w = x - U32(y)
  BY <1>3
<1>10. PICK z \in Int : z = x - y
  OBVIOUS
<1>11. w = z + b * TwoTo32
  BY <1>2, <1>3, <1>5, <1>9, <1>10
<1>12. U32(u) = U32(v) /\ U32(w) = U32(z)
  BY <1>8, <1>11, WrappedShift
<1>13. QED
  BY <1>6, <1>7, <1>9, <1>10, <1>12

\* The signed reading.
LEMMA SignedType ==
    ASSUME NEW x \in Int
    PROVE  S32(x) \in Int /\ S32(x) < TwoTo32 \div 2
  BY WrappedType, Modulus DEF S32, Uint32

LEMMA PosdiffType ==
    ASSUME NEW x \in Int, NEW y \in Int
    PROVE  Posdiff(x, y) \in Uint32
<1>1. S32(x) \in Int /\ S32(y) \in Int
  BY SignedType
<1>2. S32(S32(x) - S32(y)) \in Int /\ S32(S32(x) - S32(y)) < TwoTo32 \div 2
  BY <1>1, SignedType
<1>3. QED
  BY <1>2, Modulus DEF Posdiff, AtLeast, Uint32

-----------------------------------------------------------------------------
(* Packet queues *)

\* The sizes of the items add up to n: f[i] is the sum from the i-th item on.
SizesAre(s, n) ==
    \E f \in [1..Len(s) + 1 -> Nat] :
        /\ f[1] = n /\ f[Len(s) + 1] = 0
        /\ \A i \in 1..Len(s) : f[i] = s[i].size + f[i + 1]

\* The counters of a queue are those of the items it holds.
QueueOK(q, S) ==
    /\ q = [items |-> q.items, nPackets |-> q.nPackets, nBytes |-> q.nBytes]
    /\ q.items \in Seq(S)
    /\ q.nPackets = Len(q.items)
    /\ SizesAre(q.items, q.nBytes)

Sized(S) == \A e \in S : e.size \in Nat

LEMMA QueueFacts ==
    ASSUME NEW S, NEW q, QueueOK(q, S)
    PROVE  /\ q.nPackets \in Nat /\ q.nBytes \in Nat
           /\ q.nPackets = 0 => q.items = <<>> /\ q.nBytes = 0
           /\ q.nPackets # 0 => q.items # <<>> /\ Len(q.items) \in Nat \ {0}
<1>1. q.nPackets \in Nat /\ q.nPackets = Len(q.items) /\ q.items \in Seq(S)
  BY LenProperties DEF QueueOK
<1>2. q.nPackets = 0 <=> q.items = <<>>
  BY <1>1, EmptySeq
<1>3. PICK f \in [1..Len(q.items) + 1 -> Nat] : f[1] = q.nBytes /\ f[Len(q.items) + 1] = 0
  BY DEF QueueOK, SizesAre
<1>4. q.nBytes \in Nat
  BY <1>1, <1>3
<1>5. q.nPackets = 0 => q.nBytes = 0
  BY <1>1, <1>3
<1>6. QED
  BY <1>1, <1>2, <1>4, <1>5

LEMMA NoSizes ==
    ASSUME NEW S
    PROVE  QueueOK(EmptyQueue, S) /\ EmptyQueue.nPackets = 0 /\ EmptyQueue.nBytes = 0
<1>1. <<>> \in Seq(S) /\ Len(<<>>) = 0
  BY EmptySeq
<1>2. SizesAre(<<>>, 0)
  <2>1. PICK f \in [1..1 -> Nat] : f[1] = 0
    <3>1. [i \in 1..1 |-> 0] \in [1..1 -> Nat] /\ [i \in 1..1 |-> 0][1] = 0
      OBVIOUS
    <3>2. QED
      BY <3>1
  <2>2. Len(<<>>) + 1 = 1 /\ 1..Len(<<>>) = {}
    BY <1>1
  <2>3. QED
    BY <2>1, <2>2 DEF SizesAre
<1>3. QED
  BY <1>1, <1>2 DEF QueueOK, EmptyQueue

LEMMA PutSizes ==
    ASSUME NEW S, Sized(S), NEW s \in Seq(S), NEW e \in S, NEW n, SizesAre(s, n)
    PROVE  SizesAre(Append(s, e), n + e.size)
<1> DEFINE t == Append(s, e)
<1>1. /\ Len(s) \in Nat /\ Len(t) = Len(s) + 1
      /\ \A i \in 1..Len(s) : t[i] = s[i]
      /\ t[Len(s) + 1] = e /\ e.size \in Nat
      /\ \A i \in 1..Len(s) : s[i].size \in Nat
  BY AppendProperties, LenProperties, ElementOfSeq DEF Sized
<1> HIDE DEF t
<1>2. PICK f \in [1..Len(s) + 1 -> Nat] :
        /\ f[1] = n /\ f[Len(s) + 1] = 0
        /\ \A i \in 1..Len(s) : f[i] = s[i].size + f[i + 1]
  BY DEF SizesAre
<1> DEFINE g == [i \in 1..Len(t) + 1 |-> IF i = Len(t) + 1 THEN 0 ELSE f[i] + e.size]
<1>3. g \in [1..Len(t) + 1 -> Nat]
  BY <1>1, <1>2
<1>4. g[1] = n + e.size /\ g[Len(t) + 1] = 0
  BY <1>1, <1>2
<1>5. ASSUME NEW i \in 1..Len(t) PROVE g[i] = t[i].size + g[i + 1]
  <2>1. CASE i = Len(t)
    BY <1>1, <1>2, <2>1
  <2>2. CASE i \in 1..Len(s)
    <3>1. f[i] = s[i].size + f[i + 1] /\ f[i + 1] \in Nat /\ s[i].size \in Nat
      BY <1>1, <1>2, <2>2
    <3>2. g[i] = f[i] + e.size /\ g[i + 1] = f[i + 1] + e.size /\ t[i] = s[i]
      BY <1>1, <2>2
    <3>3. QED
      BY <1>1, <3>1, <3>2
  <2>3. QED
    BY <1>1, <2>1, <2>2
<1> HIDE DEF g
<1>6. QED
  BY <1>3, <1>4, <1>5 DEF SizesAre, t

LEMMA TakeSizes ==
    ASSUME NEW S, Sized(S), NEW s \in Seq(S), s # <<>>, NEW n, SizesAre(s, n)
    PROVE  /\ SizesAre(Tail(s), n - Head(s).size)
           /\ Head(s).size \in Nat /\ Head(s).size <= n /\ n \in Nat
<1> DEFINE t == Tail(s)
<1>1. /\ Len(s) \in Nat \ {0} /\ Len(t) = Len(s) - 1 /\ Head(s) = s[1]
      /\ \A i \in 1..Len(t) : t[i] = s[i + 1]
      /\ Head(s).size \in Nat
  BY HeadTailProperties, EmptySeq, LenProperties DEF Sized
<1> HIDE DEF t
<1>2. PICK f \in [1..Len(s) + 1 -> Nat] :
        /\ f[1] = n /\ f[Len(s) + 1] = 0
        /\ \A i \in 1..Len(s) : f[i] = s[i].size + f[i + 1]
  BY DEF SizesAre
<1> DEFINE g == [i \in 1..Len(t) + 1 |-> f[i + 1]]
<1>3. g \in [1..Len(t) + 1 -> Nat]
  BY <1>1, <1>2
<1>4. n = Head(s).size + f[2] /\ f[2] \in Nat
  BY <1>1, <1>2
<1>5. g[1] = n - Head(s).size /\ g[Len(t) + 1] = 0
  BY <1>1, <1>2, <1>4
<1>6. \A i \in 1..Len(t) : g[i] = t[i].size + g[i + 1]
  BY <1>1, <1>2
<1> HIDE DEF g
<1>7. SizesAre(t, n - Head(s).size)
  BY <1>3, <1>5, <1>6 DEF SizesAre
<1>8. QED
  BY <1>1, <1>4, <1>7 DEF t

\* Storing an item, and taking the first.
LEMMA PutOK ==
    ASSUME NEW S, Sized(S), NEW q, QueueOK(q, S), NEW e \in S, NEW u, u = Put(q, e)
    PROVE  /\ QueueOK(u, S)
           /\ u.items = Append(q.items, e) /\ u.nPackets = q.nPackets + 1
           /\ u.nBytes = q.nBytes + e.size
<1>1. /\ u.items = Append(q.items, e) /\ u.nPackets = q.nPackets + 1
      /\ u.nBytes = q.nBytes + e.size
      /\ u = [items |-> u.items, nPackets |-> u.nPackets, nBytes |-> u.nBytes]
  BY DEF Put
<1>2. u.items \in Seq(S) /\ Len(u.items) = Len(q.items) + 1
  BY <1>1, AppendProperties DEF QueueOK
<1>3. SizesAre(u.items, u.nBytes)
  BY <1>1, PutSizes DEF QueueOK
<1>4. QED
  BY <1>1, <1>2, <1>3 DEF QueueOK

LEMMA TakeOK ==
    ASSUME NEW S, Sized(S), NEW q, QueueOK(q, S), q.nPackets # 0, NEW u, u = Take(q)
    PROVE  /\ QueueOK(u, S)
           /\ u.items = Tail(q.items) /\ u.nPackets = q.nPackets - 1
           /\ u.nBytes = q.nBytes - Head(q.items).size
           /\ Head(q.items) \in S /\ Head(q.items).size \in Nat
           /\ q.items # <<>>
<1>1. /\ u.items = Tail(q.items) /\ u.nPackets = q.nPackets - 1
      /\ u.nBytes = q.nBytes - Head(q.items).size
      /\ u = [items |-> u.items, nPackets |-> u.nPackets, nBytes |-> u.nBytes]
  BY DEF Take
<1>2. q.items # <<>> /\ q.items \in Seq(S)
  BY QueueFacts DEF QueueOK
<1>3. u.items \in Seq(S) /\ Len(u.items) = Len(q.items) - 1 /\ Head(q.items) \in S
  BY <1>1, <1>2, HeadTailProperties
<1>4. SizesAre(u.items, u.nBytes) /\ Head(q.items).size \in Nat
  BY <1>1, <1>2, TakeSizes DEF QueueOK
<1>5. u.nPackets = Len(u.items)
  BY <1>1, <1>3 DEF QueueOK
<1>6. QED
  BY <1>1, <1>2, <1>3, <1>4, <1>5 DEF QueueOK

-----------------------------------------------------------------------------
(* The queue limits *)

LimitsRecord(d) ==
    [limit |-> d.limit, numQueued |-> d.numQueued, numCompleted |-> d.numCompleted,
     lastObjCnt |-> d.lastObjCnt, prevNumQueued |-> d.prevNumQueued,
     prevLastObjCnt |-> d.prevLastObjCnt, prevOvlimit |-> d.prevOvlimit,
     lowestSlack |-> d.lowestSlack, adjLimit |-> d.adjLimit]

LimitsFields(d) ==
    /\ d.limit \in Uint32 /\ d.numQueued \in Uint32 /\ d.numCompleted \in Uint32
    /\ d.lastObjCnt \in Uint32 /\ d.prevNumQueued \in Uint32
    /\ d.prevLastObjCnt \in Uint32 /\ d.prevOvlimit \in Uint32
    /\ d.lowestSlack \in Uint32 /\ d.adjLimit \in Uint32

LEMMA LimitsAreRecords ==
    ASSUME NEW d
    PROVE  d \in LimitsType <=> d = LimitsRecord(d) /\ LimitsFields(d)
<1>1. ASSUME d \in LimitsType PROVE d = LimitsRecord(d) /\ LimitsFields(d)
  BY <1>1 DEF LimitsType, LimitsRecord, LimitsFields
<1>2. ASSUME d = LimitsRecord(d), LimitsFields(d) PROVE d \in LimitsType
  BY <1>2 DEF LimitsType, LimitsRecord, LimitsFields
<1>3. QED
  BY <1>1, <1>2

LEMMA Uint32Int == Uint32 \subseteq Int /\ 0 \in Uint32 /\ TwoTo32 - 1 \in Uint32
  BY Modulus DEF Uint32

\* The limit counts from the bytes completed, as Completed leaves it.
Settled(d) == \E limit \in 0..MaxLimit : d.adjLimit = U32(limit + d.numCompleted)

LEMMA ResetOK ==
    ASSUME NEW a \in Uint32, NEW d, d = ResetLimits(a)
    PROVE  d \in LimitsType /\ Outstanding(d) = 0
<1>1. d \in LimitsType
  BY Uint32Int DEF ResetLimits, LimitsType
<1>2. d.numQueued = 0 /\ d.numCompleted = 0
  BY DEF ResetLimits
<1>3. U32(0) = 0
  BY Uint32Int, WrappedSmall
<1>4. QED
  BY <1>1, <1>2, <1>3 DEF Outstanding

\* Bytes are queued: more of them are outstanding.
LEMMA QueuedOK ==
    ASSUME NEW d \in LimitsType, NEW count \in Uint32, NEW n \in Int,
           Outstanding(d) = U32(n), NEW u, u = Queued(d, count), NEW m, m = n + count
    PROVE  /\ u \in LimitsType
           /\ Outstanding(u) = U32(m)
           /\ Settled(d) => Settled(u)
<1>1. d = LimitsRecord(d) /\ LimitsFields(d) /\ count \in Int
  BY LimitsAreRecords, Uint32Int
<1>2. d.numQueued \in Int /\ d.numCompleted \in Int
  BY <1>1, Uint32Int DEF LimitsFields
<1>3. u = LimitsRecord(u)
  BY <1>1 DEF Queued, LimitsRecord
<1>4. /\ u.numQueued = U32(d.numQueued + count) /\ u.numCompleted = d.numCompleted
      /\ u.adjLimit = d.adjLimit
  BY <1>1 DEF Queued, LimitsRecord
<1>5. U32(d.numQueued + count) \in Uint32
  BY <1>1, <1>2, WrappedType
<1>6. LimitsFields(u)
  BY <1>1, <1>5 DEF Queued, LimitsRecord, LimitsFields
<1>7. Outstanding(u) = U32(m)
  <2>1. PICK x \in Int : x = d.numQueued + count
    BY <1>1, <1>2
  <2>2. PICK c \in Int : c = -d.numCompleted
    BY <1>2
  <2>3. U32(U32(x) + c) = U32(x + c)
    BY WrappedSum
  <2>4. Outstanding(u) = U32(U32(x) + c)
    <3>1. U32(x) \in Int
      BY WrappedType
    <3>2. U32(x) + c = U32(x) - d.numCompleted
      BY <1>2, <2>2, <3>1
    <3>3. QED
      BY <1>4, <2>1, <3>2 DEF Outstanding
  <2>5. PICK y \in Int : y = d.numQueued - d.numCompleted
    BY <1>2
  <2>6. x + c = y + count
    BY <1>1, <1>2, <2>1, <2>2, <2>5
  <2>7. U32(y) = U32(n)
    BY <2>5 DEF Outstanding
  <2>8. U32(y + count) = U32(U32(y) + count) /\ U32(n + count) = U32(U32(n) + count)
    BY <1>1, WrappedSum
  <2>9. QED
    BY <2>3, <2>4, <2>6, <2>7, <2>8
<1>8. Settled(d) => Settled(u)
  BY <1>4 DEF Settled
<1>9. QED
  BY <1>3, <1>6, <1>7, <1>8, LimitsAreRecords

LEMMA LowestSlackType ==
    ASSUME NEW d \in LimitsType, NEW count \in Int
    PROVE  LowestSlack(d, count) \in Uint32
<1>1. LimitsFields(d)
  BY LimitsAreRecords
<1>0. /\ d.limit \in Int /\ d.prevLastObjCnt \in Int /\ d.prevOvlimit \in Int
      /\ d.lowestSlack \in Uint32
  BY <1>1, Uint32Int DEF LimitsFields
<1>2. d.limit + d.prevOvlimit \in Int /\ 2 * count \in Int
  BY <1>0
<1>3. U32(d.limit + d.prevOvlimit) \in Int /\ U32(2 * count) \in Int
  BY <1>2, WrappedType
<1>4. /\ Posdiff(U32(d.limit + d.prevOvlimit), U32(2 * count)) \in Uint32
      /\ Posdiff(d.prevLastObjCnt, d.prevOvlimit) \in Uint32
  BY <1>0, <1>3, PosdiffType
<1>5. QED
  BY <1>0, <1>4, Uint32Int DEF LowestSlack, AtLeast, AtMost

LEMMA NextLimitType ==
    ASSUME NEW d \in LimitsType, NEW completed \in Uint32, NEW ovlimit \in Uint32,
           NEW count \in Int, NEW held \in BOOLEAN,
           NEW next, next = NextLimit(d, completed, ovlimit, count, held)
    PROVE  next.limit \in Uint32 /\ next.lowest \in Uint32
<1>1. LimitsFields(d)
  BY LimitsAreRecords
<1>2. d.limit \in Uint32 /\ d.lowestSlack \in Uint32 /\ d.limit \in Int /\ d.prevOvlimit \in Int
      /\ d.prevNumQueued \in Int /\ completed \in Int
  BY <1>1, Uint32Int DEF LimitsFields
<1>3. LowestSlack(d, count) \in Uint32 /\ LowestSlack(d, count) \in Int
  BY LowestSlackType, Uint32Int
<1>4. /\ Posdiff(completed, d.prevNumQueued) \in Uint32
      /\ Posdiff(d.limit, LowestSlack(d, count)) \in Uint32
  BY <1>2, <1>3, PosdiffType
<1>5. U32(d.limit + Posdiff(completed, d.prevNumQueued) + d.prevOvlimit) \in Uint32
  <2>1. PICK p \in Int : p = Posdiff(completed, d.prevNumQueued)
    BY <1>4, Uint32Int
  <2>2. d.limit + p + d.prevOvlimit \in Int
    BY <1>2
  <2>3. QED
    BY <2>1, <2>2, WrappedType
<1>6. \/ next = [limit |-> U32(d.limit + Posdiff(completed, d.prevNumQueued) + d.prevOvlimit),
                 lowest |-> TwoTo32 - 1]
      \/ next = [limit |-> Posdiff(d.limit, LowestSlack(d, count)), lowest |-> TwoTo32 - 1]
      \/ next = [limit |-> d.limit, lowest |-> LowestSlack(d, count)]
      \/ next = [limit |-> d.limit, lowest |-> d.lowestSlack]
  BY DEF NextLimit
<1>7. QED
  BY <1>2, <1>3, <1>4, <1>5, <1>6, Uint32Int

\* Bytes are completed: fewer of them are outstanding, and the limit is settled.
LEMMA CompletedOK ==
    ASSUME NEW d \in LimitsType, NEW count \in Uint32, NEW n \in Int,
           Outstanding(d) = U32(n), NEW u \in Completed(d, count), NEW m, m = n - count
    PROVE  /\ u \in LimitsType
           /\ Outstanding(u) = U32(m)
           /\ Settled(u)
<1>1. d = LimitsRecord(d) /\ LimitsFields(d) /\ count \in Int
  BY LimitsAreRecords, Uint32Int
<1>2. /\ d.numQueued \in Int /\ d.numCompleted \in Int /\ d.limit \in Int
  BY <1>1, Uint32Int DEF LimitsFields
<1> DEFINE completed == U32(d.numCompleted + count)
           ovlimit == Posdiff(Outstanding(d), d.limit)
<1>3. completed \in Uint32 /\ completed \in Int
  BY <1>1, <1>2, WrappedType
<1>4. ovlimit \in Uint32
  BY <1>2, WrappedType, PosdiffType
<1>5. PICK held \in BOOLEAN :
        LET next == NextLimit(d, completed, ovlimit, count, held)
        IN  u = CompletedWith(d, completed, ovlimit,
                              AtMost(AtLeast(next.limit, MinLimit), MaxLimit), next.lowest)
  BY DEF Completed
<1> DEFINE next == NextLimit(d, completed, ovlimit, count, held)
           limit == AtMost(AtLeast(next.limit, MinLimit), MaxLimit)
<1>6. next.limit \in Uint32 /\ next.lowest \in Uint32
  <2> HIDE DEF completed, ovlimit
  <2>1. QED
    BY <1>1, <1>3, <1>4, NextLimitType
<1>7. u = CompletedWith(d, completed, ovlimit, limit, next.lowest)
  BY <1>5
<1> HIDE DEF completed, ovlimit, next
<1>8. limit \in 0..MaxLimit /\ limit \in Uint32
  BY <1>6, Modulus DEF AtMost, AtLeast, Uint32
<1> HIDE DEF limit
<1>9. u = LimitsRecord(u)
  BY <1>1, <1>7 DEF CompletedWith, LimitsRecord
<1>10. /\ u.numQueued = d.numQueued /\ u.numCompleted = completed
       /\ u.adjLimit = U32(limit + completed)
  BY <1>1, <1>7 DEF CompletedWith, LimitsRecord
<1>11. U32(limit + completed) \in Uint32
  BY <1>3, <1>8, WrappedType
<1>12. LimitsFields(u)
  BY <1>1, <1>3, <1>4, <1>6, <1>7, <1>8, <1>11, Uint32Int
     DEF CompletedWith, LimitsRecord, LimitsFields
<1>13. Settled(u)
  BY <1>8, <1>10 DEF Settled
<1>14. Outstanding(u) = U32(m)
  <2>1. PICK x \in Int : x = d.numCompleted + count
    BY <1>1, <1>2
  <2>2. Outstanding(u) = U32(d.numQueued - U32(x))
    BY <1>10, <2>1 DEF Outstanding, completed
  <2>3. U32(d.numQueued - U32(x)) = U32(d.numQueued - x)
    BY <1>2, WrappedSum
  <2>4. PICK y \in Int : y = d.numQueued - d.numCompleted
    BY <1>2
  <2>5. PICK c \in Int : c = -count
    BY <1>1
  <2>6. d.numQueued - x = y + c /\ m = n + c
    BY <1>1, <1>2, <2>1, <2>4, <2>5
  <2>7. U32(y) = U32(n)
    BY <2>4 DEF Outstanding
  <2>8. U32(y + c) = U32(U32(y) + c) /\ U32(n + c) = U32(U32(n) + c)
    BY WrappedSum
  <2>9. QED
    BY <2>2, <2>3, <2>6, <2>7, <2>8
<1>15. QED
  BY <1>9, <1>12, <1>13, <1>14, LimitsAreRecords

\* With nothing outstanding a settled limit leaves room.
LEMMA SettledLeavesRoom ==
    ASSUME NEW d \in LimitsType, Settled(d), Outstanding(d) = U32(0)
    PROVE  ~(Available(d) < 0)
<1>1. LimitsFields(d)
  BY LimitsAreRecords
<1>2. /\ d.numQueued \in Uint32 /\ d.numQueued \in Int
      /\ d.numCompleted \in Uint32 /\ d.numCompleted \in Int
  BY <1>1, Uint32Int DEF LimitsFields
<1>3. PICK limit \in 0..MaxLimit : d.adjLimit = U32(limit + d.numCompleted)
  BY DEF Settled
<1>4. limit \in Int /\ limit \in Uint32 /\ limit < TwoTo32 \div 2
  BY Modulus DEF Uint32
<1>5. PICK y \in Int : y = d.numQueued - d.numCompleted
  BY <1>2
<1>6. U32(y) = 0
  BY <1>5, Uint32Int, WrappedSmall DEF Outstanding
<1>7. PICK x \in Int : x = limit + d.numCompleted
  BY <1>2, <1>4
<1>8. PICK c \in Int : c = -d.numQueued
  BY <1>2
<1>9. U32(U32(x) + c) = U32(x + c)
  BY WrappedSum
<1>10. x + c = limit - y
  BY <1>2, <1>4, <1>5, <1>7, <1>8
<1>11. U32(limit - U32(y)) = U32(limit - y)
  BY <1>4, WrappedSum
<1>12. U32(d.adjLimit - d.numQueued) = limit
  <2>1. U32(x) \in Int
    BY WrappedType
  <2>2. d.adjLimit - d.numQueued = U32(x) + c
    BY <1>2, <1>3, <1>7, <1>8, <2>1
  <2>3. limit - U32(y) = limit
    BY <1>4, <1>6
  <2>4. U32(limit) = limit
    BY <1>4, WrappedSmall
  <2>5. QED
    BY <1>9, <1>10, <1>11, <2>2, <2>3, <2>4
<1>13. QED
  BY <1>4, <1>12 DEF Available, S32

-----------------------------------------------------------------------------
(* A transmission queue *)

LEMMA DevSizes ==
    /\ Sized(DevItems)
    /\ \A p \in DevItems : p.size \in Uint32 /\ p.size > 0 /\ p.size \in Nat /\ p # NoItem
<1>1. ASSUME NEW p \in DevItems PROVE p.size \in Uint32 /\ p.size > 0 /\ p.size \in Nat
  <2>1. PICK s \in PacketSizes : p.size = s + HeaderSize
    BY DEF DevItems
  <2>2. s \in Nat /\ s > 0 /\ s <= Mtu /\ HeaderSize \in Nat /\ Mtu \in Nat
    BY FlowControlAssumption
  <2>3. Mtu + HeaderSize \in 0..(TwoTo32 - 1)
    BY FlowControlAssumption DEF Uint32
  <2>4. QED
    BY <2>1, <2>2, <2>3, Modulus DEF Uint32
<1>2. QED
  BY <1>1, NoItemAssumption DEF Sized

TxRecord(t) ==
    [queue |-> t.queue, current |-> t.current, stoppedByDevice |-> t.stoppedByDevice,
     stoppedByQueueLimits |-> t.stoppedByQueueLimits, dql |-> t.dql, wakes |-> t.wakes]

\* The types, the counters of the packet queue, and the bytes the limits count.
TxCounts(t) ==
    /\ t = TxRecord(t)
    /\ QueueOK(t.queue, DevItems)
    /\ t.current \in DevItems \cup {NoItem}
    /\ t.stoppedByDevice \in BOOLEAN /\ t.stoppedByQueueLimits \in BOOLEAN
    /\ t.dql \in LimitsType
    /\ UseQueueLimits => Outstanding(t.dql) = U32(t.queue.nBytes)
    /\ t.wakes \in Nat

\* The two reasons to be stopped are what they stand for.
StopsMean(t) ==
    /\ t.stoppedByDevice <=> ~HasRoom(t.queue)
    /\ t.stoppedByQueueLimits => UseQueueLimits /\ Available(t.dql) < 0

LEMMA NotifyQueuedOK ==
    ASSUME NEW t, t = TxRecord(t), t.stoppedByQueueLimits \in BOOLEAN, t.dql \in LimitsType,
           NEW n \in Nat, UseQueueLimits => Outstanding(t.dql) = U32(n),
           NEW bytes \in Uint32, NEW m, m = n + bytes, NEW u, u = NotifyQueuedBytes(t, bytes)
    PROVE  /\ u = TxRecord(u)
           /\ u.queue = t.queue /\ u.current = t.current /\ u.wakes = t.wakes
           /\ u.stoppedByDevice = t.stoppedByDevice /\ u.stoppedByQueueLimits \in BOOLEAN
           /\ u.dql \in LimitsType
           /\ UseQueueLimits => Outstanding(u.dql) = U32(m)
           /\ Settled(t.dql) => Settled(u.dql)
           /\ ~t.stoppedByQueueLimits /\ u.stoppedByQueueLimits =>
                 UseQueueLimits /\ Available(u.dql) < 0
<1>1. CASE ~UseQueueLimits
  BY <1>1 DEF NotifyQueuedBytes
<1>2. CASE UseQueueLimits
  <2> DEFINE d == Queued(t.dql, bytes)
  <2>1. /\ d \in LimitsType /\ Outstanding(d) = U32(m)
        /\ Settled(t.dql) => Settled(d)
    BY <1>2, QueuedOK
  <2> HIDE DEF d
  <2>2. u = [t EXCEPT !.dql = d, !.stoppedByQueueLimits = @ \/ Available(d) < 0]
    BY <1>2 DEF NotifyQueuedBytes, d
  <2>3. u = TxRecord(u)
    BY <2>2 DEF TxRecord
  <2>4. /\ u.queue = t.queue /\ u.current = t.current /\ u.wakes = t.wakes
        /\ u.stoppedByDevice = t.stoppedByDevice /\ u.dql = d
        /\ u.stoppedByQueueLimits = (t.stoppedByQueueLimits \/ Available(d) < 0)
    BY <2>2 DEF TxRecord
  <2>5. QED
    BY <1>2, <2>1, <2>3, <2>4
<1>3. QED
  BY <1>1, <1>2, FlowControlAssumption

\* A packet enters the device's queue.
LEMMA EnqueuePacketOK ==
    ASSUME NEW t, TxCounts(t), NEW p \in DevItems, NEW u, u = EnqueuePacket(t, p)
    PROVE  /\ TxCounts(u)
           /\ u.queue = Put(t.queue, p) /\ u.current = t.current /\ u.wakes = t.wakes
           /\ Settled(t.dql) => Settled(u.dql)
           /\ StopsMean(t) /\ ~IsStopped(t) => StopsMean(u)
<1> DEFINE q == Put(t.queue, p)
           s == [t EXCEPT !.queue = q]
           v == NotifyQueuedBytes(s, p.size)
<1>1. p.size \in Uint32 /\ p.size \in Nat /\ Sized(DevItems)
  BY DevSizes
<1>2. QueueOK(q, DevItems) /\ q.nBytes = t.queue.nBytes + p.size /\ t.queue.nBytes \in Nat
  BY <1>1, PutOK, QueueFacts DEF TxCounts
<1> HIDE DEF q
<1>3. /\ s = TxRecord(s) /\ s.queue = q /\ s.current = t.current /\ s.wakes = t.wakes
      /\ s.stoppedByDevice = t.stoppedByDevice
      /\ s.stoppedByQueueLimits = t.stoppedByQueueLimits /\ s.dql = t.dql
  BY DEF TxCounts, TxRecord
<1> HIDE DEF s
<1>4. /\ v = TxRecord(v)
      /\ v.queue = q /\ v.current = t.current /\ v.wakes = t.wakes
      /\ v.stoppedByDevice = t.stoppedByDevice /\ v.stoppedByQueueLimits \in BOOLEAN
      /\ v.dql \in LimitsType
      /\ UseQueueLimits => Outstanding(v.dql) = U32(q.nBytes)
      /\ Settled(t.dql) => Settled(v.dql)
      /\ ~t.stoppedByQueueLimits /\ v.stoppedByQueueLimits =>
            UseQueueLimits /\ Available(v.dql) < 0
  BY <1>1, <1>2, <1>3, NotifyQueuedOK DEF TxCounts
<1>5. u = IF HasRoom(v.queue) THEN v ELSE Stop(v)
  BY DEF EnqueuePacket, s, q
<1> HIDE DEF v
<1>6. CASE HasRoom(q)
  <2>1. u = v
    BY <1>4, <1>5, <1>6
  <2>2. TxCounts(u)
    BY <1>2, <1>4, <2>1 DEF TxCounts
  <2>3. StopsMean(t) /\ ~IsStopped(t) => StopsMean(u)
    BY <1>4, <1>6, <2>1 DEF StopsMean, IsStopped
  <2>4. QED
    BY <1>4, <2>1, <2>2, <2>3 DEF q
<1>7. CASE ~HasRoom(q)
  <2>1. u = [v EXCEPT !.stoppedByDevice = TRUE]
    BY <1>4, <1>5, <1>7 DEF Stop
  <2>2. /\ u = TxRecord(u) /\ u.queue = q /\ u.current = t.current /\ u.wakes = t.wakes
        /\ u.stoppedByDevice = TRUE /\ u.stoppedByQueueLimits = v.stoppedByQueueLimits
        /\ u.dql = v.dql
    BY <1>4, <2>1 DEF TxRecord
  <2>3. TxCounts(u)
    BY <1>2, <1>4, <2>2 DEF TxCounts
  <2>4. StopsMean(t) /\ ~IsStopped(t) => StopsMean(u)
    BY <1>4, <1>7, <2>2 DEF StopsMean, IsStopped
  <2>5. QED
    BY <1>4, <2>2, <2>3, <2>4 DEF q
<1>8. QED
  BY <1>6, <1>7

LEMMA NotifyTransmittedOK ==
    ASSUME NEW t, t = TxRecord(t), t.stoppedByQueueLimits \in BOOLEAN, t.dql \in LimitsType,
           t.wakes \in Nat,
           NEW n \in Nat, UseQueueLimits => Outstanding(t.dql) = U32(n),
           NEW bytes \in Uint32, bytes # 0, NEW m, m = n - bytes,
           NEW u \in NotifyTransmittedBytes(t, bytes)
    PROVE  /\ u = TxRecord(u)
           /\ u.queue = t.queue /\ u.current = t.current
           /\ u.wakes \in {t.wakes, t.wakes + 1}
           /\ u.stoppedByDevice = t.stoppedByDevice /\ u.stoppedByQueueLimits \in BOOLEAN
           /\ u.dql \in LimitsType
           /\ UseQueueLimits => Outstanding(u.dql) = U32(m)
           /\ UseQueueLimits => Settled(u.dql)
           /\ u.stoppedByQueueLimits => t.stoppedByQueueLimits
           /\ t.stoppedByQueueLimits /\ ~u.stoppedByQueueLimits => u.wakes = t.wakes + 1
           /\ u.stoppedByQueueLimits /\ UseQueueLimits => Available(u.dql) < 0
<1>1. CASE ~UseQueueLimits
  <2>1. u = t
    BY <1>1 DEF NotifyTransmittedBytes
  <2>2. QED
    BY <1>1, <2>1
<1>2. CASE UseQueueLimits
  <2>1. PICK d \in Completed(t.dql, bytes) :
          u = IF Available(d) < 0 THEN [t EXCEPT !.dql = d]
              ELSE [t EXCEPT !.dql = d, !.stoppedByQueueLimits = FALSE,
                             !.wakes = @ + (IF t.stoppedByQueueLimits THEN 1 ELSE 0)]
    BY <1>2 DEF NotifyTransmittedBytes
  <2>2. d \in LimitsType /\ Outstanding(d) = U32(m) /\ Settled(d)
    BY <1>2, CompletedOK
  <2>3. CASE Available(d) < 0
    <3>1. u = [t EXCEPT !.dql = d]
      BY <2>1, <2>3
    <3>2. /\ u = TxRecord(u) /\ u.queue = t.queue /\ u.current = t.current
          /\ u.stoppedByDevice = t.stoppedByDevice
          /\ u.stoppedByQueueLimits = t.stoppedByQueueLimits
          /\ u.dql = d /\ u.wakes = t.wakes
      BY <3>1 DEF TxRecord
    <3>3. QED
      BY <1>2, <2>2, <2>3, <3>2
  <2>4. CASE ~(Available(d) < 0)
    <3>1. u = [t EXCEPT !.dql = d, !.stoppedByQueueLimits = FALSE,
                        !.wakes = @ + (IF t.stoppedByQueueLimits THEN 1 ELSE 0)]
      BY <2>1, <2>4
    <3>2. /\ u = TxRecord(u) /\ u.queue = t.queue /\ u.current = t.current
          /\ u.stoppedByDevice = t.stoppedByDevice
          /\ u.stoppedByQueueLimits = FALSE
          /\ u.dql = d /\ u.wakes = t.wakes + (IF t.stoppedByQueueLimits THEN 1 ELSE 0)
      BY <3>1 DEF TxRecord
    <3>3. u.wakes \in {t.wakes, t.wakes + 1}
      BY <3>2
    <3>4. QED
      BY <1>2, <2>2, <2>4, <3>2, <3>3
  <2>5. QED
    BY <2>3, <2>4
<1>3. QED
  BY <1>1, <1>2, FlowControlAssumption

LEMMA RoomGrows ==
    ASSUME NEW q, QueueOK(q, DevItems), q.nPackets # 0, HasRoom(q)
    PROVE  HasRoom(Take(q))
<1> DEFINE u == Take(q)
<1>1. Sized(DevItems)
  BY DevSizes
<1>2. /\ u.nPackets = q.nPackets - 1 /\ u.nBytes = q.nBytes - Head(q.items).size
      /\ Head(q.items).size \in Nat
  BY <1>1, TakeOK
<1>3. q.nPackets \in Nat /\ q.nBytes \in Nat
  BY QueueFacts
<1> HIDE DEF u
<1>4. HasRoom(u)
  BY <1>2, <1>3, FlowControlAssumption DEF HasRoom
<1>5. QED
  BY <1>4 DEF u

\* A packet leaves the device's queue for the wire.
LEMMA DequeueOK ==
    ASSUME NEW t, TxCounts(t), t.queue.nPackets # 0, NEW u \in DequeueAndTransmit(t)
    PROVE  /\ TxCounts(u)
           /\ u.queue = Take(t.queue) /\ u.current = Head(t.queue.items)
           /\ u.current \in DevItems /\ u.current # NoItem
           /\ u.wakes \in t.wakes..(t.wakes + 2)
           /\ IsStopped(t) /\ ~IsStopped(u) => u.wakes # 0
           /\ StopsMean(t) => StopsMean(u)
           /\ UseQueueLimits => Settled(u.dql)
<1> DEFINE q == Take(t.queue)
           p == Head(t.queue.items)
           s == [t EXCEPT !.queue = q]
<1>1. PICK v \in NotifyTransmittedBytes(s, p.size) :
        u = [(IF HasRoom(v.queue) THEN Wake(v) ELSE v) EXCEPT !.current = p]
  BY DEF DequeueAndTransmit
<1>2. /\ QueueOK(q, DevItems) /\ q.nBytes = t.queue.nBytes - p.size /\ p \in DevItems
  BY DevSizes, TakeOK DEF TxCounts
<1>3. /\ p.size \in Uint32 /\ p.size # 0 /\ p.size \in Nat /\ p # NoItem
      /\ t.queue.nBytes \in Nat /\ t.wakes \in Nat
  BY <1>2, DevSizes, QueueFacts DEF TxCounts
<1>4. HasRoom(t.queue) => HasRoom(q)
  BY RoomGrows DEF TxCounts
<1>5. /\ s = TxRecord(s) /\ s.queue = q /\ s.current = t.current /\ s.wakes = t.wakes
      /\ s.stoppedByDevice = t.stoppedByDevice
      /\ s.stoppedByQueueLimits = t.stoppedByQueueLimits /\ s.dql = t.dql
  BY DEF TxCounts, TxRecord
<1> HIDE DEF q, p, s
<1>6. /\ v = TxRecord(v)
      /\ v.queue = q /\ v.current = t.current
      /\ v.wakes \in {t.wakes, t.wakes + 1}
      /\ v.stoppedByDevice = t.stoppedByDevice /\ v.stoppedByQueueLimits \in BOOLEAN
      /\ v.dql \in LimitsType
      /\ UseQueueLimits => Outstanding(v.dql) = U32(q.nBytes)
      /\ UseQueueLimits => Settled(v.dql)
      /\ v.stoppedByQueueLimits => t.stoppedByQueueLimits
      /\ t.stoppedByQueueLimits /\ ~v.stoppedByQueueLimits => v.wakes = t.wakes + 1
      /\ v.stoppedByQueueLimits /\ UseQueueLimits => Available(v.dql) < 0
  BY <1>2, <1>3, <1>5, NotifyTransmittedOK DEF TxCounts
<1>7. t.stoppedByDevice \in BOOLEAN /\ t.stoppedByQueueLimits \in BOOLEAN
  BY DEF TxCounts
<1>8. CASE HasRoom(q)
  <2>1. u = [Wake(v) EXCEPT !.current = p]
    BY <1>1, <1>6, <1>8
  <2>2. /\ u = TxRecord(u) /\ u.queue = q /\ u.current = p
        /\ u.stoppedByDevice = FALSE
        /\ u.stoppedByQueueLimits = v.stoppedByQueueLimits /\ u.dql = v.dql
        /\ u.wakes = v.wakes + (IF v.stoppedByDevice THEN 1 ELSE 0)
    BY <1>6, <2>1 DEF TxRecord, Wake
  <2>3. u.wakes \in t.wakes..(t.wakes + 2) /\ u.wakes \in Nat
    BY <1>3, <1>6, <2>2
  <2>4. IsStopped(t) /\ ~IsStopped(u) => u.wakes # 0
    BY <1>3, <1>6, <1>7, <2>2 DEF IsStopped
  <2>5. TxCounts(u)
    BY <1>2, <1>6, <2>2, <2>3 DEF TxCounts
  <2>6. StopsMean(t) => StopsMean(u)
    BY <1>6, <1>8, <2>2 DEF StopsMean
  <2>7. QED
    BY <1>2, <1>3, <1>6, <2>2, <2>3, <2>4, <2>5, <2>6 DEF q, p
<1>9. CASE ~HasRoom(q)
  <2>1. u = [v EXCEPT !.current = p]
    BY <1>1, <1>6, <1>9
  <2>2. /\ u = TxRecord(u) /\ u.queue = q /\ u.current = p
        /\ u.stoppedByDevice = t.stoppedByDevice
        /\ u.stoppedByQueueLimits = v.stoppedByQueueLimits /\ u.dql = v.dql
        /\ u.wakes = v.wakes
    BY <1>6, <2>1 DEF TxRecord
  <2>3. u.wakes \in t.wakes..(t.wakes + 2) /\ u.wakes \in Nat
    BY <1>3, <1>6, <2>2
  <2>4. IsStopped(t) /\ ~IsStopped(u) => u.wakes # 0
    BY <1>3, <1>6, <1>7, <2>2 DEF IsStopped
  <2>5. TxCounts(u)
    BY <1>2, <1>6, <1>7, <2>2, <2>3 DEF TxCounts
  <2>6. StopsMean(t) => StopsMean(u)
    BY <1>4, <1>6, <1>9, <2>2 DEF StopsMean
  <2>7. QED
    BY <1>2, <1>3, <1>6, <2>2, <2>3, <2>4, <2>5, <2>6 DEF q, p
<1>10. QED
  BY <1>8, <1>9

-----------------------------------------------------------------------------
(* Sequences *)

LEMMA SlotFacts ==
    /\ SlotOf(NoItem) = <<>>
    /\ \A x : x # NoItem => SlotOf(x) = <<x>>
  BY DEF SlotOf

\* A line grows at its end, serves its first, and passes it to the empty place.
LEMMA LineAppend ==
    ASSUME NEW S, NEW x \in S \cup {NoItem}, NEW s \in Seq(S), NEW e \in S
    PROVE  Line(x, Append(s, e)) = Append(Line(x, s), e) /\ Line(x, s) \in Seq(S)
<1>1. SlotOf(x) \in Seq(S)
  BY DEF SlotOf
<1>2. SlotOf(x) \o Append(s, e) = Append(SlotOf(x) \o s, e)
  BY <1>1, AppendProperties, ConcatProperties
<1>3. QED
  BY <1>1, <1>2, ConcatProperties DEF Line

LEMMA LineServed ==
    ASSUME NEW S, NoItem \notin S, NEW x \in S, NEW s \in Seq(S)
    PROVE  /\ Line(x, s) # <<>> /\ Head(Line(x, s)) = x /\ Tail(Line(x, s)) = Line(NoItem, s)
           /\ Line(NoItem, s) = s /\ Line(x, s) \in Seq(S)
           /\ Len(Line(x, s)) = Len(s) + 1
<1>1. Line(x, s) = <<x>> \o s /\ Line(NoItem, s) = <<>> \o s
  BY SlotFacts DEF Line
<1>2. <<>> \o s = s
  OBVIOUS
<1>3. <<x>> \o s \in Seq(S) /\ Len(<<x>> \o s) = Len(s) + 1 /\ (<<x>> \o s)[1] = x
  OBVIOUS
<1>4. <<x>> \o s # <<>>
  BY <1>3, EmptySeq, LenProperties
<1>5. Head(<<x>> \o s) = x /\ Tail(<<x>> \o s) = s
  BY <1>3, <1>4
<1>6. QED
  BY <1>1, <1>2, <1>3, <1>4, <1>5

LEMMA LineMoves ==
    ASSUME NEW S, NoItem \notin S, NEW s \in Seq(S), s # <<>>
    PROVE  Line(Head(s), Tail(s)) = Line(NoItem, s)
<1>1. Head(s) \in S /\ Tail(s) \in Seq(S) /\ Head(s) # NoItem
  BY HeadTailProperties
<1>2. <<Head(s)>> \o Tail(s) = s /\ <<>> \o s = s
  OBVIOUS
<1>3. QED
  BY <1>1, <1>2, SlotFacts DEF Line

\* The identifiers of a sequence that grows or loses its first.
LEMMA IdsOK ==
    ASSUME NEW S, \A e \in S : e.id \in Nat, NEW s \in Seq(S)
    PROVE  /\ Ids(s) \in Seq(Nat) /\ Len(Ids(s)) = Len(s)
           /\ \A i \in 1..Len(s) : Ids(s)[i] = s[i].id
           /\ \A e \in S : Ids(Append(s, e)) = Append(Ids(s), e.id)
           /\ s # <<>> => Ids(s) # <<>> /\ Head(Ids(s)) = Head(s).id /\ Ids(Tail(s)) = Tail(Ids(s))
<1>1. ASSUME NEW r \in Seq(S)
      PROVE  /\ Ids(r) \in Seq(Nat) /\ Len(Ids(r)) = Len(r)
             /\ \A i \in 1..Len(r) : Ids(r)[i] = r[i].id
  BY DEF Ids
<1>2. ASSUME NEW e \in S PROVE Ids(Append(s, e)) = Append(Ids(s), e.id)
  <2> DEFINE r == Append(s, e)
  <2>1. /\ r \in Seq(S) /\ Len(r) = Len(s) + 1
        /\ \A i \in 1..Len(s) : r[i] = s[i]
        /\ r[Len(s) + 1] = e
    BY AppendProperties
  <2> HIDE DEF r
  <2> DEFINE a == Ids(r)
             b == Append(Ids(s), e.id)
  <2>2. a \in Seq(Nat) /\ Len(a) = Len(s) + 1 /\ Len(s) \in Nat
    BY <1>1, <2>1
  <2>3. b \in Seq(Nat) /\ Len(b) = Len(s) + 1
    BY <1>1
  <2>4. \A i \in 1..Len(s) : a[i] = s[i].id
    <3>1. \A i \in 1..Len(r) : a[i] = r[i].id
      BY <1>1, <2>1
    <3>2. QED
      BY <2>1, <2>2, <3>1
  <2>5. a[Len(s) + 1] = e.id
    BY <1>1, <2>1, <2>2
  <2>6. /\ \A i \in 1..Len(s) : b[i] = Ids(s)[i]
        /\ b[Len(s) + 1] = e.id
    BY <1>1
  <2>7. \A i \in 1..Len(s) : b[i] = s[i].id
    BY <1>1, <2>6
  <2> HIDE DEF a, b
  <2>8. \A i \in 1..Len(a) : a[i] = b[i]
    BY <2>2, <2>4, <2>5, <2>6, <2>7
  <2>9. a = b
    BY <2>2, <2>3, <2>8, SeqEqual
  <2>10. QED
    BY <2>9 DEF a, b, r
<1>3. ASSUME s # <<>>
      PROVE  Ids(s) # <<>> /\ Head(Ids(s)) = Head(s).id /\ Ids(Tail(s)) = Tail(Ids(s))
  <2>1. /\ Len(s) \in Nat \ {0} /\ Head(s) = s[1] /\ Tail(s) \in Seq(S)
        /\ Len(Tail(s)) = Len(s) - 1
        /\ \A i \in 1..Len(Tail(s)) : Tail(s)[i] = s[i + 1]
    BY <1>3, HeadTailProperties, EmptySeq, LenProperties
  <2>2. Ids(s) # <<>> /\ Ids(s) \in Seq(Nat) /\ Len(Ids(s)) = Len(s)
    BY <1>1, <2>1, EmptySeq
  <2>3. /\ Head(Ids(s)) = Ids(s)[1] /\ Tail(Ids(s)) \in Seq(Nat)
        /\ Len(Tail(Ids(s))) = Len(s) - 1
        /\ \A i \in 1..Len(Tail(Ids(s))) : Tail(Ids(s))[i] = Ids(s)[i + 1]
    BY <2>2, HeadTailProperties
  <2> DEFINE a == Ids(Tail(s))
             b == Tail(Ids(s))
  <2>4. a \in Seq(Nat) /\ Len(a) = Len(s) - 1 /\ \A i \in 1..Len(a) : a[i] = Tail(s)[i].id
    BY <1>1, <2>1
  <2>5. \A i \in 1..Len(s) : Ids(s)[i] = s[i].id
    BY <1>1
  <2> HIDE DEF a
  <2>6. \A i \in 1..Len(a) : a[i] = b[i]
    BY <2>1, <2>3, <2>4, <2>5
  <2>7. a = b
    BY <2>3, <2>4, <2>6, SeqEqual
  <2>8. QED
    BY <2>1, <2>2, <2>3, <2>5, <2>7 DEF a
<1>4. QED
  BY <1>1, <1>2, <1>3

\* What passes from the front of the second sequence to the end of the first.
LEMMA PassedOn ==
    ASSUME NEW d \in Seq(Nat), NEW s \in Seq(Nat)
    PROVE  /\ s # <<>> => Append(d, Head(s)) \o Tail(s) = d \o s
           /\ \A e \in Nat : d \o Append(s, e) = Append(d \o s, e)
<1>1. ASSUME s # <<>> PROVE Append(d, Head(s)) \o Tail(s) = d \o s
  <2>1. Head(s) \in Nat /\ Tail(s) \in Seq(Nat) /\ s = <<Head(s)>> \o Tail(s)
    BY <1>1
  <2>2. Append(d, Head(s)) = d \o <<Head(s)>> /\ <<Head(s)>> \in Seq(Nat)
    BY <2>1
  <2>3. (d \o <<Head(s)>>) \o Tail(s) = d \o (<<Head(s)>> \o Tail(s))
    BY <2>1, <2>2
  <2>4. QED
    BY <2>1, <2>2, <2>3
<1>2. ASSUME NEW e \in Nat PROVE d \o Append(s, e) = Append(d \o s, e)
  BY AppendProperties, ConcatProperties
<1>3. QED
  BY <1>1, <1>2

\* w is what is left of a from some element on.
IsRest(w, a) ==
    /\ Len(w) <= Len(a)
    /\ w = SubSeq(a, Len(a) - Len(w) + 1, Len(a))

LEMMA RestGrows ==
    ASSUME NEW w \in Seq(DiscItems), NEW a \in Seq(DiscItems), IsRest(w, a), NEW e \in DiscItems
    PROVE  /\ IsRest(Append(w, e), Append(a, e))
           /\ Len(Append(a, e)) - Len(Append(w, e)) = Len(a) - Len(w)
<1> DEFINE v == Append(w, e)
           b == Append(a, e)
<1>1. /\ v \in Seq(DiscItems) /\ Len(v) = Len(w) + 1 /\ \A i \in 1..Len(w) : v[i] = w[i]
      /\ v[Len(w) + 1] = e
      /\ b \in Seq(DiscItems) /\ Len(b) = Len(a) + 1 /\ \A i \in 1..Len(a) : b[i] = a[i]
      /\ b[Len(a) + 1] = e
      /\ Len(w) \in Nat /\ Len(a) \in Nat /\ Len(w) <= Len(a)
  BY AppendProperties, LenProperties DEF IsRest
<1> HIDE DEF v, b
<1>2. PICK k \in Nat : k = Len(a) - Len(w)
  <2>1. Len(w) \in Nat /\ Len(a) \in Nat /\ Len(w) <= Len(a)
    BY LenProperties DEF IsRest
  <2>2. Len(a) - Len(w) \in Nat
    BY <2>1
  <2>3. QED
    BY <2>2
<1>0. ASSUME NEW r \in Seq(DiscItems), NEW l \in Nat, l = Len(r) - k, NEW d, d = SubSeq(r, k + 1, Len(r))
      PROVE  d \in Seq(DiscItems) /\ Len(d) = l /\ \A i \in 1..l : d[i] = r[k + i]
  <2>1. k + 1 \in 1..(Len(r) + 1) /\ Len(r) \in 0..Len(r) /\ Len(r) \in Nat
    BY <1>0, LenProperties
  <2>2. /\ d \in Seq(DiscItems)
        /\ Len(d) = IF k + 1 <= Len(r) THEN Len(r) - (k + 1) + 1 ELSE 0
        /\ \A i \in 1..(Len(r) - (k + 1) + 1) : d[i] = r[(k + 1) + i - 1]
    BY <1>0, <2>1, SubSeqProperties
  <2>3. Len(r) - (k + 1) + 1 = l /\ \A i \in 1..l : (k + 1) + i - 1 = k + i
    BY <1>0, <2>1
  <2>4. Len(d) = l
    BY <1>0, <2>1, <2>2
  <2>5. QED
    BY <2>2, <2>3, <2>4
<1>3. \A i \in 1..Len(w) : w[i] = a[k + i]
  <2>1. w = SubSeq(a, k + 1, Len(a))
    BY <1>2 DEF IsRest
  <2>2. Len(w) \in Nat /\ Len(w) = Len(a) - k
    BY <1>1, <1>2
  <2>3. QED
    BY <1>0, <2>1, <2>2
<1> DEFINE c == SubSeq(b, k + 1, Len(b))
<1>4. /\ c \in Seq(DiscItems) /\ Len(c) = Len(v)
      /\ \A i \in 1..Len(v) : c[i] = b[k + i]
  <2>1. PICK l \in Nat : l = Len(v) /\ l = Len(b) - k
    BY <1>1, <1>2
  <2>2. b \in Seq(DiscItems) /\ c = SubSeq(b, k + 1, Len(b))
    BY <1>1
  <2> HIDE DEF c
  <2>3. c \in Seq(DiscItems) /\ Len(c) = l /\ \A i \in 1..l : c[i] = b[k + i]
    BY <1>0, <2>1, <2>2
  <2>4. QED
    BY <2>1, <2>3
<1> HIDE DEF c
<1>5. ASSUME NEW i \in 1..Len(v) PROVE v[i] = c[i]
  <2>1. c[i] = b[k + i]
    BY <1>4
  <2>2. CASE i \in 1..Len(w)
    <3>1. k + i \in 1..Len(a)
      BY <1>1, <1>2, <2>2
    <3>2. QED
      BY <1>1, <1>3, <2>1, <2>2, <3>1
  <2>3. CASE i = Len(w) + 1
    <3>1. k + i = Len(a) + 1
      BY <1>1, <1>2, <2>3
    <3>2. QED
      BY <1>1, <2>1, <2>3, <3>1
  <2>4. QED
    BY <1>1, <2>2, <2>3
<1>6. v = c
  BY <1>1, <1>4, <1>5, SeqEqual
<1>7. k + 1 = Len(b) - Len(v) + 1 /\ Len(v) <= Len(b) /\ Len(b) - Len(v) = Len(a) - Len(w)
  BY <1>1, <1>2
<1>8. QED
  BY <1>6, <1>7 DEF IsRest, c, v, b

LEMMA RestShrinks ==
    ASSUME NEW w \in Seq(DiscItems), NEW a \in Seq(DiscItems), IsRest(w, a), w # <<>>,
           NEW v, v = Tail(w), NEW n, n = Len(a) - Len(w)
    PROVE  /\ IsRest(v, a) /\ Len(a) - Len(v) = n + 1
           /\ n \in Nat /\ n + 1 <= Len(a) /\ Head(w) = a[n + 1]
<1>1. /\ v \in Seq(DiscItems) /\ Len(v) = Len(w) - 1 /\ Len(w) \in Nat \ {0} /\ Len(a) \in Nat
      /\ Len(w) <= Len(a)
  BY HeadTailProperties, LenProperties, EmptySeq DEF IsRest
<1>2. n \in Nat /\ n + 1 <= Len(a)
  BY <1>1
<1>3. Head(SubSeq(a, n + 1, Len(a))) = a[n + 1]
      /\ Tail(SubSeq(a, n + 1, Len(a))) = SubSeq(a, (n + 1) + 1, Len(a))
  BY <1>1, <1>2, HeadTailOfSubSeq
<1>4. w = SubSeq(a, n + 1, Len(a))
  BY DEF IsRest
<1>5. Len(a) - Len(v) + 1 = (n + 1) + 1 /\ Len(v) <= Len(a) /\ Len(a) - Len(v) = n + 1
  BY <1>1
<1>6. QED
  BY <1>2, <1>3, <1>4, <1>5 DEF IsRest

\* Packets are accepted in the order of their numbers.
Numbered(a) == \A i, j \in 1..Len(a) : i < j => a[i].id < a[j].id

\* The next packet of a joins the order of its queue and no other.
LEMMA OrderGrows ==
    ASSUME NEW s \in Seq(Nat), NEW a \in Seq(DiscItems), Numbered(a),
           NEW n \in Nat, n + 1 <= Len(a), NEW q, IsOrder(s, a, n, q)
    PROVE  /\ a[n + 1].txq # q => IsOrder(s, a, n + 1, q)
           /\ a[n + 1].txq = q => IsOrder(Append(s, a[n + 1].id), a, n + 1, q)
<1>1. \A k \in 1..(n + 1) : k \in 1..n \/ k = n + 1
  OBVIOUS
<1>2. 1..n \subseteq 1..(n + 1) /\ n + 1 \in 1..(n + 1)
  OBVIOUS
<1>3. ASSUME a[n + 1].txq # q PROVE IsOrder(s, a, n + 1, q)
  BY <1>1, <1>2, <1>3 DEF IsOrder
<1>4. ASSUME a[n + 1].txq = q PROVE IsOrder(Append(s, a[n + 1].id), a, n + 1, q)
  <2> DEFINE e == a[n + 1].id
             t == Append(s, e)
  <2>0. Len(a) \in Nat /\ n + 1 \in 1..Len(a) /\ 1..n \subseteq 1..Len(a) /\ Len(s) \in Nat
    BY LenProperties
  <2>1. a[n + 1] \in DiscItems
    BY <2>0, ElementOfSeq
  <2>2. e \in Nat
    BY <2>1 DEF DiscItems
  <2>3. /\ Len(t) = Len(s) + 1 /\ \A i \in 1..Len(s) : t[i] = s[i]
        /\ t[Len(s) + 1] = e
    BY <2>2, AppendProperties
  <2>4. \A k \in 1..n : a[k].id < e
    BY <2>0 DEF Numbered
  <2> HIDE DEF t, e
  <2>5. \A i \in 1..Len(s) : s[i] < e
    BY <2>4 DEF IsOrder
  <2>6. \A i, j \in 1..Len(t) : i < j => t[i] < t[j]
    <3>1. ASSUME NEW i \in 1..Len(t), NEW j \in 1..Len(t), i < j PROVE t[i] < t[j]
      <4>1. i \in 1..Len(s)
        BY <2>0, <2>3, <3>1
      <4>2. CASE j \in 1..Len(s)
        BY <2>3, <3>1, <4>1, <4>2 DEF IsOrder
      <4>3. CASE j = Len(s) + 1
        BY <2>3, <2>5, <4>1, <4>3
      <4>4. QED
        BY <2>0, <2>3, <4>2, <4>3
    <3>2. QED
      BY <3>1
  <2>7. \A i \in 1..Len(t) : \E k \in 1..(n + 1) : a[k].txq = q /\ a[k].id = t[i]
    <3>1. ASSUME NEW i \in 1..Len(t) PROVE \E k \in 1..(n + 1) : a[k].txq = q /\ a[k].id = t[i]
      <4>1. CASE i \in 1..Len(s)
        <5>1. PICK k \in 1..n : a[k].txq = q /\ a[k].id = s[i]
          BY <4>1 DEF IsOrder
        <5>2. QED
          BY <1>2, <2>3, <4>1, <5>1
      <4>2. CASE i = Len(s) + 1
        BY <1>2, <1>4, <2>3, <4>2 DEF e
      <4>3. QED
        BY <2>0, <2>3, <4>1, <4>2
    <3>2. QED
      BY <3>1
  <2>8. \A k \in 1..(n + 1) : a[k].txq = q => \E i \in 1..Len(t) : t[i] = a[k].id
    <3>1. ASSUME NEW k \in 1..(n + 1), a[k].txq = q PROVE \E i \in 1..Len(t) : t[i] = a[k].id
      <4>1. CASE k \in 1..n
        <5>1. PICK i \in 1..Len(s) : s[i] = a[k].id
          BY <3>1, <4>1 DEF IsOrder
        <5>2. i \in 1..Len(t)
          BY <2>0, <2>3
        <5>3. QED
          BY <2>3, <5>1, <5>2
      <4>2. CASE k = n + 1
        <5>1. Len(s) + 1 \in 1..Len(t)
          BY <2>0, <2>3
        <5>2. QED
          BY <2>3, <4>2, <5>1 DEF e
      <4>3. QED
        BY <1>1, <4>1, <4>2
    <3>2. QED
      BY <3>1
  <2>9. QED
    BY <2>6, <2>7, <2>8 DEF IsOrder, t, e
<1>5. QED
  BY <1>3, <1>4

\* A later packet joins the accepted ones, and no order yet.
LEMMA OrderKept ==
    ASSUME NEW a \in Seq(DiscItems), NEW e \in DiscItems, NEW n \in Nat, n <= Len(a),
           NEW s, NEW q, IsOrder(s, a, n, q)
    PROVE  IsOrder(s, Append(a, e), n, q)
<1> DEFINE b == Append(a, e)
<1>1. \A i \in 1..Len(a) : b[i] = a[i]
  BY AppendProperties
<1>2. 1..n \subseteq 1..Len(a)
  BY LenProperties
<1> HIDE DEF b
<1>3. \A k \in 1..n : b[k] = a[k]
  BY <1>1, <1>2
<1>4. /\ \A i, j \in 1..Len(s) : i < j => s[i] < s[j]
      /\ \A i \in 1..Len(s) : \E k \in 1..n : a[k].txq = q /\ a[k].id = s[i]
      /\ \A k \in 1..n : a[k].txq = q => \E i \in 1..Len(s) : s[i] = a[k].id
  BY DEF IsOrder
<1>5. \A i \in 1..Len(s) : \E k \in 1..n : b[k].txq = q /\ b[k].id = s[i]
  BY <1>3, <1>4
<1>6. \A k \in 1..n : b[k].txq = q => \E i \in 1..Len(s) : s[i] = b[k].id
  BY <1>3, <1>4
<1>7. IsOrder(s, b, n, q)
  BY <1>4, <1>5, <1>6 DEF IsOrder
<1>8. QED
  BY <1>7 DEF b

LEMMA NumberedGrows ==
    ASSUME NEW a \in Seq(DiscItems), Numbered(a), NEW e \in DiscItems,
           \A i \in 1..Len(a) : a[i].id < e.id
    PROVE  Numbered(Append(a, e))
<1> DEFINE b == Append(a, e)
<1>1. /\ Len(b) = Len(a) + 1 /\ Len(a) \in Nat /\ \A i \in 1..Len(a) : b[i] = a[i]
      /\ b[Len(a) + 1] = e
  BY AppendProperties, LenProperties
<1> HIDE DEF b
<1>2. ASSUME NEW i \in 1..Len(b), NEW j \in 1..Len(b), i < j PROVE b[i].id < b[j].id
  <2>1. i \in 1..Len(a)
    BY <1>1, <1>2
  <2>2. CASE j \in 1..Len(a)
    BY <1>1, <1>2, <2>1, <2>2 DEF Numbered
  <2>3. CASE j = Len(a) + 1
    BY <1>1, <2>1, <2>3
  <2>4. QED
    BY <1>1, <2>2, <2>3
<1>3. QED
  BY <1>2 DEF Numbered, b

-----------------------------------------------------------------------------
(* What the device does with a packet *)

\* A wake event is pending only while a packet is on the wire.
TxOK(t) == TxCounts(t) /\ t.wakes <= 2 /\ (t.wakes # 0 => t.current # NoItem)

\* A transmission queue is stopped for a reason that the transmission under
\* way will take away.
StopsOK(t) ==
    /\ StopsMean(t)
    /\ t.current = NoItem => t.queue.nPackets = 0 /\ ~IsStopped(t)
    /\ t.current # NoItem /\ UseQueueLimits => Settled(t.dql)

DevLine(t) == Line(t.current, t.queue.items)

\* The packets that NetDevice::Send leaves in the device.
SendTo(t, p) ==
    IF t.current = NoItem THEN DequeueAndTransmit(EnqueuePacket(t, p))
                          ELSE {EnqueuePacket(t, p)}

LEMMA SendOK ==
    ASSUME NEW t, TxOK(t), NEW p \in DevItems, NEW u \in SendTo(t, p)
    PROVE  /\ TxOK(u) /\ DevLine(u) = Append(DevLine(t), p)
           /\ StopsOK(t) /\ ~IsStopped(t) => StopsOK(u)
<1> DEFINE v == EnqueuePacket(t, p)
<1>1. /\ TxCounts(v)
      /\ v.queue = Put(t.queue, p) /\ v.current = t.current /\ v.wakes = t.wakes
      /\ Settled(t.dql) => Settled(v.dql)
      /\ StopsMean(t) /\ ~IsStopped(t) => StopsMean(v)
  BY EnqueuePacketOK DEF TxOK
<1>2. u \in IF t.current = NoItem THEN DequeueAndTransmit(v) ELSE {v}
  BY DEF SendTo
<1> HIDE DEF v
<1>3. /\ t.queue.items \in Seq(DevItems) /\ v.queue.items = Append(t.queue.items, p)
      /\ v.queue.nPackets # 0
      /\ t.current \in DevItems \cup {NoItem} /\ NoItem \notin DevItems
      /\ t.wakes \in Nat
  <2>1. QueueOK(t.queue, DevItems) /\ Sized(DevItems)
    BY DevSizes DEF TxOK, TxCounts
  <2>2. v.queue.items = Append(t.queue.items, p) /\ v.queue.nPackets = t.queue.nPackets + 1
    BY <1>1, <2>1, PutOK
  <2>3. t.queue.nPackets \in Nat
    BY <2>1, QueueFacts
  <2>4. QED
    BY <2>1, <2>2, <2>3, NoItemAssumption DEF TxOK, TxCounts, QueueOK
<1>4. DevLine(v) = Append(DevLine(t), p)
  BY <1>1, <1>3, LineAppend DEF DevLine
<1>5. CASE t.current = NoItem
  <2>1. u \in DequeueAndTransmit(v)
    BY <1>2, <1>5
  <2>2. /\ TxCounts(u)
        /\ u.queue = Take(v.queue) /\ u.current = Head(v.queue.items)
        /\ u.current # NoItem
        /\ u.wakes \in v.wakes..(v.wakes + 2)
        /\ StopsMean(v) => StopsMean(u)
        /\ UseQueueLimits => Settled(u.dql)
    BY <1>1, <1>3, <2>1, DequeueOK
  <2>3. v.wakes = 0
    BY <1>1, <1>3, <1>5 DEF TxOK
  <2>4. TxOK(u)
    BY <2>2, <2>3 DEF TxOK
  <2>5. StopsOK(t) /\ ~IsStopped(t) => StopsOK(u)
    BY <1>1, <2>2 DEF StopsOK
  <2>6. QueueOK(v.queue, DevItems)
    BY <1>1 DEF TxCounts
  <2>7. u.queue.items = Tail(v.queue.items) /\ v.queue.items # <<>>
        /\ v.queue.items \in Seq(DevItems)
    <3>1. u.queue.items = Tail(v.queue.items) /\ v.queue.items # <<>>
      <4>1. PICK k : k = v.queue
        OBVIOUS
      <4>2. QueueOK(k, DevItems) /\ k.nPackets # 0 /\ u.queue = Take(k) /\ Sized(DevItems)
        BY <1>3, <2>2, <2>6, <4>1, DevSizes
      <4>3. Take(k).items = Tail(k.items) /\ k.items # <<>>
        BY <4>2, TakeOK
      <4>4. QED
        BY <4>1, <4>2, <4>3
    <3>2. QED
      BY <2>6, <3>1 DEF QueueOK
  <2>8. DevLine(u) = DevLine(v)
    BY <1>1, <1>3, <1>5, <2>2, <2>7, LineMoves DEF DevLine
  <2>9. QED
    BY <1>4, <2>4, <2>5, <2>8
<1>6. CASE t.current # NoItem
  <2>1. u = v
    BY <1>2, <1>6
  <2>2. TxOK(u)
    BY <1>1, <1>6, <2>1 DEF TxOK
  <2>3. StopsOK(t) /\ ~IsStopped(t) => StopsOK(u)
    BY <1>1, <1>6, <2>1 DEF StopsOK
  <2>4. QED
    BY <1>4, <2>1, <2>2, <2>3
<1>7. QED
  BY <1>5, <1>6

LEMMA RoomWhenEmpty ==
    ASSUME HeaderFits, NEW q, q.nPackets = 0, q.nBytes = 0
    PROVE  HasRoom(q)
  BY FlowControlAssumption DEF HeaderFits, HasRoom, Units

\* What TransmitComplete leaves in the device.
AfterTransmit(t) ==
    IF Empty(t.queue) THEN {[t EXCEPT !.current = NoItem]} ELSE DequeueAndTransmit(t)

LEMMA CompleteOK ==
    ASSUME NEW t, TxOK(t), t.current # NoItem, t.wakes = 0, NEW u \in AfterTransmit(t)
    PROVE  /\ TxOK(u)
           /\ DevLine(t) # <<>> /\ DevLine(u) = Tail(DevLine(t))
           /\ Head(DevLine(t)) = t.current /\ DevLine(t) \in Seq(DevItems)
           /\ HeaderFits /\ StopsOK(t) => StopsOK(u)
           /\ IsStopped(t) => IsStopped(u) \/ u.wakes # 0
<1>1. /\ t.queue.items \in Seq(DevItems) /\ t.current \in DevItems /\ NoItem \notin DevItems
      /\ QueueOK(t.queue, DevItems)
  BY NoItemAssumption DEF TxOK, TxCounts, QueueOK
<1>2. /\ DevLine(t) # <<>> /\ Head(DevLine(t)) = t.current
      /\ Tail(DevLine(t)) = Line(NoItem, t.queue.items)
      /\ DevLine(t) \in Seq(DevItems)
  <2>1. PICK s : s = t.queue.items
    OBVIOUS
  <2>2. PICK x : x = t.current
    OBVIOUS
  <2>3. s \in Seq(DevItems) /\ x \in DevItems /\ DevLine(t) = Line(x, s)
    BY <1>1, <2>1, <2>2 DEF DevLine
  <2>4. /\ Line(x, s) # <<>> /\ Head(Line(x, s)) = x /\ Tail(Line(x, s)) = Line(NoItem, s)
        /\ Line(x, s) \in Seq(DevItems)
    BY <1>1, <2>3, LineServed, ZenonT(90)
  <2>5. QED
    BY <2>1, <2>2, <2>3, <2>4
<1>3. CASE Empty(t.queue)
  <2>1. u = [t EXCEPT !.current = NoItem]
    BY <1>3 DEF AfterTransmit
  <2>2. /\ u = TxRecord(u) /\ u.queue = t.queue /\ u.current = NoItem
        /\ u.stoppedByDevice = t.stoppedByDevice
        /\ u.stoppedByQueueLimits = t.stoppedByQueueLimits
        /\ u.dql = t.dql /\ u.wakes = t.wakes
    BY <2>1 DEF TxOK, TxCounts, TxRecord
  <2>3. TxOK(u)
    BY <2>2 DEF TxOK, TxCounts
  <2>4. DevLine(u) = Tail(DevLine(t))
    BY <1>2, <2>2 DEF DevLine
  <2>5. IsStopped(u) <=> IsStopped(t)
    BY <2>2 DEF IsStopped
  <2>6. ASSUME HeaderFits, StopsOK(t) PROVE StopsOK(u)
    <3>1. t.queue.nPackets = 0 /\ t.queue.nBytes = 0
      BY <1>1, <1>3, QueueFacts DEF Empty
    <3>2. HasRoom(t.queue)
      BY <2>6, <3>1, RoomWhenEmpty
    <3>3. ~t.stoppedByDevice
      BY <2>6, <3>2 DEF StopsOK, StopsMean
    <3>4. ~t.stoppedByQueueLimits
      <4>1. ASSUME UseQueueLimits PROVE ~(Available(t.dql) < 0)
        <5>1. t.dql \in LimitsType /\ Settled(t.dql) /\ Outstanding(t.dql) = U32(0)
          BY <2>6, <3>1, <4>1 DEF StopsOK, TxOK, TxCounts
        <5>2. QED
          BY <5>1, SettledLeavesRoom
      <4>2. QED
        BY <2>6, <4>1 DEF StopsOK, StopsMean
    <3>5. QED
      BY <2>2, <2>6, <3>1, <3>3, <3>4 DEF StopsOK, StopsMean, IsStopped
  <2>7. QED
    BY <1>2, <2>3, <2>4, <2>5, <2>6
<1>4. CASE ~Empty(t.queue)
  <2>1. u \in DequeueAndTransmit(t) /\ t.queue.nPackets # 0
    BY <1>4 DEF AfterTransmit, Empty
  <2>2. /\ TxCounts(u)
        /\ u.queue = Take(t.queue) /\ u.current = Head(t.queue.items)
        /\ u.current # NoItem
        /\ u.wakes \in t.wakes..(t.wakes + 2)
        /\ IsStopped(t) /\ ~IsStopped(u) => u.wakes # 0
        /\ StopsMean(t) => StopsMean(u)
        /\ UseQueueLimits => Settled(u.dql)
    BY <2>1, DequeueOK DEF TxOK
  <2>3. TxOK(u)
    BY <2>2 DEF TxOK
  <2>4. StopsOK(t) => StopsOK(u)
    BY <2>2 DEF StopsOK
  <2>5. u.queue.items = Tail(t.queue.items) /\ t.queue.items # <<>>
    BY <1>1, <2>1, <2>2, TakeOK, DevSizes
  <2>6. DevLine(u) = Tail(DevLine(t))
    BY <1>1, <1>2, <2>2, <2>5, LineMoves DEF DevLine
  <2>7. QED
    BY <1>2, <2>2, <2>3, <2>4, <2>6
<1>5. QED
  BY <1>3, <1>4

-----------------------------------------------------------------------------
(* The statistics of the queue disc *)

StatsFields(s) ==
    [nTotalReceivedPackets |-> s.nTotalReceivedPackets,
     nTotalReceivedBytes |-> s.nTotalReceivedBytes,
     nTotalEnqueuedPackets |-> s.nTotalEnqueuedPackets,
     nTotalEnqueuedBytes |-> s.nTotalEnqueuedBytes,
     nTotalDequeuedPackets |-> s.nTotalDequeuedPackets,
     nTotalDequeuedBytes |-> s.nTotalDequeuedBytes,
     nTotalDroppedPacketsBeforeEnqueue |-> s.nTotalDroppedPacketsBeforeEnqueue,
     nTotalDroppedBytesBeforeEnqueue |-> s.nTotalDroppedBytesBeforeEnqueue,
     nDroppedPacketsBeforeEnqueue |-> s.nDroppedPacketsBeforeEnqueue]

StatsCounts(s) ==
    /\ s.nTotalReceivedPackets \in Nat /\ s.nTotalReceivedBytes \in Nat
    /\ s.nTotalEnqueuedPackets \in Nat /\ s.nTotalEnqueuedBytes \in Nat
    /\ s.nTotalDequeuedPackets \in Nat /\ s.nTotalDequeuedBytes \in Nat
    /\ s.nTotalDroppedPacketsBeforeEnqueue \in Nat
    /\ s.nTotalDroppedBytesBeforeEnqueue \in Nat
    /\ s.nDroppedPacketsBeforeEnqueue \in [Reasons -> Nat]

LEMMA StatsAreRecords ==
    ASSUME NEW s
    PROVE  s \in StatsType <=> s = StatsFields(s) /\ StatsCounts(s)
<1>1. ASSUME s \in StatsType PROVE s = StatsFields(s) /\ StatsCounts(s)
  BY <1>1 DEF StatsType, StatsFields, StatsCounts
<1>2. ASSUME s = StatsFields(s), StatsCounts(s) PROVE s \in StatsType
  BY <1>2 DEF StatsType, StatsFields, StatsCounts
<1>3. QED
  BY <1>1, <1>2

\* Received counts one packet, and the other statistics leave that count alone.
LEMMA StatsOK ==
    ASSUME NEW s \in StatsType, NEW item, item.size \in Nat
    PROVE  /\ Received(s, item) \in StatsType
           /\ Received(s, item).nTotalReceivedPackets = s.nTotalReceivedPackets + 1
           /\ EnqueuedStats(s, item) \in StatsType
           /\ EnqueuedStats(s, item).nTotalReceivedPackets = s.nTotalReceivedPackets
           /\ DequeuedStats(s, item) \in StatsType
           /\ DequeuedStats(s, item).nTotalReceivedPackets = s.nTotalReceivedPackets
           /\ \A r \in Reasons :
                 /\ DroppedBeforeEnqueue(s, item, r) \in StatsType
                 /\ DroppedBeforeEnqueue(s, item, r).nTotalReceivedPackets
                       = s.nTotalReceivedPackets
<1>1. s = StatsFields(s) /\ StatsCounts(s)
  BY StatsAreRecords
<1>2. ASSUME NEW t, t = Received(s, item)
      PROVE  t \in StatsType /\ t.nTotalReceivedPackets = s.nTotalReceivedPackets + 1
  <2>1. t = StatsFields(t)
    BY <1>1, <1>2 DEF StatsFields, Received
  <2>2. StatsCounts(t) /\ t.nTotalReceivedPackets = s.nTotalReceivedPackets + 1
    BY <1>1, <1>2 DEF StatsFields, StatsCounts, Received
  <2>3. QED
    BY <2>1, <2>2, StatsAreRecords
<1>3. ASSUME NEW t, t = EnqueuedStats(s, item)
      PROVE  t \in StatsType /\ t.nTotalReceivedPackets = s.nTotalReceivedPackets
  <2>1. t = StatsFields(t)
    BY <1>1, <1>3 DEF StatsFields, EnqueuedStats
  <2>2. StatsCounts(t) /\ t.nTotalReceivedPackets = s.nTotalReceivedPackets
    BY <1>1, <1>3 DEF StatsFields, StatsCounts, EnqueuedStats
  <2>3. QED
    BY <2>1, <2>2, StatsAreRecords
<1>4. ASSUME NEW t, t = DequeuedStats(s, item)
      PROVE  t \in StatsType /\ t.nTotalReceivedPackets = s.nTotalReceivedPackets
  <2>1. t = StatsFields(t)
    BY <1>1, <1>4 DEF StatsFields, DequeuedStats
  <2>2. StatsCounts(t) /\ t.nTotalReceivedPackets = s.nTotalReceivedPackets
    BY <1>1, <1>4 DEF StatsFields, StatsCounts, DequeuedStats
  <2>3. QED
    BY <2>1, <2>2, StatsAreRecords
<1>5. ASSUME NEW r \in Reasons, NEW t, t = DroppedBeforeEnqueue(s, item, r)
      PROVE  t \in StatsType /\ t.nTotalReceivedPackets = s.nTotalReceivedPackets
  <2>1. t = StatsFields(t)
    BY <1>1, <1>5 DEF StatsFields, DroppedBeforeEnqueue
  <2>2. StatsCounts(t) /\ t.nTotalReceivedPackets = s.nTotalReceivedPackets
    BY <1>1, <1>5 DEF StatsFields, StatsCounts, DroppedBeforeEnqueue
  <2>3. QED
    BY <2>1, <2>2, StatsAreRecords
<1>6. QED
  BY <1>2, <1>3, <1>4, <1>5

-----------------------------------------------------------------------------
(* Types, and the bytes the limits count *)

TypeInv ==
    /\ stats \in StatsType /\ stats.nTotalReceivedPackets <= MaxPackets
    /\ requeued \in DiscItems \cup {NoItem}
    /\ QueueOK(queue, DiscItems) /\ nPackets = queue.nPackets
    /\ running \in BOOLEAN /\ quota \in Uint32
    /\ discarded \in Nat
    /\ tx = [q \in TxQueues |-> tx[q]]
    /\ \A q \in TxQueues : TxOK(tx[q])

LEMMA DiscFacts ==
    /\ Sized(DiscItems) /\ NoItem \notin DiscItems
    /\ \A item \in DiscItems :
          /\ item.size \in Nat /\ item.txq \in TxQueues /\ item.id \in Nat
          /\ [id |-> item.id, size |-> item.size + HeaderSize] \in DevItems
<1>1. ASSUME NEW item \in DiscItems
      PROVE  /\ item.size \in Nat /\ item.txq \in TxQueues /\ item.id \in Nat
             /\ [id |-> item.id, size |-> item.size + HeaderSize] \in DevItems
  <2>1. item.id \in 1..MaxPackets /\ item.size \in PacketSizes /\ item.txq \in TxQueues
    BY DEF DiscItems
  <2>2. item.size \in Nat /\ item.id \in Nat
    <3>1. PacketSizes \subseteq 1..Mtu /\ Mtu \in Nat /\ MaxPackets \in Nat
      BY FlowControlAssumption
    <3>2. item.size \in 1..Mtu
      BY <2>1, <3>1
    <3>3. QED
      BY <2>1, <3>1, <3>2
  <2>3. [id |-> item.id, size |-> item.size + HeaderSize] \in DevItems
    BY <2>1 DEF DevItems
  <2>4. QED
    BY <2>1, <2>2, <2>3
<1>2. QED
  BY <1>1, NoItemAssumption DEF Sized

LEMMA TypesImplied == TypeInv => TypeOK /\ OutstandingIsQueued
<1>1. ASSUME TypeInv PROVE TypeOK /\ OutstandingIsQueued
  <2>1. queue.items \in Seq(DiscItems) /\ queue.nPackets \in Nat /\ queue.nBytes \in Nat
    BY <1>1, QueueFacts DEF TypeInv, QueueOK
  <2>2. ASSUME NEW q \in TxQueues
        PROVE  /\ tx[q].queue.items \in Seq(DevItems)
               /\ tx[q].queue.nPackets \in Nat /\ tx[q].queue.nBytes \in Nat
               /\ tx[q].current \in DevItems \cup {NoItem}
               /\ tx[q].stoppedByDevice \in BOOLEAN
               /\ tx[q].stoppedByQueueLimits \in BOOLEAN
               /\ tx[q].dql \in LimitsType
               /\ tx[q].wakes \in 0..2
               /\ UseQueueLimits => Outstanding(tx[q].dql) = U32(tx[q].queue.nBytes)
    <3>1. TxOK(tx[q]) /\ QueueOK(tx[q].queue, DevItems)
      BY <1>1 DEF TypeInv, TxOK, TxCounts
    <3>2. tx[q].queue.nPackets \in Nat /\ tx[q].queue.nBytes \in Nat
      BY <3>1, QueueFacts
    <3>3. QED
      BY <3>1, <3>2 DEF TxOK, TxCounts, QueueOK
  <2>3. QED
    BY <1>1, <2>1, <2>2 DEF TypeInv, TypeOK, OutstandingIsQueued
<1>2. QED
  BY <1>1

LEMMA NewTxOK ==
    ASSUME NEW a \in Uint32, NEW t, t = NewTxQueue(a)
    PROVE  /\ TxOK(t) /\ DevLine(t) = <<>> /\ t.wakes = 0
           /\ HeaderFits => StopsOK(t)
<1>1. /\ t = TxRecord(t) /\ t.queue = EmptyQueue /\ t.current = NoItem
      /\ t.stoppedByDevice = FALSE /\ t.stoppedByQueueLimits = FALSE
      /\ t.dql = ResetLimits(a) /\ t.wakes = 0
  BY DEF NewTxQueue, TxRecord
<1>2. /\ QueueOK(t.queue, DevItems) /\ t.queue.nPackets = 0 /\ t.queue.nBytes = 0
      /\ t.queue.items = <<>>
  BY <1>1, NoSizes DEF EmptyQueue
<1>3. U32(0) = 0
  BY Uint32Int, WrappedSmall
<1>4. t.dql \in LimitsType /\ Outstanding(t.dql) = U32(t.queue.nBytes)
  BY <1>1, <1>2, <1>3, ResetOK
<1>5. TxOK(t)
  <2>1. t.current \in DevItems \cup {NoItem} /\ t.wakes \in Nat /\ t.wakes <= 2
    BY <1>1
  <2>0. t.stoppedByDevice \in BOOLEAN /\ t.stoppedByQueueLimits \in BOOLEAN
    BY <1>1, Zenon
  <2>2. TxCounts(t)
    BY <1>1, <1>2, <1>4, <2>0, <2>1 DEF TxCounts
  <2>3. QED
    BY <1>1, <2>1, <2>2 DEF TxOK
<1>6. DevLine(t) = <<>>
  BY <1>1, <1>2, SlotFacts DEF DevLine, Line
<1>7. HeaderFits => StopsOK(t)
  BY <1>1, <1>2, RoomWhenEmpty DEF StopsOK, StopsMean, IsStopped
<1>8. QED
  BY <1>1, <1>5, <1>6, <1>7

LEMMA InitTypes == Init => TypeInv
<1> SUFFICES ASSUME Init PROVE TypeInv
  OBVIOUS
<1>1. stats \in StatsType /\ stats.nTotalReceivedPackets = 0 /\ requeued = NoItem
  BY DEF Init, DiscInit, NoStats, StatsType
<1>2. QueueOK(queue, DiscItems) /\ nPackets = queue.nPackets
  BY NoSizes DEF Init, DiscInit
<1>3. PICK a \in AdjLimits : tx = [q \in TxQueues |-> NewTxQueue(a)]
  BY DEF Init
<1>4. a \in Uint32
  BY FlowControlAssumption
<1>5. \A q \in TxQueues : TxOK(tx[q])
  BY <1>3, <1>4, NewTxOK
<1>6. tx = [q \in TxQueues |-> tx[q]]
  BY <1>3
<1>7. running \in BOOLEAN /\ quota \in Uint32 /\ discarded \in Nat
  BY Uint32Int DEF Init
<1>8. QED
  BY <1>1, <1>2, <1>5, <1>6, <1>7, FlowControlAssumption DEF TypeInv

\* The packet that the device makes of an item.
Framed(item) == [id |-> item.id, size |-> item.size + HeaderSize]

\* One transmission queue changes.
LEMMA OneTxChanges ==
    ASSUME NEW f, f = [q \in TxQueues |-> f[q]], NEW r \in TxQueues, NEW u,
           NEW g, g = [f EXCEPT ![r] = u]
    PROVE  /\ g = [q \in TxQueues |-> g[q]] /\ g[r] = u
           /\ \A q \in TxQueues : q # r => g[q] = f[q]
  OBVIOUS

LEMMA StopRecord ==
    ASSUME NEW t, t = TxRecord(t), NEW u, u = Stop(t)
    PROVE  /\ u = TxRecord(u) /\ u.queue = t.queue /\ u.current = t.current
           /\ u.stoppedByDevice = TRUE
           /\ u.stoppedByQueueLimits = t.stoppedByQueueLimits
           /\ u.dql = t.dql /\ u.wakes = t.wakes
  BY DEF Stop, TxRecord

\* NetDevice::Send: a packet joins the line of its queue or is discarded.
LEMMA DeviceSendOK ==
    ASSUME TypeInv, NEW item \in DiscItems, NEW r, r = item.txq, ~Stopped(r), DeviceSend(item)
    PROVE  /\ tx' = [q \in TxQueues |-> tx'[q]]
           /\ \A q \in TxQueues : TxOK(tx'[q])
           /\ \A q \in TxQueues : q # r => tx'[q] = tx[q]
           /\ \/ discarded' = discarded + 1
              \/ /\ discarded' = discarded
                 /\ DevLine(tx'[r]) = Append(DevLine(tx[r]), Framed(item))
                 /\ StopsOK(tx[r]) => StopsOK(tx'[r])
           /\ HeaderFits /\ StopsOK(tx[r]) => discarded' = discarded
<1> DEFINE p == Framed(item)
           t == tx[r]
<1>1. /\ p \in DevItems /\ r \in TxQueues /\ item.size \in PacketSizes
      /\ p.size = item.size + HeaderSize
  BY DiscFacts DEF Framed, DiscItems
<1>2. TxOK(t) /\ tx = [q \in TxQueues |-> tx[q]] /\ \A q \in TxQueues : TxOK(tx[q])
  BY <1>1 DEF TypeInv
<1>3. \/ /\ Overfull(t.queue, p, DevUnit, DevMaxSize)
         /\ tx' = [tx EXCEPT ![r] = Stop(t)] /\ discarded' = discarded + 1
      \/ /\ ~Overfull(t.queue, p, DevUnit, DevMaxSize)
         /\ \E u \in SendTo(t, p) : tx' = [tx EXCEPT ![r] = u]
         /\ discarded' = discarded
  BY DEF DeviceSend, SendTo, Framed
<1> HIDE DEF p
<1>4. CASE /\ Overfull(t.queue, p, DevUnit, DevMaxSize)
           /\ tx' = [tx EXCEPT ![r] = Stop(t)] /\ discarded' = discarded + 1
  <2> DEFINE u == Stop(t)
  <2>1. /\ u = TxRecord(u) /\ u.queue = t.queue /\ u.current = t.current
        /\ u.stoppedByDevice = TRUE
        /\ u.stoppedByQueueLimits = t.stoppedByQueueLimits
        /\ u.dql = t.dql /\ u.wakes = t.wakes
    <3>1. t = TxRecord(t)
      BY <1>2 DEF TxOK, TxCounts
    <3>2. PICK w : w = t
      OBVIOUS
    <3>3. w = TxRecord(w) /\ u = Stop(w)
      BY <3>1, <3>2
    <3> HIDE DEF u, t
    <3>4. QED
      BY <3>2, <3>3, StopRecord
  <2> HIDE DEF u
  <2>2. TxOK(u)
    BY <1>2, <2>1 DEF TxOK, TxCounts
  <2>3. /\ tx' = [q \in TxQueues |-> tx'[q]] /\ tx'[r] = u
        /\ \A q \in TxQueues : q # r => tx'[q] = tx[q]
    BY <1>1, <1>2, <1>4, OneTxChanges DEF u
  <2>4. \A q \in TxQueues : TxOK(tx'[q])
    BY <1>2, <2>2, <2>3
  <2>5. ~(HeaderFits /\ StopsOK(t))
    <3>1. SUFFICES ASSUME HeaderFits, StopsOK(t) PROVE FALSE
      OBVIOUS
    <3>2. HasRoom(t.queue)
      BY <3>1 DEF StopsOK, StopsMean, Stopped, IsStopped
    <3>3. QueueOK(t.queue, DevItems)
      BY <1>2 DEF TxOK, TxCounts
    <3>4. t.queue.nPackets \in Nat /\ t.queue.nBytes \in Nat
      BY <3>3, QueueFacts
    <3>5. DevUnit = BYTES => p.size \in Nat /\ p.size <= Mtu /\ Mtu \in Nat /\ DevMaxSize \in Nat
      BY <1>1, <3>1, DevSizes, FlowControlAssumption DEF HeaderFits
    <3>6. PACKETS # BYTES /\ DevMaxSize \in Nat
      BY FlowControlAssumption DEF PACKETS, BYTES
    <3>7. QED
      BY <1>4, <3>2, <3>4, <3>5, <3>6 DEF HasRoom, Overfull
  <2>6. QED
    BY <1>4, <2>3, <2>4, <2>5
<1>5. CASE /\ ~Overfull(t.queue, p, DevUnit, DevMaxSize)
           /\ \E u \in SendTo(t, p) : tx' = [tx EXCEPT ![r] = u]
           /\ discarded' = discarded
  <2>1. PICK u \in SendTo(t, p) : tx' = [tx EXCEPT ![r] = u]
    BY <1>5
  <2>2. /\ TxOK(u) /\ DevLine(u) = Append(DevLine(t), p)
        /\ StopsOK(t) /\ ~IsStopped(t) => StopsOK(u)
    BY <1>1, <1>2, SendOK
  <2>3. /\ tx' = [q \in TxQueues |-> tx'[q]] /\ tx'[r] = u
        /\ \A q \in TxQueues : q # r => tx'[q] = tx[q]
    BY <1>1, <1>2, <2>1, OneTxChanges
  <2>4. \A q \in TxQueues : TxOK(tx'[q])
    BY <1>2, <2>2, <2>3
  <2>5. QED
    BY <1>5, <2>2, <2>3, <2>4 DEF Stopped, p
<1>6. QED
  BY <1>3, <1>4, <1>5

\* What the steps of the loop find at the head of the queue disc.
LEMMA HeadOK ==
    ASSUME TypeInv, MayDequeue, NEW item, item = Head(queue.items),
           NEW u, u = Take(queue)
    PROVE  /\ requeued = NoItem
           /\ item \in DiscItems /\ item # NoItem /\ queue.items # <<>>
           /\ queue.items \in Seq(DiscItems)
           /\ QueueOK(u, DiscItems) /\ u.nPackets = nPackets - 1 /\ u.items = Tail(queue.items)
           /\ nPackets \in Nat \ {0}
<1>1. QueueOK(queue, DiscItems) /\ queue.nPackets # 0 /\ nPackets = queue.nPackets
      /\ requeued = NoItem
  BY DEF TypeInv, MayDequeue, Empty
<1>2. /\ QueueOK(u, DiscItems) /\ u.nPackets = queue.nPackets - 1 /\ u.items = Tail(queue.items)
      /\ item \in DiscItems /\ queue.items # <<>>
  BY <1>1, DiscFacts, TakeOK
<1>3. nPackets \in Nat
  BY <1>1, QueueFacts
<1>4. QED
  BY <1>1, <1>2, <1>3, DiscFacts DEF QueueOK

LEMMA IterationOK ==
    ASSUME TypeInv, NEW item, NextIteration(item)
    PROVE  running' \in BOOLEAN /\ quota' \in Uint32
<1>1. U32(quota - 1) \in Uint32
  BY WrappedType, Uint32Int DEF TypeInv
<1>2. QED
  BY <1>1 DEF NextIteration, TypeInv

\* The packet of a call of Send, and what becomes of the queue disc.
Numbering(size, q) == [id |-> stats.nTotalReceivedPackets + 1, size |-> size, txq |-> q]

LEMMA SendFacts ==
    ASSUME TypeInv, NEW size \in PacketSizes, NEW q \in TxQueues, Send(size, q),
           NEW item, item = Numbering(size, q)
    PROVE  /\ item \in DiscItems /\ item.id = stats.nTotalReceivedPackets + 1
           /\ stats' \in StatsType
           /\ stats.nTotalReceivedPackets \in Nat
           /\ stats'.nTotalReceivedPackets = stats.nTotalReceivedPackets + 1
           /\ stats'.nTotalReceivedPackets <= MaxPackets
           /\ ~running /\ running' = TRUE /\ quota' = Quota
           /\ UNCHANGED <<requeued, tx, delivered, discarded>>
           /\ \/ UNCHANGED <<nPackets, queue, accepted>>
              \/ /\ nPackets' = nPackets + 1 /\ queue' = Put(queue, item)
                 /\ accepted' = Append(accepted, item)
                 /\ DiscUnit = PACKETS => nPackets + 1 <= DiscMaxSize
<1> DEFINE n == stats.nTotalReceivedPackets
<1>1. stats \in StatsType /\ n \in Nat /\ MaxPackets \in Nat
  BY FlowControlAssumption DEF TypeInv, StatsType
<1>2. n < MaxPackets
  BY DEF Send
<1>3. n + 1 \in 1..MaxPackets
  BY <1>1, <1>2
<1>4. item \in DiscItems /\ item.id = n + 1 /\ item.size = size
  BY <1>3 DEF DiscItems, Numbering
<1>5. item.size \in Nat
  BY <1>4, DiscFacts
<1>6. /\ Received(stats, item) \in StatsType
      /\ Received(stats, item).nTotalReceivedPackets = n + 1
  BY <1>1, <1>5, StatsOK
<1>7. /\ ~running /\ running' = TRUE /\ quota' = Quota
      /\ UNCHANGED <<requeued, tx, delivered, discarded>>
      /\ \/ /\ EnqueueDrops(item, LIMIT_EXCEEDED_DROP)
            /\ UNCHANGED <<queue, accepted>>
         \/ /\ ~(DiscUnit = PACKETS /\ nPackets + 1 > DiscMaxSize)
            /\ EnqueueStores(item)
            /\ queue' = Put(queue, item) /\ accepted' = Append(accepted, item)
  BY DEF Send, RunBegin, Numbering
<1>8. LIMIT_EXCEEDED_DROP \in Reasons
  BY DEF Reasons
<1> HIDE DEF n
<1>9. CASE EnqueueDrops(item, LIMIT_EXCEEDED_DROP) /\ UNCHANGED <<queue, accepted>>
  <2>1. stats' \in StatsType /\ stats'.nTotalReceivedPackets = n + 1
    BY <1>5, <1>6, <1>8, <1>9, StatsOK DEF EnqueueDrops
  <2>2. UNCHANGED nPackets
    BY <1>9 DEF EnqueueDrops
  <2>3. QED
    BY <1>1, <1>3, <1>4, <1>7, <1>9, <2>1, <2>2 DEF n
<1>10. CASE /\ ~(DiscUnit = PACKETS /\ nPackets + 1 > DiscMaxSize)
            /\ EnqueueStores(item)
            /\ queue' = Put(queue, item) /\ accepted' = Append(accepted, item)
  <2>1. stats' \in StatsType /\ stats'.nTotalReceivedPackets = n + 1
    BY <1>5, <1>6, <1>10, StatsOK DEF EnqueueStores
  <2>2. nPackets' = nPackets + 1
    BY <1>10 DEF EnqueueStores
  <2>3. DiscUnit = PACKETS => nPackets + 1 <= DiscMaxSize
    <3>1. nPackets \in Nat /\ DiscMaxSize \in Nat
      BY QueueFacts, FlowControlAssumption DEF TypeInv
    <3>2. QED
      BY <1>10, <3>1
  <2>4. QED
    BY <1>1, <1>3, <1>4, <1>7, <1>10, <2>1, <2>2, <2>3 DEF n
<1>11. QED
  BY <1>7, <1>9, <1>10

LEMMA WakeFacts ==
    ASSUME TypeInv, NEW r \in TxQueues, WakeCallback(r)
    PROVE  /\ tx' = [q \in TxQueues |-> tx'[q]]
           /\ \A q \in TxQueues : /\ TxOK(tx'[q]) /\ DevLine(tx'[q]) = DevLine(tx[q])
                                  /\ StopsOK(tx[q]) => StopsOK(tx'[q])
           /\ ~running /\ running' = TRUE /\ quota' = Quota
           /\ UNCHANGED <<discVars, queue, accepted, delivered, discarded>>
<1> DEFINE t == tx[r]
<1>1. TxOK(t) /\ tx = [q \in TxQueues |-> tx[q]] /\ \A q \in TxQueues : TxOK(tx[q])
  BY DEF TypeInv
<1>2. t.wakes > 0 /\ tx' = [tx EXCEPT ![r].wakes = @ - 1]
  BY DEF WakeCallback
<1>3. PICK u : u = [t EXCEPT !.wakes = @ - 1]
  OBVIOUS
<1>4. tx' = [tx EXCEPT ![r] = u]
  BY <1>1, <1>2, <1>3
<1>5. /\ u = TxRecord(u) /\ u.queue = t.queue /\ u.current = t.current
      /\ u.stoppedByDevice = t.stoppedByDevice
      /\ u.stoppedByQueueLimits = t.stoppedByQueueLimits
      /\ u.dql = t.dql /\ u.wakes = t.wakes - 1
  <2>1. t = TxRecord(t)
    BY <1>1 DEF TxOK, TxCounts
  <2> HIDE DEF t
  <2>2. QED
    BY <1>3, <2>1 DEF TxRecord
<1>6. TxOK(u)
  <2>1. t.wakes \in 1..2
    BY <1>1, <1>2 DEF TxOK, TxCounts
  <2>2. u.wakes \in Nat /\ u.wakes <= 2 /\ t.current # NoItem
    BY <1>1, <1>5, <2>1 DEF TxOK
  <2>3. QED
    BY <1>1, <1>5, <2>2 DEF TxOK, TxCounts
<1>7. DevLine(u) = DevLine(t) /\ (StopsOK(t) => StopsOK(u))
  BY <1>5 DEF DevLine, StopsOK, StopsMean, IsStopped
<1> HIDE DEF t
<1>8. /\ tx' = [q \in TxQueues |-> tx'[q]] /\ tx'[r] = u
      /\ \A q \in TxQueues : q # r => tx'[q] = tx[q]
  BY <1>1, <1>4, OneTxChanges
<1>9. ASSUME NEW q \in TxQueues
      PROVE  /\ TxOK(tx'[q]) /\ DevLine(tx'[q]) = DevLine(tx[q])
             /\ StopsOK(tx[q]) => StopsOK(tx'[q])
  BY <1>1, <1>6, <1>7, <1>8 DEF t
<1>10. QED
  BY <1>8, <1>9 DEF WakeCallback, RunBegin

LEMMA CompleteFacts ==
    ASSUME TypeInv, NEW r \in TxQueues, TransmitComplete(r)
    PROVE  /\ tx' = [q \in TxQueues |-> tx'[q]]
           /\ \A q \in TxQueues : TxOK(tx'[q])
           /\ \A q \in TxQueues : q # r => tx'[q] = tx[q]
           /\ DevLine(tx[r]) # <<>> /\ DevLine(tx'[r]) = Tail(DevLine(tx[r]))
           /\ Head(DevLine(tx[r])) = tx[r].current /\ DevLine(tx[r]) \in Seq(DevItems)
           /\ HeaderFits /\ StopsOK(tx[r]) => StopsOK(tx'[r])
           /\ Stopped(r) => IsStopped(tx'[r]) \/ tx'[r].wakes # 0
           /\ tx[r].wakes = 0 /\ ~running
           /\ UNCHANGED <<discVars, queue, running, quota, accepted, discarded>>
           /\ delivered' = [delivered EXCEPT ![r] = Append(@, tx[r].current.id)]
<1>1. TxOK(tx[r]) /\ tx = [q \in TxQueues |-> tx[q]] /\ \A q \in TxQueues : TxOK(tx[q])
  BY DEF TypeInv
<1>2. /\ tx[r].current # NoItem /\ tx[r].wakes = 0
      /\ \E t \in AfterTransmit(tx[r]) : tx' = [tx EXCEPT ![r] = t]
  BY DEF TransmitComplete, AfterTransmit
<1>3. PICK u \in AfterTransmit(tx[r]) : tx' = [tx EXCEPT ![r] = u]
  BY <1>2
<1>4. /\ TxOK(u)
      /\ DevLine(tx[r]) # <<>> /\ DevLine(u) = Tail(DevLine(tx[r]))
      /\ Head(DevLine(tx[r])) = tx[r].current /\ DevLine(tx[r]) \in Seq(DevItems)
      /\ HeaderFits /\ StopsOK(tx[r]) => StopsOK(u)
      /\ IsStopped(tx[r]) => IsStopped(u) \/ u.wakes # 0
  BY <1>1, <1>2, CompleteOK
<1>5. /\ tx' = [q \in TxQueues |-> tx'[q]] /\ tx'[r] = u
      /\ \A q \in TxQueues : q # r => tx'[q] = tx[q]
  BY <1>1, <1>3, OneTxChanges
<1>6. \A q \in TxQueues : TxOK(tx'[q])
  BY <1>1, <1>4, <1>5
<1>7. QED
  BY <1>2, <1>4, <1>5, <1>6 DEF TransmitComplete, Stopped

\* The head of the queue disc leaves it.
LEMMA DequeuedFacts ==
    ASSUME TypeInv, MayDequeue, NEW item, item = Head(queue.items), PacketDequeued(item),
           queue' = Take(queue)
    PROVE  /\ stats' \in StatsType
           /\ stats'.nTotalReceivedPackets = stats.nTotalReceivedPackets
           /\ QueueOK(queue', DiscItems) /\ nPackets' = nPackets - 1
           /\ queue'.nPackets = nPackets'
<1>1. item.size \in Nat
  BY HeadOK, DiscFacts
<1>2. stats' = DequeuedStats(stats, item) /\ nPackets' = nPackets - 1 /\ stats \in StatsType
  BY DEF PacketDequeued, TypeInv
<1>3. /\ stats' \in StatsType
      /\ stats'.nTotalReceivedPackets = stats.nTotalReceivedPackets
  BY <1>1, <1>2, StatsOK
<1>4. QueueOK(queue', DiscItems) /\ queue'.nPackets = nPackets - 1
  BY HeadOK
<1>5. QED
  BY <1>2, <1>3, <1>4

LEMMA TypesStep == TypeInv /\ [Next]_flowVars => TypeInv'
<1> SUFFICES ASSUME TypeInv, [Next]_flowVars PROVE TypeInv'
  OBVIOUS
<1>1. ASSUME NEW size \in PacketSizes, NEW q \in TxQueues, Send(size, q) PROVE TypeInv'
  <2>1. PICK item : item = Numbering(size, q)
    OBVIOUS
  <2>2. /\ item \in DiscItems
        /\ stats' \in StatsType /\ stats'.nTotalReceivedPackets <= MaxPackets
        /\ running' = TRUE /\ quota' = Quota
        /\ UNCHANGED <<requeued, tx, discarded>>
        /\ \/ UNCHANGED <<nPackets, queue>>
           \/ nPackets' = nPackets + 1 /\ queue' = Put(queue, item)
    BY <1>1, <2>1, SendFacts
  <2>3. QueueOK(queue', DiscItems) /\ nPackets' = queue'.nPackets
    <3>1. CASE UNCHANGED <<nPackets, queue>>
      BY <3>1 DEF TypeInv
    <3>2. CASE nPackets' = nPackets + 1 /\ queue' = Put(queue, item)
      BY <2>2, <3>2, PutOK, DiscFacts DEF TypeInv
    <3>3. QED
      BY <2>2, <3>1, <3>2
  <2>4. QED
    BY <2>2, <2>3, FlowControlAssumption DEF TypeInv
<1>2. ASSUME NEW q \in TxQueues, WakeCallback(q) PROVE TypeInv'
  BY <1>2, WakeFacts, FlowControlAssumption DEF TypeInv, discVars
<1>3. ASSUME NEW q \in TxQueues, TransmitComplete(q) PROVE TypeInv'
  BY <1>3, CompleteFacts DEF TypeInv, discVars
<1>4. CASE RestartRequeued
  <2>1. /\ requeued \in DiscItems /\ ~Stopped(requeued.txq)
        /\ DeviceSend(requeued) /\ NextIteration(requeued)
        /\ requeued' = NoItem /\ UNCHANGED <<nPackets, nBytes, stats, queue>>
    BY <1>4 DEF RestartRequeued, MayDequeueRequeued, TransmitItem, TypeInv
  <2>2. /\ tx' = [q \in TxQueues |-> tx'[q]] /\ \A q \in TxQueues : TxOK(tx'[q])
        /\ discarded' = discarded \/ discarded' = discarded + 1
    BY <2>1, DeviceSendOK
  <2>3. running' \in BOOLEAN /\ quota' \in Uint32
    BY <2>1, IterationOK
  <2>4. QED
    BY <2>1, <2>2, <2>3 DEF TypeInv
<1>5. CASE RestartHead
  <2> DEFINE item == Head(queue.items)
  <2>1. /\ MayDequeue /\ ~Stopped(item.txq) /\ PacketDequeued(item)
        /\ queue' = Take(queue) /\ UNCHANGED requeued
        /\ DeviceSend(item) /\ NextIteration(item)
    BY <1>5 DEF RestartHead, TransmitItem
  <2>2. item \in DiscItems
    BY <2>1, HeadOK
  <2>3. /\ stats' \in StatsType
        /\ stats'.nTotalReceivedPackets = stats.nTotalReceivedPackets
        /\ QueueOK(queue', DiscItems) /\ queue'.nPackets = nPackets'
    BY <2>1, DequeuedFacts
  <2> HIDE DEF item
  <2>4. /\ tx' = [q \in TxQueues |-> tx'[q]] /\ \A q \in TxQueues : TxOK(tx'[q])
        /\ discarded' = discarded \/ discarded' = discarded + 1
    BY <2>1, <2>2, DeviceSendOK
  <2>5. running' \in BOOLEAN /\ quota' \in Uint32
    BY <2>1, IterationOK
  <2>6. QED
    BY <2>1, <2>3, <2>4, <2>5 DEF TypeInv
<1>6. CASE RestartRequeues
  <2> DEFINE item == Head(queue.items)
  <2>1. /\ MayDequeue /\ PacketDequeued(item)
        /\ queue' = Take(queue) /\ requeued' = item /\ running' = FALSE
        /\ UNCHANGED <<tx, quota, discarded>>
    BY <1>6 DEF RestartRequeues
  <2>2. item \in DiscItems
    BY <2>1, HeadOK
  <2>3. /\ stats' \in StatsType
        /\ stats'.nTotalReceivedPackets = stats.nTotalReceivedPackets
        /\ QueueOK(queue', DiscItems) /\ queue'.nPackets = nPackets'
    BY <2>1, DequeuedFacts
  <2> HIDE DEF item
  <2>4. QED
    BY <2>1, <2>2, <2>3 DEF TypeInv
<1>7. CASE RestartNothing
  BY <1>7 DEF RestartNothing, TypeInv, discVars
<1>8. CASE UNCHANGED flowVars
  BY <1>8 DEF flowVars, TypeInv, discVars
<1>9. QED
  BY <1>1, <1>2, <1>3, <1>4, <1>5, <1>6, <1>7, <1>8 DEF Next, Restart

LEMMA TypesAlways == Spec => []TypeInv
  BY InitTypes, TypesStep, PTL DEF Spec

\* The variables keep their types: the counters of the packet queues are never
\* negative, no more than two wake events of a queue are pending, and nothing
\* the queue limits compute leaves 32 bits.
THEOREM TypeCorrect == Spec => []TypeOK
  BY TypesAlways, TypesImplied, PTL

\* The bytes that the queue limits count as outstanding are those of the
\* device's packet queue, so that the assertion of Completed holds.
THEOREM OutstandingHolds == Spec => []OutstandingIsQueued
  BY TypesAlways, TypesImplied, PTL

-----------------------------------------------------------------------------
(* Room in the device, and why a queue is stopped *)

StopInv == discarded = 0 /\ \A q \in TxQueues : StopsOK(tx[q])

LEMMA InitStops == HeaderFits /\ Init => StopInv
<1> SUFFICES ASSUME HeaderFits, Init PROVE StopInv
  OBVIOUS
<1>1. PICK a \in AdjLimits : tx = [q \in TxQueues |-> NewTxQueue(a)]
  BY DEF Init
<1>2. a \in Uint32
  BY FlowControlAssumption
<1>3. \A q \in TxQueues : StopsOK(tx[q])
  BY <1>1, <1>2, NewTxOK
<1>4. QED
  BY <1>3 DEF Init, StopInv

LEMMA SendingStops ==
    ASSUME HeaderFits, TypeInv, StopInv, NEW item \in DiscItems,
           ~Stopped(item.txq), DeviceSend(item)
    PROVE  StopInv'
<1> DEFINE r == item.txq
<1>1. r \in TxQueues
  BY DiscFacts
<1>2. StopsOK(tx[r]) /\ discarded = 0 /\ \A q \in TxQueues : StopsOK(tx[q])
  BY <1>1 DEF StopInv
<1>3. /\ \A q \in TxQueues : q # r => tx'[q] = tx[q]
      /\ \/ discarded' = discarded + 1
         \/ discarded' = discarded /\ (StopsOK(tx[r]) => StopsOK(tx'[r]))
      /\ StopsOK(tx[r]) => discarded' = discarded
  BY DeviceSendOK
<1>4. discarded' = 0 /\ StopsOK(tx'[r])
  BY <1>2, <1>3
<1> HIDE DEF r
<1>5. \A q \in TxQueues : StopsOK(tx'[q])
  BY <1>2, <1>3, <1>4
<1>6. QED
  BY <1>4, <1>5 DEF StopInv

LEMMA StopsStep == HeaderFits /\ TypeInv /\ StopInv /\ [Next]_flowVars => StopInv'
<1> SUFFICES ASSUME HeaderFits, TypeInv, StopInv, [Next]_flowVars PROVE StopInv'
  OBVIOUS
<1>1. ASSUME NEW size \in PacketSizes, NEW q \in TxQueues, Send(size, q) PROVE StopInv'
  BY <1>1 DEF Send, StopInv
<1>2. ASSUME NEW q \in TxQueues, WakeCallback(q) PROVE StopInv'
  BY <1>2, WakeFacts DEF StopInv
<1>3. ASSUME NEW r \in TxQueues, TransmitComplete(r) PROVE StopInv'
  <2>1. /\ \A q \in TxQueues : q # r => tx'[q] = tx[q]
        /\ StopsOK(tx[r]) => StopsOK(tx'[r])
        /\ UNCHANGED discarded
    BY <1>3, CompleteFacts
  <2>2. QED
    BY <2>1 DEF StopInv
<1>4. CASE RestartRequeued
  <2>1. requeued \in DiscItems /\ ~Stopped(requeued.txq) /\ DeviceSend(requeued)
    BY <1>4 DEF RestartRequeued, MayDequeueRequeued, TransmitItem, TypeInv
  <2>2. QED
    BY <2>1, SendingStops
<1>5. CASE RestartHead
  <2>1. MayDequeue /\ ~Stopped(Head(queue.items).txq) /\ DeviceSend(Head(queue.items))
    BY <1>5 DEF RestartHead, TransmitItem
  <2>2. Head(queue.items) \in DiscItems
    BY <2>1, HeadOK
  <2>3. QED
    BY <2>1, <2>2, SendingStops
<1>6. CASE RestartRequeues
  BY <1>6 DEF RestartRequeues, StopInv
<1>7. CASE RestartNothing
  BY <1>7 DEF RestartNothing, StopInv
<1>8. CASE UNCHANGED flowVars
  BY <1>8 DEF flowVars, StopInv
<1>9. QED
  BY <1>1, <1>2, <1>3, <1>4, <1>5, <1>6, <1>7, <1>8 DEF Next, Restart

LEMMA StopsAlways == ASSUME HeaderFits PROVE Spec => []StopInv
  BY InitStops, StopsStep, TypesAlways, PTL DEF Spec

LEMMA StopsImplied == StopInv => DeviceNeverDiscards /\ StoppedIsTransmitting
  BY DEF StopInv, DeviceNeverDiscards, StoppedIsTransmitting, StopsOK, Stopped

\* The device's queue has room for every packet that Transmit sends, provided
\* that the MTU allows for the header.
THEOREM NeverDiscards == ASSUME HeaderFits PROVE Spec => []DeviceNeverDiscards
  BY StopsAlways, StopsImplied, PTL

\* A queue that is stopped, for whichever reason, has a packet on the wire.
THEOREM StoppedHolds == ASSUME HeaderFits PROVE Spec => []StoppedIsTransmitting
  BY StopsAlways, StopsImplied, PTL

-----------------------------------------------------------------------------
(* The order of the packets *)

InOrder ==
    /\ IsRest(Waiting, accepted)
    /\ \A q \in TxQueues : IsOrder(Passed(q), accepted, SentToDevice, q)

OrderInv ==
    /\ accepted \in Seq(DiscItems) /\ Numbered(accepted)
    /\ \A i \in 1..Len(accepted) : accepted[i].id <= stats.nTotalReceivedPackets
    /\ delivered \in [TxQueues -> Seq(Nat)]
    /\ discarded = 0 => InOrder

LEMMA OrderImplied == OrderInv => NothingLostOrReordered
<1>1. ASSUME OrderInv, discarded = 0
      PROVE  /\ Waiting = SubSeq(accepted, SentToDevice + 1, Len(accepted))
             /\ \A q \in TxQueues : IsOrder(Passed(q), accepted, SentToDevice, q)
  BY <1>1 DEF OrderInv, InOrder, IsRest, SentToDevice
<1>2. QED
  BY <1>1 DEF NothingLostOrReordered

\* The types of what waits and of what is in the device.
LEMMA WaitingType ==
    ASSUME TypeInv
    PROVE  Waiting \in Seq(DiscItems) /\ queue.items \in Seq(DiscItems)
<1>1. SlotOf(requeued) \in Seq(DiscItems) /\ queue.items \in Seq(DiscItems)
  BY DEF TypeInv, QueueOK, SlotOf
<1>2. QED
  BY <1>1, ConcatProperties DEF Waiting, Line

LEMMA DevLineType ==
    ASSUME NEW t, TxOK(t)
    PROVE  DevLine(t) \in Seq(DevItems)
<1>1. SlotOf(t.current) \in Seq(DevItems) /\ t.queue.items \in Seq(DevItems)
  BY DEF TxOK, TxCounts, QueueOK, SlotOf
<1>2. QED
  BY <1>1, ConcatProperties DEF DevLine, Line

DevIds(t) == Ids(DevLine(t))

LEMMA DevIdsType ==
    ASSUME NEW t, TxOK(t)
    PROVE  /\ DevIds(t) \in Seq(Nat)
           /\ \A u, p : p \in DevItems /\ DevLine(u) = Append(DevLine(t), p) =>
                 DevIds(u) = Append(DevIds(t), p.id)
           /\ \A u : DevLine(t) # <<>> /\ DevLine(u) = Tail(DevLine(t)) =>
                 /\ DevIds(t) # <<>> /\ Head(DevIds(t)) = Head(DevLine(t)).id
                 /\ DevIds(u) = Tail(DevIds(t))
<1>1. DevLine(t) \in Seq(DevItems)
  BY DevLineType
<1>2. \A p \in DevItems : p.id \in Nat
  <2>1. ASSUME NEW p \in DevItems PROVE p.id \in Nat
    <3>1. p.id \in 1..MaxPackets
      BY DEF DevItems
    <3>2. QED
      BY <3>1
  <2>2. QED
    BY <2>1
<1>3. QED
  BY <1>1, <1>2, IdsOK DEF DevIds

LEMMA PassedIs == \A q \in TxQueues : Passed(q) = delivered[q] \o DevIds(tx[q])
  BY DEF Passed, DevIds, DevLine

LEMMA InitOrder == Init => OrderInv
<1> SUFFICES ASSUME Init PROVE OrderInv
  OBVIOUS
<1>1. accepted = <<>> /\ delivered = [q \in TxQueues |-> <<>>] /\ requeued = NoItem
      /\ queue.items = <<>>
  BY DEF Init, DiscInit, EmptyQueue
<1>2. Waiting = <<>>
  BY <1>1, SlotFacts DEF Waiting, Line
<1>3. Len(accepted) = 0 /\ Len(Waiting) = 0 /\ accepted \in Seq(DiscItems)
      /\ delivered \in [TxQueues -> Seq(Nat)]
  BY <1>1, <1>2
<1>4. IsRest(Waiting, accepted)
  BY <1>1, <1>2, <1>3, SubSeqEmpty DEF IsRest
<1>5. ASSUME NEW q \in TxQueues PROVE IsOrder(Passed(q), accepted, SentToDevice, q)
  <2>1. PICK a \in AdjLimits : tx = [r \in TxQueues |-> NewTxQueue(a)]
    BY DEF Init
  <2>2. DevLine(tx[q]) = <<>>
    BY <2>1, FlowControlAssumption, NewTxOK
  <2>3. Passed(q) = <<>>
    BY <1>1, <2>2 DEF Passed, Ids, DevLine
  <2>4. SentToDevice = 0 /\ Len(Passed(q)) = 0
    BY <1>3, <2>3 DEF SentToDevice
  <2>5. QED
    BY <2>3, <2>4 DEF IsOrder
<1>6. QED
  BY <1>1, <1>3, <1>4, <1>5 DEF OrderInv, InOrder, Numbered

\* The next packet goes to the device.
LEMMA SendingOrder ==
    ASSUME TypeInv, OrderInv, InOrder, NEW item \in DiscItems, Waiting # <<>>,
           item = Head(Waiting), Waiting' = Tail(Waiting),
           ~Stopped(item.txq), DeviceSend(item), discarded' = discarded,
           UNCHANGED <<accepted, delivered>>
    PROVE  InOrder'
<1>1. /\ Waiting \in Seq(DiscItems) /\ accepted \in Seq(DiscItems) /\ Numbered(accepted)
      /\ IsRest(Waiting, accepted) /\ delivered \in [TxQueues -> Seq(Nat)]
  BY WaitingType DEF OrderInv, InOrder
<1>2. PICK n : n = SentToDevice
  OBVIOUS
<1>3. /\ IsRest(Waiting', accepted) /\ Len(accepted) - Len(Waiting') = n + 1
      /\ n \in Nat /\ n + 1 <= Len(accepted) /\ item = accepted[n + 1]
  <2>1. PICK w : w = Waiting
    OBVIOUS
  <2>2. PICK a : a = accepted
    OBVIOUS
  <2>3. /\ w \in Seq(DiscItems) /\ a \in Seq(DiscItems) /\ IsRest(w, a) /\ w # <<>>
        /\ n = Len(a) - Len(w)
    BY <1>1, <1>2, <2>1, <2>2 DEF SentToDevice
  <2>4. /\ IsRest(Tail(w), a) /\ Len(a) - Len(Tail(w)) = n + 1
        /\ n \in Nat /\ n + 1 <= Len(a) /\ Head(w) = a[n + 1]
    BY <2>3, RestShrinks, ZenonT(90)
  <2>5. Waiting' = Tail(w) /\ item = Head(w)
    BY <2>1
  <2>6. QED
    BY <2>2, <2>4, <2>5
<1>4. SentToDevice' = n + 1 /\ IsRest(Waiting', accepted')
  BY <1>3 DEF SentToDevice
<1>5. ASSUME NEW q \in TxQueues PROVE IsOrder(Passed(q)', accepted', SentToDevice', q)
  <2>1. IsOrder(Passed(q), accepted, n, q) /\ Passed(q) = delivered[q] \o DevIds(tx[q])
    BY <1>2, PassedIs DEF InOrder
  <2>2. TxOK(tx[q]) /\ delivered[q] \in Seq(Nat)
    BY <1>1 DEF TypeInv
  <2>3. DevIds(tx[q]) \in Seq(Nat) /\ Passed(q) \in Seq(Nat)
    BY <2>1, <2>2, DevIdsType, ConcatProperties
  <2>4. Passed(q)' = delivered[q] \o DevIds(tx'[q])
    BY DEF Passed, DevIds, DevLine
  <2>5. CASE item.txq = q
    <3>1. DevLine(tx'[q]) = Append(DevLine(tx[q]), Framed(item))
      <4>1. discarded' # discarded + 1
        BY DEF TypeInv
      <4>2. QED
        BY <2>5, <4>1, DeviceSendOK
    <3>2. Framed(item) \in DevItems /\ Framed(item).id = item.id /\ item.id \in Nat
      BY DiscFacts DEF Framed
    <3>3. DevIds(tx'[q]) = Append(DevIds(tx[q]), item.id)
      BY <2>2, <3>1, <3>2, DevIdsType
    <3>4. Passed(q)' = Append(Passed(q), item.id)
      <4>1. PICK s : s = DevIds(tx[q])
        OBVIOUS
      <4>2. PICK d : d = delivered[q]
        OBVIOUS
      <4>3. d \in Seq(Nat) /\ s \in Seq(Nat) /\ item.id \in Nat
        BY <2>2, <2>3, <3>2, <4>1, <4>2
      <4>4. d \o Append(s, item.id) = Append(d \o s, item.id)
        BY <4>3, PassedOn
      <4>5. Passed(q) = d \o s /\ Passed(q)' = d \o Append(s, item.id)
        BY <2>1, <2>4, <3>3, <4>1, <4>2
      <4>6. QED
        BY <4>4, <4>5
    <3>5. IsOrder(Append(Passed(q), item.id), accepted, n + 1, q)
      BY <1>1, <1>3, <2>1, <2>3, <2>5, OrderGrows
    <3>6. QED
      BY <1>4, <3>4, <3>5
  <2>6. CASE item.txq # q
    <3>1. tx'[q] = tx[q]
      BY <2>6, DeviceSendOK
    <3>2. Passed(q)' = Passed(q)
      BY <2>1, <2>4, <3>1
    <3>3. IsOrder(Passed(q), accepted, n + 1, q)
      BY <1>1, <1>3, <2>1, <2>3, <2>6, OrderGrows
    <3>4. QED
      BY <1>4, <3>2, <3>3
  <2>7. QED
    BY <2>5, <2>6
<1>6. QED
  BY <1>4, <1>5 DEF InOrder

\* Nothing is accepted, nothing is taken off the wire.
LEMMA QuietOrder ==
    ASSUME OrderInv, UNCHANGED <<accepted, delivered>>,
           stats'.nTotalReceivedPackets = stats.nTotalReceivedPackets,
           discarded' = 0 => InOrder'
    PROVE  OrderInv'
  BY DEF OrderInv

\* A packet is accepted and waits.
LEMMA WaitingGrows ==
    ASSUME NEW e \in DiscItems
    PROVE  /\ \A x \in DiscItems \cup {NoItem}, s \in Seq(DiscItems) :
                 Line(x, Append(s, e)) = Append(Line(x, s), e)
           /\ \A w, a \in Seq(DiscItems) : IsRest(w, a) =>
                 /\ IsRest(Append(w, e), Append(a, e))
                 /\ Len(Append(a, e)) - Len(Append(w, e)) = Len(a) - Len(w)
<1>1. ASSUME NEW x \in DiscItems \cup {NoItem}, NEW s \in Seq(DiscItems)
      PROVE  Line(x, Append(s, e)) = Append(Line(x, s), e) /\ Line(x, s) \in Seq(DiscItems)
  BY LineAppend
<1>2. ASSUME NEW w \in Seq(DiscItems), NEW a \in Seq(DiscItems), IsRest(w, a)
      PROVE  /\ IsRest(Append(w, e), Append(a, e))
             /\ Len(Append(a, e)) - Len(Append(w, e)) = Len(a) - Len(w)
  BY <1>2, RestGrows
<1>3. QED
  BY <1>1, <1>2

LEMMA OrderStep == TypeInv /\ OrderInv /\ [Next]_flowVars => OrderInv'
<1> SUFFICES ASSUME TypeInv, OrderInv, [Next]_flowVars PROVE OrderInv'
  OBVIOUS
<1>0. /\ accepted \in Seq(DiscItems) /\ Numbered(accepted)
      /\ delivered \in [TxQueues -> Seq(Nat)] /\ discarded \in Nat
      /\ \A q \in TxQueues : TxOK(tx[q])
      /\ \A q \in TxQueues : Passed(q) = delivered[q] \o DevIds(tx[q])
      /\ \A q \in TxQueues : Passed(q)' = delivered'[q] \o DevIds(tx'[q])
  BY DEF OrderInv, TypeInv, Passed, DevIds, DevLine
<1>1. ASSUME NEW size \in PacketSizes, NEW r \in TxQueues, Send(size, r) PROVE OrderInv'
  <2>1. PICK item : item = Numbering(size, r)
    OBVIOUS
  <2>2. /\ item \in DiscItems /\ item.id = stats.nTotalReceivedPackets + 1
        /\ stats.nTotalReceivedPackets \in Nat
        /\ stats'.nTotalReceivedPackets = stats.nTotalReceivedPackets + 1
        /\ UNCHANGED <<requeued, tx, delivered, discarded>>
        /\ \/ UNCHANGED <<queue, accepted>>
           \/ queue' = Put(queue, item) /\ accepted' = Append(accepted, item)
    BY <1>1, <2>1, SendFacts
  <2>3. ASSUME NEW i \in 1..Len(accepted)
        PROVE  accepted[i].id \in Nat /\ accepted[i].id <= stats.nTotalReceivedPackets
    <3>1. accepted[i] \in DiscItems
      BY <1>0, ElementOfSeq
    <3>2. QED
      BY <3>1, DiscFacts DEF OrderInv
  <2>4. CASE UNCHANGED <<queue, accepted>>
    <3>1. InOrder => InOrder'
      <4>1. Waiting' = Waiting /\ \A q \in TxQueues : Passed(q)' = Passed(q)
        BY <2>2, <2>4 DEF Waiting, Passed
      <4>2. QED
        BY <2>4, <4>1 DEF InOrder, SentToDevice
    <3>2. \A i \in 1..Len(accepted) : accepted[i].id <= stats'.nTotalReceivedPackets
      BY <2>2, <2>3
    <3>3. QED
      BY <2>2, <2>4, <3>1, <3>2 DEF OrderInv
  <2>5. CASE queue' = Put(queue, item) /\ accepted' = Append(accepted, item)
    <3>1. \A i \in 1..Len(accepted) : accepted[i].id < item.id
      BY <2>2, <2>3
    <3>2. accepted' \in Seq(DiscItems) /\ Numbered(accepted')
      BY <1>0, <2>2, <2>5, <3>1, NumberedGrows, AppendProperties
    <3>3. \A i \in 1..Len(accepted') : accepted'[i].id <= stats'.nTotalReceivedPackets
      <4>1. /\ Len(accepted') = Len(accepted) + 1 /\ Len(accepted) \in Nat
            /\ \A i \in 1..Len(accepted) : accepted'[i] = accepted[i]
            /\ accepted'[Len(accepted) + 1] = item
        BY <1>0, <2>2, <2>5, AppendProperties, LenProperties
      <4>2. \A i \in 1..Len(accepted) : accepted[i].id <= stats'.nTotalReceivedPackets
        BY <2>2, <2>3
      <4>3. item.id <= stats'.nTotalReceivedPackets
        BY <2>2
      <4>4. \A i \in 1..Len(accepted') : i \in 1..Len(accepted) \/ i = Len(accepted) + 1
        BY <4>1
      <4>5. QED
        BY <4>1, <4>2, <4>3, <4>4
    <3>4. ASSUME InOrder PROVE InOrder'
      <4>1. queue'.items = Append(queue.items, item)
        BY <2>5 DEF Put
      <4>2. Waiting' = Append(Waiting, item) /\ Waiting \in Seq(DiscItems)
        <5>0. /\ requeued \in DiscItems \cup {NoItem} /\ queue.items \in Seq(DiscItems)
              /\ item \in DiscItems
          BY <2>2, WaitingType DEF TypeInv
        <5>1. Line(requeued, Append(queue.items, item)) = Append(Line(requeued, queue.items), item)
          BY ONLY <5>0, WaitingGrows
        <5>2. QED
          BY <2>2, <4>1, <5>1, WaitingType DEF Waiting
      <4>3. IsRest(Waiting', accepted')
            /\ Len(accepted') - Len(Waiting') = Len(accepted) - Len(Waiting)
        <5>1. IsRest(Waiting, accepted) /\ accepted \in Seq(DiscItems)
          BY <1>0, <3>4 DEF InOrder
        <5>2. PICK v, b : v = Waiting' /\ b = accepted'
          OBVIOUS
        <5>0. /\ v = Append(Waiting, item) /\ b = Append(accepted, item) /\ item \in DiscItems
              /\ Waiting \in Seq(DiscItems)
          BY <2>2, <2>5, <4>2, <5>2
        <5>3. IsRest(v, b) /\ Len(b) - Len(v) = Len(accepted) - Len(Waiting)
          BY ONLY <5>0, <5>1, WaitingGrows
        <5>4. QED
          BY <5>2, <5>3
      <4>4. SentToDevice' = SentToDevice
        BY <4>3 DEF SentToDevice
      <4>5. SentToDevice \in Nat /\ SentToDevice <= Len(accepted)
        <5>1. Len(accepted) \in Nat /\ Len(Waiting) \in Nat /\ Len(Waiting) <= Len(accepted)
          BY <1>0, <3>4, <4>2, LenProperties DEF InOrder, IsRest
        <5>2. QED
          BY <5>1 DEF SentToDevice
      <4>6. ASSUME NEW q \in TxQueues PROVE IsOrder(Passed(q)', accepted', SentToDevice', q)
        <5>1. Passed(q)' = Passed(q) /\ IsOrder(Passed(q), accepted, SentToDevice, q)
          BY <2>2, <3>4 DEF Passed, InOrder
        <5>2. IsOrder(Passed(q), Append(accepted, item), SentToDevice, q)
          BY <1>0, <2>2, <4>5, <5>1, OrderKept
        <5>3. QED
          BY <2>5, <4>4, <5>1, <5>2
      <4>7. QED
        BY <4>3, <4>6 DEF InOrder
    <3>5. QED
      BY <2>2, <3>2, <3>3, <3>4 DEF OrderInv
  <2>6. QED
    BY <2>2, <2>4, <2>5
<1>2. ASSUME NEW r \in TxQueues, WakeCallback(r) PROVE OrderInv'
  <2>1. /\ UNCHANGED <<discVars, queue, accepted, delivered, discarded>>
        /\ \A q \in TxQueues : DevLine(tx'[q]) = DevLine(tx[q])
    BY <1>2, WakeFacts
  <2>2. Waiting' = Waiting /\ SentToDevice' = SentToDevice
        /\ \A q \in TxQueues : Passed(q)' = Passed(q)
    BY <1>0, <2>1 DEF Waiting, SentToDevice, DevIds, discVars
  <2>3. InOrder => InOrder'
    BY <2>1, <2>2 DEF InOrder
  <2>4. QED
    BY <2>1, <2>3, QuietOrder DEF OrderInv, discVars
<1>3. ASSUME NEW r \in TxQueues, TransmitComplete(r) PROVE OrderInv'
  <2>1. /\ \A q \in TxQueues : q # r => tx'[q] = tx[q]
        /\ DevLine(tx[r]) # <<>> /\ DevLine(tx'[r]) = Tail(DevLine(tx[r]))
        /\ Head(DevLine(tx[r])) = tx[r].current /\ DevLine(tx[r]) \in Seq(DevItems)
        /\ UNCHANGED <<discVars, queue, running, quota, accepted, discarded>>
        /\ delivered' = [delivered EXCEPT ![r] = Append(@, tx[r].current.id)]
    BY <1>3, CompleteFacts
  <2>2. /\ DevIds(tx[r]) \in Seq(Nat) /\ DevIds(tx[r]) # <<>>
        /\ Head(DevIds(tx[r])) = tx[r].current.id
        /\ DevIds(tx'[r]) = Tail(DevIds(tx[r]))
    BY <1>0, <2>1, DevIdsType
  <2>3. delivered[r] \in Seq(Nat) /\ tx[r].current.id \in Nat
    BY <1>0, <2>2, HeadTailProperties
  <2>4. /\ delivered' \in [TxQueues -> Seq(Nat)]
        /\ delivered'[r] = Append(delivered[r], tx[r].current.id)
        /\ \A q \in TxQueues : q # r => delivered'[q] = delivered[q]
    BY <1>0, <2>1, <2>3, AppendProperties
  <2>5. Passed(r)' = Passed(r)
    <3>1. /\ Passed(r) = delivered[r] \o DevIds(tx[r])
          /\ Passed(r)' = delivered'[r] \o DevIds(tx'[r])
      BY <1>0
    <3>2. PICK d, s : d = delivered[r] /\ s = DevIds(tx[r])
      OBVIOUS
    <3>3. Append(d, Head(s)) \o Tail(s) = d \o s
      BY <2>2, <2>3, <3>2, PassedOn
    <3>4. QED
      BY <2>2, <2>4, <3>1, <3>2, <3>3
  <2>6. \A q \in TxQueues : Passed(q)' = Passed(q)
    BY <1>0, <2>1, <2>4, <2>5
  <2>7. Waiting' = Waiting /\ SentToDevice' = SentToDevice
    BY <2>1 DEF Waiting, SentToDevice, discVars
  <2>8. InOrder => InOrder'
    BY <2>1, <2>6, <2>7 DEF InOrder
  <2>9. QED
    BY <2>1, <2>4, <2>8 DEF OrderInv, discVars
<1>4. CASE RestartRequeued
  <2>1. /\ requeued \in DiscItems /\ ~Stopped(requeued.txq)
        /\ DeviceSend(requeued) /\ requeued' = NoItem
        /\ UNCHANGED <<stats, queue, accepted, delivered>>
    BY <1>4 DEF RestartRequeued, MayDequeueRequeued, TransmitItem, TypeInv
  <2>2. /\ Waiting # <<>> /\ requeued = Head(Waiting) /\ Waiting' = Tail(Waiting)
    <3>1. queue.items \in Seq(DiscItems) /\ NoItem \notin DiscItems
      BY WaitingType, DiscFacts
    <3>2. /\ Line(requeued, queue.items) # <<>> /\ Head(Line(requeued, queue.items)) = requeued
          /\ Tail(Line(requeued, queue.items)) = Line(NoItem, queue.items)
      <4>1. PICK s : s = queue.items
        OBVIOUS
      <4>2. PICK x : x = requeued
        OBVIOUS
      <4>3. s \in Seq(DiscItems) /\ x \in DiscItems /\ NoItem \notin DiscItems
        BY <2>1, <3>1, <4>1, <4>2
      <4>4. /\ Line(x, s) # <<>> /\ Head(Line(x, s)) = x
            /\ Tail(Line(x, s)) = Line(NoItem, s)
        BY <4>3, LineServed
      <4>5. QED
        BY <4>1, <4>2, <4>4
    <3>3. QED
      BY <2>1, <3>2 DEF Waiting
  <2>3. discarded' = discarded \/ discarded' = discarded + 1
    BY <2>1, DeviceSendOK
  <2>4. discarded' = 0 => InOrder'
    <3>1. SUFFICES ASSUME discarded' = 0 PROVE InOrder'
      OBVIOUS
    <3>2. discarded' = discarded /\ InOrder
      BY <1>0, <2>3, <3>1 DEF OrderInv
    <3>3. QED
      BY <2>1, <2>2, <3>2, SendingOrder
  <2>5. QED
    BY <2>1, <2>4, QuietOrder
<1>5. CASE RestartHead
  <2>1. PICK item : item = Head(queue.items)
    OBVIOUS
  <2>2. /\ MayDequeue /\ ~Stopped(item.txq) /\ PacketDequeued(item)
        /\ queue' = Take(queue) /\ UNCHANGED <<requeued, accepted, delivered>>
        /\ DeviceSend(item)
    BY <1>5, <2>1 DEF RestartHead, TransmitItem
  <2>3. /\ requeued = NoItem /\ item \in DiscItems /\ queue.items # <<>>
        /\ queue.items \in Seq(DiscItems) /\ queue'.items = Tail(queue.items)
        /\ stats'.nTotalReceivedPackets = stats.nTotalReceivedPackets
    BY <2>1, <2>2, HeadOK, DequeuedFacts
  <2>4. /\ Waiting # <<>> /\ item = Head(Waiting) /\ Waiting' = Tail(Waiting)
    <3>1. Waiting = <<>> \o queue.items /\ Waiting' = <<>> \o Tail(queue.items)
      BY <2>2, <2>3, SlotFacts DEF Waiting, Line
    <3>2. Waiting = queue.items /\ Waiting' = Tail(queue.items)
      BY <2>3, <3>1
    <3>3. QED
      BY <2>1, <2>3, <3>2
  <2>5. discarded' = discarded \/ discarded' = discarded + 1
    BY <2>2, <2>3, DeviceSendOK
  <2>6. discarded' = 0 => InOrder'
    <3>1. SUFFICES ASSUME discarded' = 0 PROVE InOrder'
      OBVIOUS
    <3>2. discarded' = discarded /\ InOrder
      BY <1>0, <2>5, <3>1 DEF OrderInv
    <3>3. QED
      BY <2>2, <2>3, <2>4, <3>2, SendingOrder
  <2>7. QED
    BY <2>2, <2>3, <2>6, QuietOrder
<1>6. CASE RestartRequeues
  <2>1. PICK item : item = Head(queue.items)
    OBVIOUS
  <2>2. /\ MayDequeue /\ PacketDequeued(item) /\ queue' = Take(queue) /\ requeued' = item
        /\ UNCHANGED <<tx, accepted, delivered, discarded>>
    BY <1>6, <2>1 DEF RestartRequeues
  <2>3. /\ requeued = NoItem /\ queue.items # <<>>
        /\ queue.items \in Seq(DiscItems) /\ queue'.items = Tail(queue.items)
        /\ stats'.nTotalReceivedPackets = stats.nTotalReceivedPackets
    BY <2>1, <2>2, HeadOK, DequeuedFacts
  <2>4. Waiting' = Waiting
    BY <2>1, <2>2, <2>3, DiscFacts, LineMoves DEF Waiting
  <2>5. InOrder => InOrder'
    <3>1. SentToDevice' = SentToDevice /\ \A q \in TxQueues : Passed(q)' = Passed(q)
      BY <2>2, <2>4 DEF SentToDevice, Passed
    <3>2. QED
      BY <2>2, <2>4, <3>1 DEF InOrder
  <2>6. QED
    BY <2>2, <2>3, <2>5, QuietOrder DEF OrderInv
<1>7. CASE RestartNothing \/ UNCHANGED flowVars
  <2>1. UNCHANGED <<discVars, queue, tx, accepted, delivered, discarded>>
    BY <1>7 DEF RestartNothing, flowVars
  <2>2. InOrder => InOrder'
    BY <2>1 DEF InOrder, Waiting, SentToDevice, Passed, discVars
  <2>3. QED
    BY <2>1, <2>2, QuietOrder DEF OrderInv, discVars
<1>8. QED
  BY <1>1, <1>2, <1>3, <1>4, <1>5, <1>6, <1>7 DEF Next, Restart

\* Every packet accepted is on the wire, in the device, in the slot or in the
\* queue disc, exactly once and in order, as long as the device discards none.
THEOREM NothingLostHolds == Spec => []NothingLostOrReordered
<1>1. Spec => []OrderInv
  BY InitOrder, OrderStep, TypesAlways, PTL DEF Spec
<1>2. QED
  BY <1>1, OrderImplied, PTL

-----------------------------------------------------------------------------
(* A backlog waits for a stopped queue *)

\* The packets of the queue disc, with the one in the slot.
Slots == IF requeued = NoItem THEN 0 ELSE 1
Backlog == nPackets + Slots

BacklogInv ==
    /\ Backlog <= stats.nTotalReceivedPackets
    /\ DiscUnit = PACKETS => nPackets <= DiscMaxSize
    /\ running => Backlog <= quota
    /\ BacklogWaitsForStopped

LEMMA QuotaCovers ==
    ASSUME QuotaSuffices, NEW n \in Nat, NEW k \in {0, 1}, NEW m \in Nat,
           n + k <= m, m <= MaxPackets, DiscUnit = PACKETS => n <= DiscMaxSize
    PROVE  n + k <= Quota
<1>1. Quota \in Int /\ MaxPackets \in Nat /\ DiscMaxSize \in Nat
  BY Uint32Int, FlowControlAssumption
<1>2. QED
  BY <1>1 DEF QuotaSuffices

LEMMA BacklogTypes ==
    ASSUME TypeInv
    PROVE  /\ nPackets \in Nat /\ Slots \in {0, 1} /\ quota \in Int
           /\ stats.nTotalReceivedPackets \in Nat
<1>1. nPackets \in Nat
  BY QueueFacts DEF TypeInv
<1>2. quota \in Int
  BY Uint32Int DEF TypeInv
<1>3. stats.nTotalReceivedPackets \in Nat
  BY DEF TypeInv, StatsType
<1>4. QED
  BY <1>1, <1>2, <1>3 DEF Slots

LEMMA InitBacklog == Init => BacklogInv
<1> SUFFICES ASSUME Init PROVE BacklogInv
  OBVIOUS
<1>1. nPackets = 0 /\ requeued = NoItem /\ ~running /\ stats.nTotalReceivedPackets = 0
  BY DEF Init, DiscInit, NoStats
<1>2. QED
  BY <1>1, FlowControlAssumption DEF BacklogInv, Backlog, Slots, BacklogWaitsForStopped

\* A run begins: the quota covers the backlog.
LEMMA BeginBacklog ==
    ASSUME QuotaSuffices, NEW n \in Nat, NEW k \in {0, 1}, NEW m \in Nat,
           n + k <= m, m <= MaxPackets, DiscUnit = PACKETS => n <= DiscMaxSize,
           nPackets' = n, Slots' = k, stats'.nTotalReceivedPackets = m,
           running' = TRUE, quota' = Quota
    PROVE  BacklogInv'
<1>1. n + k <= Quota
  BY QuotaCovers
<1>2. Backlog' = n + k
  BY DEF Backlog
<1>3. QED
  BY <1>1, <1>2 DEF BacklogInv, BacklogWaitsForStopped

\* The end of an iteration, with what is left in the queue disc.
LEMMA IterationBacklog ==
    ASSUME TypeInv, BacklogInv, running, NEW item \in DiscItems, NextIteration(item),
           requeued' = NoItem, NEW n \in Nat, nPackets' = n, Backlog = n + 1,
           stats'.nTotalReceivedPackets = stats.nTotalReceivedPackets
    PROVE  BacklogInv'
<1>1. /\ nPackets \in Nat /\ Slots \in {0, 1} /\ quota \in Int /\ quota \in Uint32
      /\ stats.nTotalReceivedPackets \in Nat
  BY BacklogTypes DEF TypeInv
<1>2. Backlog <= quota /\ Backlog' = nPackets' /\ nPackets' <= nPackets
  <2>1. Slots' = 0 /\ Backlog = nPackets + Slots
    BY DEF Backlog, Slots
  <2>2. Backlog' = nPackets'
    BY <2>1 DEF Backlog
  <2>3. nPackets' <= nPackets
    <3>1. PICK k \in {0, 1} : k = Slots
      BY <1>1
    <3>2. n + 1 = nPackets + k /\ nPackets \in Nat
      BY <1>1, <2>1, <3>1
    <3>3. n <= nPackets
      BY <3>1, <3>2
    <3>4. QED
      BY <3>3
  <2>4. QED
    BY <2>2, <2>3 DEF BacklogInv
<1>3. nPackets' # 0 => U32(quota - 1) = quota - 1 /\ quota - 1 # 0 /\ nPackets' <= quota - 1
  <2>1. ASSUME nPackets' # 0
        PROVE  quota - 1 \in Uint32 /\ quota - 1 # 0 /\ nPackets' <= quota - 1
    <3>1. quota >= 2 /\ nPackets' <= quota - 1
      BY <1>1, <1>2, <2>1
    <3>2. quota - 1 \in Uint32
      BY <1>1, <3>1, Modulus DEF Uint32
    <3>3. QED
      BY <1>1, <3>1, <3>2
  <2>2. QED
    BY <2>1, WrappedSmall
<1>4. item.txq \in TxQueues
  BY DiscFacts
<1>5. /\ running' => nPackets' # 0
      /\ running' => quota' = U32(quota - 1)
      /\ ~running' => nPackets' = 0 \/ IsStopped(tx'[item.txq]) \/ U32(quota - 1) = 0
  BY DEF NextIteration
<1>6. running' => Backlog' <= quota'
  BY <1>2, <1>3, <1>5
<1>7. BacklogWaitsForStopped'
  <2>1. ASSUME ~running', nPackets' > 0 PROVE Stopped(item.txq)'
    BY <1>3, <1>5, <2>1 DEF Stopped
  <2>2. QED
    BY <1>4, <2>1 DEF BacklogWaitsForStopped
<1>8. Backlog' <= stats'.nTotalReceivedPackets
  BY <1>1, <1>2 DEF BacklogInv, Backlog
<1>9. DiscUnit = PACKETS => nPackets' <= DiscMaxSize
  BY <1>1, <1>2, FlowControlAssumption DEF BacklogInv
<1>10. QED
  BY <1>6, <1>7, <1>8, <1>9 DEF BacklogInv

LEMMA BacklogStep == QuotaSuffices /\ TypeInv /\ BacklogInv /\ [Next]_flowVars => BacklogInv'
<1> SUFFICES ASSUME QuotaSuffices, TypeInv, BacklogInv, [Next]_flowVars PROVE BacklogInv'
  OBVIOUS
<1> DEFINE m == stats.nTotalReceivedPackets
<1>0. /\ nPackets \in Nat /\ Slots \in {0, 1} /\ quota \in Int /\ m \in Nat
      /\ nPackets + Slots <= m /\ m <= MaxPackets
      /\ DiscUnit = PACKETS => nPackets <= DiscMaxSize
  BY BacklogTypes DEF TypeInv, BacklogInv, Backlog
<1>1. ASSUME NEW size \in PacketSizes, NEW r \in TxQueues, Send(size, r) PROVE BacklogInv'
  <2>1. /\ stats'.nTotalReceivedPackets = m + 1 /\ m + 1 <= MaxPackets
        /\ running' = TRUE /\ quota' = Quota /\ UNCHANGED requeued
        /\ \/ nPackets' = nPackets
           \/ nPackets' = nPackets + 1 /\ (DiscUnit = PACKETS => nPackets + 1 <= DiscMaxSize)
    BY <1>1, SendFacts
  <2> HIDE DEF m
  <2>2. Slots' = Slots
    BY <2>1 DEF Slots
  <2>3. PICK n \in Nat : n = nPackets'
    BY <1>0, <2>1
  <2>4. PICK k \in {0, 1} : k = Slots
    BY <1>0
  <2>5. PICK l \in Nat : l = m + 1
    BY <1>0
  <2>6. n + k <= l /\ (DiscUnit = PACKETS => n <= DiscMaxSize)
    <3>1. CASE nPackets' = nPackets
      BY <1>0, <2>3, <2>4, <2>5, <3>1
    <3>2. CASE nPackets' = nPackets + 1 /\ (DiscUnit = PACKETS => nPackets + 1 <= DiscMaxSize)
      BY <1>0, <2>3, <2>4, <2>5, <3>2
    <3>3. QED
      BY <2>1, <3>1, <3>2
  <2>7. QED
    BY <2>1, <2>2, <2>3, <2>4, <2>5, <2>6, BeginBacklog
<1>2. ASSUME NEW r \in TxQueues, WakeCallback(r) PROVE BacklogInv'
  <2>1. UNCHANGED discVars /\ running' = TRUE /\ quota' = Quota
    BY <1>2, WakeFacts
  <2>2. nPackets' = nPackets /\ Slots' = Slots /\ stats'.nTotalReceivedPackets = m
    BY <2>1 DEF discVars, Slots
  <2> HIDE DEF m
  <2>3. QED
    BY <1>0, <2>1, <2>2, BeginBacklog
<1>3. ASSUME NEW r \in TxQueues, TransmitComplete(r) PROVE BacklogInv'
  <2>1. /\ \A q \in TxQueues : q # r => tx'[q] = tx[q]
        /\ Stopped(r) => IsStopped(tx'[r]) \/ tx'[r].wakes # 0
        /\ tx[r].wakes = 0
        /\ UNCHANGED <<discVars, running, quota>>
    BY <1>3, CompleteFacts
  <2>2. BacklogWaitsForStopped'
    <3>1. SUFFICES ASSUME ~running', \A q \in TxQueues : tx'[q].wakes = 0,
                          nPackets' > 0 \/ requeued' # NoItem
                   PROVE  \E q \in TxQueues : Stopped(q)'
      BY DEF BacklogWaitsForStopped
    <3>2. ~running /\ \A q \in TxQueues : tx[q].wakes = 0
      BY <2>1, <3>1
    <3>3. nPackets > 0 \/ requeued # NoItem
      BY <2>1, <3>1 DEF discVars
    <3>4. PICK q \in TxQueues : Stopped(q)
      BY <3>2, <3>3 DEF BacklogInv, BacklogWaitsForStopped
    <3>5. IsStopped(tx'[q])
      BY <2>1, <3>1, <3>4 DEF Stopped
    <3>6. QED
      BY <3>5 DEF Stopped
  <2>3. QED
    BY <2>1, <2>2 DEF BacklogInv, Backlog, Slots, discVars
<1>4. CASE RestartRequeued
  <2>1. /\ running /\ requeued \in DiscItems /\ NextIteration(requeued)
        /\ requeued' = NoItem /\ UNCHANGED <<nPackets, stats>>
    BY <1>4 DEF RestartRequeued, MayDequeueRequeued, TransmitItem, TypeInv
  <2>2. nPackets' \in Nat /\ nPackets' + 1 = Backlog
    BY <1>0, <2>1, DiscFacts DEF Backlog, Slots
  <2>3. QED
    BY <2>1, <2>2, IterationBacklog
<1>5. CASE RestartHead
  <2>1. PICK item : item = Head(queue.items)
    OBVIOUS
  <2>2. /\ running /\ MayDequeue /\ PacketDequeued(item) /\ queue' = Take(queue)
        /\ UNCHANGED requeued /\ NextIteration(item)
    BY <1>5, <2>1 DEF RestartHead, TransmitItem
  <2>3. /\ item \in DiscItems /\ requeued = NoItem /\ nPackets \in Nat \ {0}
        /\ nPackets' = nPackets - 1
        /\ stats'.nTotalReceivedPackets = stats.nTotalReceivedPackets
    BY <2>1, <2>2, HeadOK, DequeuedFacts
  <2>4. nPackets' \in Nat /\ nPackets' + 1 = Backlog /\ requeued' = NoItem
    BY <2>2, <2>3 DEF Backlog, Slots
  <2>5. QED
    BY <2>2, <2>3, <2>4, IterationBacklog
<1>6. CASE RestartRequeues
  <2>1. PICK item : item = Head(queue.items)
    OBVIOUS
  <2>2. /\ MayDequeue /\ PacketDequeued(item) /\ queue' = Take(queue) /\ requeued' = item
        /\ Stopped(item.txq) /\ running' = FALSE /\ UNCHANGED tx
    BY <1>6, <2>1 DEF RestartRequeues
  <2>3. /\ item \in DiscItems /\ item.txq \in TxQueues /\ requeued = NoItem
        /\ nPackets \in Nat \ {0} /\ nPackets' = nPackets - 1
        /\ stats'.nTotalReceivedPackets = m
    BY <2>1, <2>2, HeadOK, DequeuedFacts, DiscFacts
  <2>4. Backlog' <= m
    BY <1>0, <2>2, <2>3 DEF Backlog, Slots
  <2>5. Stopped(item.txq)'
    BY <2>2 DEF Stopped
  <2>6. DiscUnit = PACKETS => nPackets' <= DiscMaxSize
    BY <1>0, <2>3, FlowControlAssumption
  <2>7. QED
    BY <2>2, <2>3, <2>4, <2>5, <2>6 DEF BacklogInv, BacklogWaitsForStopped
<1>7. CASE RestartNothing
  <2>1. /\ running /\ ~MayDequeue /\ ~MayDequeueRequeued /\ running' = FALSE
        /\ UNCHANGED <<discVars, tx, quota>>
    BY <1>7 DEF RestartNothing
  <2>2. ASSUME nPackets > 0 \/ requeued # NoItem PROVE \E q \in TxQueues : Stopped(q)
    <3>1. CASE requeued # NoItem
      BY <2>1, <3>1, DiscFacts DEF MayDequeueRequeued, TypeInv
    <3>2. CASE requeued = NoItem
      <4>1. nPackets # 0 /\ nPackets = queue.nPackets
        BY <1>0, <2>2, <3>2 DEF TypeInv
      <4>2. QED
        BY <2>1, <3>2, <4>1 DEF MayDequeue, Empty
    <3>3. QED
      BY <3>1, <3>2
  <2>3. QED
    BY <2>1, <2>2 DEF BacklogInv, Backlog, Slots, BacklogWaitsForStopped, Stopped, discVars
<1>8. CASE UNCHANGED flowVars
  BY <1>8 DEF flowVars, discVars, BacklogInv, Backlog, Slots, BacklogWaitsForStopped, Stopped
<1>9. QED
  BY <1>1, <1>2, <1>3, <1>4, <1>5, <1>6, <1>7, <1>8 DEF Next, Restart

\* No wake-up is missed: packets that wait while nothing runs and no wake event
\* is pending wait for a stopped queue, provided that the quota does not end a
\* run before the queue disc is empty.
THEOREM BacklogWaits == ASSUME QuotaSuffices PROVE Spec => []BacklogWaitsForStopped
<1>1. Spec => []BacklogInv
  BY InitBacklog, BacklogStep, TypesAlways, PTL DEF Spec
<1>2. BacklogInv => BacklogWaitsForStopped
  BY DEF BacklogInv
<1>3. QED
  BY <1>1, <1>2, PTL

=============================================================================

------------------------ MODULE GspQueueDisc_proofs ------------------------
(***************************************************************************)
(* What holds of GspQueueDisc for every configuration: its types and       *)
(* accounting, and what GSP promises: the bound on the rate of forced      *)
(* drops, that the queue disc implements SingleDropQueue, and that         *)
(* GetStats reports what callers were given.                               *)
(***************************************************************************)
EXTENDS GspQueueDisc, TLAPS

-----------------------------------------------------------------------------
(* Arithmetic *)

\* Integer division: the quotient is the largest number that fits.
LEMMA DivBounds ==
    ASSUME NEW p \in Nat, NEW x \in Nat, x > 0
    PROVE  /\ p \div x \in Nat
           /\ (p \div x) * x <= p
           /\ p < (p \div x + 1) * x
  OBVIOUS

\* The sum of naturals, for the provers that do no arithmetic.
LEMMA NatSum == \A i, j \in Nat : i + j \in Nat
  OBVIOUS

\* A quotient does not grow when its divisor does.
LEMMA DivAntitone ==
    ASSUME NEW p \in Nat, NEW x \in Nat, NEW y \in Nat, 0 < x, x <= y
    PROVE  p \div y <= p \div x
<1> DEFINE s == p \div y
           t == p \div x
<1>1. s \in Nat /\ t \in Nat /\ s * y <= p /\ p < (t + 1) * x
  BY DivBounds, y > 0
<1>2. SUFFICES ASSUME t < s PROVE FALSE
  BY <1>1
<1> HIDE DEF s, t
<1>3. (t + 1) * x <= s * x
  BY <1>1, <1>2
<1>4. s * x <= s * y
  BY <1>1
<1>5. QED
  BY <1>1, <1>3, <1>4

\* A quotient does not shrink when its dividend grows.
LEMMA DivMonotone ==
    ASSUME NEW p \in Nat, NEW q \in Nat, NEW x \in Nat, x > 0, p <= q
    PROVE  p \div x <= q \div x
<1> DEFINE s == p \div x
           t == q \div x
<1>1. s \in Nat /\ t \in Nat /\ s * x <= p /\ q < (t + 1) * x
  BY DivBounds
<1>2. SUFFICES ASSUME t < s PROVE FALSE
  BY <1>1
<1> HIDE DEF s, t
<1>3. (t + 1) * x <= s * x
  BY <1>1, <1>2
<1>4. QED
  BY <1>1, <1>3

\* The constants that InitializeParams computes, and the shortest interval.
LEMMA ParamTypes ==
    /\ MaxTime \in Nat /\ PresetInterval \in Nat /\ SecThreshold \in Nat
    /\ MinInterval \in Nat
<1> USE GspAssumption
<1>1. MaxTime \in Nat /\ PresetInterval \in Nat
  BY DEF MaxTime, PresetInterval
<1>2. BitRate * TicksPerSecond \in Nat
  OBVIOUS
<1>3. SecThreshold \in Nat
  BY <1>2, DivBounds DEF SecThreshold
<1>4. MaxTime \div AdaptiveVariable \in Nat
  BY <1>1, DivBounds
<1>5. AdaptedInterval(MaxTime) \in Nat
  BY <1>1, <1>4, DivBounds DEF AdaptedInterval
<1>6. QED
  BY <1>1, <1>3, <1>5 DEF MinInterval

\* Adaptation never computes an interval shorter than that of a cumulated time
\* of m_maxTime, at which DoEnqueue clamps it.
LEMMA AdaptedIntervalBounds ==
    ASSUME NEW c \in 0..MaxTime
    PROVE  /\ AdaptedInterval(c) \in Nat
           /\ AdaptedInterval(MaxTime) <= AdaptedInterval(c)
<1> USE GspAssumption, ParamTypes
<1> DEFINE x == 1 + c \div AdaptiveVariable
           y == 1 + MaxTime \div AdaptiveVariable
<1>1. c \div AdaptiveVariable \in Nat /\ MaxTime \div AdaptiveVariable \in Nat
  BY DivBounds
<1>2. c \div AdaptiveVariable <= MaxTime \div AdaptiveVariable
  BY DivMonotone
<1>3. x \in Nat /\ y \in Nat /\ 0 < x /\ x <= y
  BY <1>1, <1>2
<1> HIDE DEF x, y
<1>4. PresetInterval \div x \in Nat /\ PresetInterval \div y <= PresetInterval \div x
  BY <1>3, DivBounds, DivAntitone
<1>5. QED
  BY <1>4 DEF AdaptedInterval, x, y

\* 64 bit arithmetic yields integers.
LEMMA Int64Type == ASSUME NEW x \in Int PROVE Int64(x) \in Int
<1>1. TwoTo64 \div 2 \in Int
  BY GspAssumption
<1> DEFINE h == TwoTo64 \div 2
<1> HIDE DEF h
<1>2. h \in Int
  BY <1>1 DEF h
<1>3. (x + h) % TwoTo64 \in Int
  BY <1>2, GspAssumption
<1>4. QED
  BY <1>2, <1>3 DEF Int64, h

\* Seconds of a Time is a Time.
LEMMA SecondsType == ASSUME NEW t \in Int PROVE Seconds(t) \in Int
  BY Int64Type, GspAssumption DEF Seconds

\* The clamp of DoEnqueue keeps the cumulated time between 0 and m_maxTime.
LEMMA ClampType == ASSUME NEW t \in Int PROVE Clamp(t) \in 0..MaxTime
  BY ParamTypes DEF Clamp

-----------------------------------------------------------------------------
(* The statistics of QueueDisc *)

\* A record of statistics, and the types of its fields.
AsRecord(s) ==
    [nTotalReceivedPackets |-> s.nTotalReceivedPackets,
     nTotalReceivedBytes |-> s.nTotalReceivedBytes,
     nTotalEnqueuedPackets |-> s.nTotalEnqueuedPackets,
     nTotalEnqueuedBytes |-> s.nTotalEnqueuedBytes,
     nTotalDequeuedPackets |-> s.nTotalDequeuedPackets,
     nTotalDequeuedBytes |-> s.nTotalDequeuedBytes,
     nTotalDroppedPacketsBeforeEnqueue |-> s.nTotalDroppedPacketsBeforeEnqueue,
     nTotalDroppedBytesBeforeEnqueue |-> s.nTotalDroppedBytesBeforeEnqueue,
     nDroppedPacketsBeforeEnqueue |-> s.nDroppedPacketsBeforeEnqueue]

FieldTypes(s) ==
    /\ s.nTotalReceivedPackets \in Nat
    /\ s.nTotalReceivedBytes \in Nat
    /\ s.nTotalEnqueuedPackets \in Nat
    /\ s.nTotalEnqueuedBytes \in Nat
    /\ s.nTotalDequeuedPackets \in Nat
    /\ s.nTotalDequeuedBytes \in Nat
    /\ s.nTotalDroppedPacketsBeforeEnqueue \in Nat
    /\ s.nTotalDroppedBytesBeforeEnqueue \in Nat
    /\ s.nDroppedPacketsBeforeEnqueue \in [Reasons -> Nat]

\* The members of StatsType are the records with fields of these types.
LEMMA StatsRecord ==
    ASSUME NEW s
    PROVE  s \in StatsType <=> s = AsRecord(s) /\ FieldTypes(s)
<1>1. ASSUME s \in StatsType PROVE s = AsRecord(s) /\ FieldTypes(s)
  BY <1>1 DEF StatsType, AsRecord, FieldTypes
<1>2. ASSUME s = AsRecord(s), FieldTypes(s) PROVE s \in StatsType
  BY <1>2 DEF StatsType, AsRecord, FieldTypes
<1>3. QED
  BY <1>1, <1>2

\* A drop before enqueue counts the packet as received and dropped, once, for
\* the one reason given.
LEMMA DropStats ==
    ASSUME NEW s \in StatsType, NEW item \in Items, NEW r \in Reasons,
           NEW t, t = DroppedBeforeEnqueue(Received(s, item), item, r)
    PROVE  /\ t \in StatsType
           /\ t.nTotalReceivedPackets = s.nTotalReceivedPackets + 1
           /\ t.nTotalReceivedBytes = s.nTotalReceivedBytes + item.size
           /\ t.nTotalDroppedPacketsBeforeEnqueue = s.nTotalDroppedPacketsBeforeEnqueue + 1
           /\ t.nTotalDroppedBytesBeforeEnqueue
                 = s.nTotalDroppedBytesBeforeEnqueue + item.size
           /\ t.nTotalEnqueuedPackets = s.nTotalEnqueuedPackets
           /\ t.nTotalEnqueuedBytes = s.nTotalEnqueuedBytes
           /\ t.nTotalDequeuedPackets = s.nTotalDequeuedPackets
           /\ t.nTotalDequeuedBytes = s.nTotalDequeuedBytes
           /\ t.nDroppedPacketsBeforeEnqueue
                 = [s.nDroppedPacketsBeforeEnqueue EXCEPT ![r] = @ + 1]
<1>1. item.size \in Nat
  BY GspAssumption DEF Items
<1>2. s = AsRecord(s) /\ FieldTypes(s)
  BY StatsRecord
<1>3. t = AsRecord(t)
  BY <1>2 DEF AsRecord, DroppedBeforeEnqueue, Received
<1>4. FieldTypes(t)
  BY <1>1, <1>2 DEF AsRecord, FieldTypes, DroppedBeforeEnqueue, Received
<1>5. t \in StatsType
  BY <1>3, <1>4, StatsRecord
<1>6. QED
  BY <1>1, <1>2, <1>5 DEF AsRecord, FieldTypes, DroppedBeforeEnqueue, Received

\* An enqueue counts the packet as received and enqueued.
LEMMA StoreStats ==
    ASSUME NEW s \in StatsType, NEW item \in Items,
           NEW t, t = EnqueuedStats(Received(s, item), item)
    PROVE  /\ t \in StatsType
           /\ t.nTotalReceivedPackets = s.nTotalReceivedPackets + 1
           /\ t.nTotalReceivedBytes = s.nTotalReceivedBytes + item.size
           /\ t.nTotalEnqueuedPackets = s.nTotalEnqueuedPackets + 1
           /\ t.nTotalEnqueuedBytes = s.nTotalEnqueuedBytes + item.size
           /\ t.nTotalDequeuedPackets = s.nTotalDequeuedPackets
           /\ t.nTotalDequeuedBytes = s.nTotalDequeuedBytes
           /\ t.nTotalDroppedPacketsBeforeEnqueue = s.nTotalDroppedPacketsBeforeEnqueue
           /\ t.nTotalDroppedBytesBeforeEnqueue = s.nTotalDroppedBytesBeforeEnqueue
           /\ t.nDroppedPacketsBeforeEnqueue = s.nDroppedPacketsBeforeEnqueue
<1>1. item.size \in Nat
  BY GspAssumption DEF Items
<1>2. s = AsRecord(s) /\ FieldTypes(s)
  BY StatsRecord
<1>3. t = AsRecord(t)
  BY <1>2 DEF AsRecord, Received, EnqueuedStats
<1>4. FieldTypes(t)
  BY <1>1, <1>2 DEF AsRecord, FieldTypes, Received, EnqueuedStats
<1>5. t \in StatsType
  BY <1>3, <1>4, StatsRecord
<1>6. QED
  BY <1>1, <1>2, <1>5 DEF AsRecord, FieldTypes, Received, EnqueuedStats

\* A dequeue counts the packet as dequeued and nothing else.
LEMMA DequeueStats ==
    ASSUME NEW s \in StatsType, NEW item \in Items,
           NEW t, t = DequeuedStats(s, item)
    PROVE  /\ t \in StatsType
           /\ t.nTotalReceivedPackets = s.nTotalReceivedPackets
           /\ t.nTotalReceivedBytes = s.nTotalReceivedBytes
           /\ t.nTotalEnqueuedPackets = s.nTotalEnqueuedPackets
           /\ t.nTotalEnqueuedBytes = s.nTotalEnqueuedBytes
           /\ t.nTotalDequeuedPackets = s.nTotalDequeuedPackets + 1
           /\ t.nTotalDequeuedBytes = s.nTotalDequeuedBytes + item.size
           /\ t.nTotalDroppedPacketsBeforeEnqueue = s.nTotalDroppedPacketsBeforeEnqueue
           /\ t.nTotalDroppedBytesBeforeEnqueue = s.nTotalDroppedBytesBeforeEnqueue
           /\ t.nDroppedPacketsBeforeEnqueue = s.nDroppedPacketsBeforeEnqueue
<1>1. item.size \in Nat
  BY GspAssumption DEF Items
<1>2. s = AsRecord(s) /\ FieldTypes(s)
  BY StatsRecord
<1>3. t = AsRecord(t)
  BY <1>2 DEF AsRecord, DequeuedStats
<1>4. FieldTypes(t)
  BY <1>1, <1>2 DEF AsRecord, FieldTypes, DequeuedStats
<1>5. t \in StatsType
  BY <1>3, <1>4, StatsRecord
<1>6. QED
  BY <1>1, <1>2, <1>5 DEF AsRecord, FieldTypes, DequeuedStats

-----------------------------------------------------------------------------
(* The internal queue *)

\* Storing an item keeps the type of a queue and counts the item.
LEMMA PutQueue ==
    ASSUME NEW q \in QueueType(Items), NEW item \in Items
    PROVE  /\ Put(q, item) \in QueueType(Items)
           /\ Put(q, item).items = Append(q.items, item)
           /\ Len(Put(q, item).items) = Len(q.items) + 1
           /\ Put(q, item).nPackets = q.nPackets + 1
           /\ Put(q, item).nBytes = q.nBytes + item.size
<1>1. item.size \in Nat
  BY GspAssumption DEF Items
<1>2. q.items \in Seq(Items) /\ q.nPackets \in Int /\ q.nBytes \in Int
  BY DEF QueueType
<1>3. /\ Append(q.items, item) \in Seq(Items)
      /\ Len(Append(q.items, item)) = Len(q.items) + 1
  BY <1>2
<1>4. QED
  BY <1>1, <1>2, <1>3 DEF Put, QueueType

\* Taking the head of a queue that holds an item.
LEMMA TakeQueue ==
    ASSUME NEW q \in QueueType(Items), q.items # <<>>
    PROVE  /\ Head(q.items) \in Items
           /\ Take(q) \in QueueType(Items)
           /\ Take(q).items = Tail(q.items)
           /\ Len(Take(q).items) = Len(q.items) - 1
           /\ Take(q).nPackets = q.nPackets - 1
           /\ Take(q).nBytes = q.nBytes - Head(q.items).size
<1>1. q.items \in Seq(Items) /\ q.nPackets \in Int /\ q.nBytes \in Int
  BY DEF QueueType
<1>2. /\ Head(q.items) \in Items
      /\ Tail(q.items) \in Seq(Items)
      /\ Len(Tail(q.items)) = Len(q.items) - 1
  BY <1>1
<1>3. Head(q.items).size \in Nat
  BY <1>2, GspAssumption DEF Items
<1>4. QED
  BY <1>1, <1>2, <1>3 DEF Take, QueueType

-----------------------------------------------------------------------------
(* Types and accounting *)

\* A packet is taken from the list of the internal queue when the counter of
\* the internal queue is not zero, so that the types depend on the accounting.
IInv == TypeOK /\ Accounting

\* What DoEnqueue computes before it looks at the packet is well typed, and the
\* interval is no shorter than the shortest one.
LEMMA AdaptTypes ==
    ASSUME TypeOK, NEW item, Adapt(item)
    PROVE  /\ state' \in Indeterminate
           /\ cumTime' \in 0..MaxTime
           /\ interval' \in Nat
           /\ GspMode = ADAPTIVE_GSP => MinInterval <= interval'
           /\ GspMode # ADAPTIVE_GSP => interval' = interval
<1>1. CASE GspMode = ADAPTIVE_GSP
  <2>1. state' \in Indeterminate
    BY <1>1 DEF Adapt, NextState, TypeOK, Indeterminate, QueueStates
  <2>2. A * timeAboveThreshold \in Int
    BY GspAssumption DEF TypeOK
  <2>3. Int64(cumTime + Int64(A * timeAboveThreshold)) \in Int
    BY <2>2, Int64Type, ParamTypes DEF TypeOK
  <2>4. NextCumTime(state') \in 0..MaxTime
    BY <2>3, Int64Type, ClampType DEF NextCumTime, TypeOK
  <2>5. cumTime' \in 0..MaxTime
    BY <1>1, <2>4 DEF Adapt
  <2>6. interval' = AdaptedInterval(cumTime')
    BY <1>1 DEF Adapt
  <2>7. interval' \in Nat /\ MinInterval <= interval'
    BY <1>1, <2>5, <2>6, AdaptedIntervalBounds DEF MinInterval
  <2>8. QED
    BY <1>1, <2>1, <2>5, <2>7
<1>2. CASE GspMode # ADAPTIVE_GSP
  BY <1>2 DEF Adapt, TypeOK
<1>3. QED
  BY <1>1, <1>2

\* DoDequeue finds a packet when the counter of the internal queue says so.
LEMMA HeadExists ==
    ASSUME IInv, ~Empty(queue)
    PROVE  queue.items # <<>> /\ HeadItem \in Items /\ HeadItem.size \in Nat
<1>1. queue \in QueueType(Items) /\ Len(queue.items) = queue.nPackets
  BY DEF IInv, TypeOK, Accounting, CountersAgree
<1>2. Len(queue.items) # 0 /\ queue.items \in Seq(Items)
  BY <1>1 DEF Empty, QueueType
<1>3. queue.items # <<>>
  BY <1>2
<1>4. HeadItem \in Items
  BY <1>1, <1>3, TakeQueue DEF HeadItem
<1>5. QED
  BY <1>3, <1>4, GspAssumption DEF Items

\* The initial state.
LEMMA InitIInv == ASSUME GspInit PROVE IInv
<1>1. stats = NoStats /\ NoStats \in StatsType
  BY DEF GspInit, DiscInit, NoStats, StatsType
<1>2. queue = EmptyQueue /\ EmptyQueue \in QueueType(Items)
  BY DEF GspInit, EmptyQueue, QueueType
<1>3. TypeOK
  <2>1. requeued \in Items \cup {NoItem} /\ nPackets \in Int /\ nBytes \in Int
    BY DEF GspInit, DiscInit
  <2>2. now \in Nat /\ timeout \in Nat /\ interval \in Nat /\ cumTime \in 0..MaxTime
        /\ lastForced \in Nat \cup {-1}
    BY GspAssumption, ParamTypes DEF GspInit
  <2>3. tiq \in Int /\ timeAboveThreshold \in Int /\ timeBelowThreshold \in Int
        /\ sent \in [packets : Nat, bytes : Nat]
    BY DEF GspInit
  <2>4. state \in Indeterminate /\ aborted \in BOOLEAN
    BY Zenon DEF GspInit
  <2>5. QED
    BY <1>1, <1>2, <2>1, <2>2, <2>3, <2>4, Zenon DEF TypeOK
<1>4. Len(queue.items) = 0 /\ queue.nPackets = 0 /\ queue.nBytes = 0
  BY <1>2 DEF EmptyQueue
<1>5. Accounting
  <2>1. nPackets = 0 /\ nBytes = 0
    BY DEF GspInit, DiscInit
  <2>2. FORCED_DROP \in Reasons /\ INTERNAL_QUEUE_DROP \in Reasons
    BY DEF Reasons
  <2>3. QED
    BY <1>1, <1>4, <2>1, <2>2 DEF Accounting, StatsBalance, CountersAgree, NoStats
<1>6. QED
  BY <1>3, <1>5 DEF IInv

\* The arrival of a packet, whichever of its three ends it meets.
LEMMA EnqueueIInv ==
    ASSUME IInv, NEW size \in PacketSizes, Enqueue(size)
    PROVE  IInv'
<1> DEFINE item == [size |-> size, stamp |-> now]
<1>1. item \in Items /\ item.size \in Nat
  BY GspAssumption DEF IInv, TypeOK, Items
<1> HIDE DEF item
<1>2. TypeOK /\ StatsBalance /\ CountersAgree /\ stats \in StatsType /\ queue \in QueueType(Items)
  BY DEF IInv, TypeOK, Accounting
<1>3. /\ Adapt(item)
      /\ ForcedDrop(item) \/ TailDrop(item) \/ Store(item)
      /\ UNCHANGED <<requeued, now, tiq, timeAboveThreshold, timeBelowThreshold,
                     aborted, sent>>
  BY DEF Enqueue, item
<1>4. state' \in Indeterminate /\ cumTime' \in 0..MaxTime /\ interval' \in Nat
  BY <1>2, <1>3, AdaptTypes
<1>5. ASSUME NEW r \in {FORCED_DROP, INTERNAL_QUEUE_DROP},
             EnqueueDrops(item, r), UNCHANGED queue,
             timeout' \in Nat, lastForced' \in Nat \cup {-1}
      PROVE  IInv'
  <2>1. r \in Reasons /\ stats' = DroppedBeforeEnqueue(Received(stats, item), item, r)
        /\ UNCHANGED <<nPackets, nBytes>>
    BY <1>5 DEF Reasons, EnqueueDrops
  <2>2. TypeOK'
    BY <1>1, <1>2, <1>3, <1>4, <1>5, <2>1, DropStats DEF TypeOK
  <2>3. /\ stats'.nTotalReceivedPackets = stats.nTotalReceivedPackets + 1
        /\ stats'.nTotalReceivedBytes = stats.nTotalReceivedBytes + item.size
        /\ stats'.nTotalDroppedPacketsBeforeEnqueue
              = stats.nTotalDroppedPacketsBeforeEnqueue + 1
        /\ stats'.nTotalDroppedBytesBeforeEnqueue
              = stats.nTotalDroppedBytesBeforeEnqueue + item.size
        /\ stats'.nTotalEnqueuedPackets = stats.nTotalEnqueuedPackets
        /\ stats'.nTotalEnqueuedBytes = stats.nTotalEnqueuedBytes
        /\ stats'.nTotalDequeuedPackets = stats.nTotalDequeuedPackets
        /\ stats'.nTotalDequeuedBytes = stats.nTotalDequeuedBytes
        /\ stats'.nDroppedPacketsBeforeEnqueue
              = [stats.nDroppedPacketsBeforeEnqueue EXCEPT ![r] = @ + 1]
    BY <1>1, <1>2, <2>1, DropStats
  <2>5. FieldTypes(stats)
    BY <1>2, StatsRecord
  <2>4. /\ stats.nDroppedPacketsBeforeEnqueue \in [Reasons -> Nat]
        /\ stats'.nDroppedPacketsBeforeEnqueue[FORCED_DROP]
            + stats'.nDroppedPacketsBeforeEnqueue[INTERNAL_QUEUE_DROP]
            = stats.nDroppedPacketsBeforeEnqueue[FORCED_DROP]
            + stats.nDroppedPacketsBeforeEnqueue[INTERNAL_QUEUE_DROP] + 1
    <3>1. stats.nDroppedPacketsBeforeEnqueue \in [Reasons -> Nat]
      BY <2>5 DEF FieldTypes
    <3>2. /\ FORCED_DROP \in Reasons /\ INTERNAL_QUEUE_DROP \in Reasons
          /\ FORCED_DROP # INTERNAL_QUEUE_DROP
      BY DEF Reasons, FORCED_DROP, INTERNAL_QUEUE_DROP
    <3>3. QED
      BY <1>5, <2>3, <3>1, <3>2
  <2>6. Accounting'
    <3>1. StatsBalance'
      BY <1>1, <1>2, <2>3, <2>4 DEF StatsBalance, StatsType
    <3>2. CountersAgree'
      BY <1>2, <1>5, <2>1, <2>3 DEF CountersAgree
    <3>3. QED
      BY <3>1, <3>2 DEF Accounting
  <2>7. QED
    BY <2>2, <2>6 DEF IInv
<1>6. CASE ForcedDrop(item)
  <2>1. timeout' \in Nat /\ lastForced' \in Nat
    <3>1. now \in Nat /\ timeout' = now + interval' /\ lastForced' = now
      BY <1>2, <1>6 DEF ForcedDrop, TypeOK
    <3>2. QED
      BY <1>4, <3>1, NatSum, Zenon
  <2>2. QED
    BY <1>5, <1>6, <2>1 DEF ForcedDrop
<1>7. CASE TailDrop(item)
  BY <1>2, <1>5, <1>7 DEF TailDrop, TypeOK
<1>8. CASE Store(item)
  <2>1. /\ UNCHANGED <<timeout, lastForced>>
        /\ queue' = Put(queue, item)
        /\ nPackets' = nPackets + 1 /\ nBytes' = nBytes + item.size
        /\ stats' = EnqueuedStats(Received(stats, item), item)
    BY <1>8 DEF Store, EnqueueStores
  <2>2. TypeOK'
    <3>1. stats' \in StatsType
      BY <1>1, <1>2, <2>1, StoreStats
    <3>2. queue' \in QueueType(Items)
      BY <1>1, <1>2, <2>1, PutQueue
    <3>3. nPackets' \in Int /\ nBytes' \in Int
      BY <1>1, <1>2, <2>1 DEF TypeOK
    <3>4. QED
      BY <1>2, <1>3, <1>4, <2>1, <3>1, <3>2, <3>3 DEF TypeOK
  <2>3. /\ stats'.nTotalReceivedPackets = stats.nTotalReceivedPackets + 1
        /\ stats'.nTotalReceivedBytes = stats.nTotalReceivedBytes + item.size
        /\ stats'.nTotalEnqueuedPackets = stats.nTotalEnqueuedPackets + 1
        /\ stats'.nTotalEnqueuedBytes = stats.nTotalEnqueuedBytes + item.size
        /\ stats'.nTotalDequeuedPackets = stats.nTotalDequeuedPackets
        /\ stats'.nTotalDequeuedBytes = stats.nTotalDequeuedBytes
        /\ stats'.nTotalDroppedPacketsBeforeEnqueue = stats.nTotalDroppedPacketsBeforeEnqueue
        /\ stats'.nTotalDroppedBytesBeforeEnqueue = stats.nTotalDroppedBytesBeforeEnqueue
        /\ stats'.nDroppedPacketsBeforeEnqueue = stats.nDroppedPacketsBeforeEnqueue
    BY <1>1, <1>2, <2>1, StoreStats
  <2>4. /\ Len(queue'.items) = Len(queue.items) + 1
        /\ queue'.nPackets = queue.nPackets + 1
        /\ queue'.nBytes = queue.nBytes + item.size
    BY <1>1, <1>2, <2>1, PutQueue
  <2>5. FieldTypes(stats)
    BY <1>2, StatsRecord
  <2>6. Accounting'
    <3>1. StatsBalance'
      BY <1>1, <1>2, <2>3 DEF StatsBalance, StatsType
    <3>2. /\ nPackets' = stats'.nTotalEnqueuedPackets - stats'.nTotalDequeuedPackets
          /\ nBytes' = stats'.nTotalEnqueuedBytes - stats'.nTotalDequeuedBytes
      <4> DEFINE ep == stats.nTotalEnqueuedPackets   dp == stats.nTotalDequeuedPackets
                 eb == stats.nTotalEnqueuedBytes     db == stats.nTotalDequeuedBytes
      <4>1. ep \in Nat /\ dp \in Nat /\ eb \in Nat /\ db \in Nat
        BY <2>5 DEF FieldTypes
      <4>2. nPackets' = (ep - dp) + 1 /\ nBytes' = (eb - db) + item.size
        BY <1>2, <2>1 DEF CountersAgree
      <4>3. /\ stats'.nTotalEnqueuedPackets = ep + 1 /\ stats'.nTotalDequeuedPackets = dp
            /\ stats'.nTotalEnqueuedBytes = eb + item.size /\ stats'.nTotalDequeuedBytes = db
        BY <2>3
      <4> HIDE DEF ep, dp, eb, db
      <4>4. QED
        BY <1>1, <4>1, <4>2, <4>3
    <3>3. queue'.nPackets = nPackets' /\ queue'.nBytes = nBytes'
          /\ Len(queue'.items) = nPackets'
      BY <1>2, <2>1, <2>4 DEF CountersAgree
    <3>4. QED
      BY <3>1, <3>2, <3>3 DEF Accounting, CountersAgree
  <2>7. QED
    BY <2>2, <2>6 DEF IInv
<1>9. QED
  BY <1>3, <1>6, <1>7, <1>8

\* What DoDequeue records of the queueing time is a Time.
LEMMA MeasureTypes ==
    ASSUME TypeOK, NEW item \in Items, Measure(item)
    PROVE  /\ tiq' \in Int
           /\ timeAboveThreshold' \in Int
           /\ timeBelowThreshold' \in Int
<1>1. item.stamp \in Nat /\ now \in Nat
  BY DEF Items, TypeOK
<1>2. QueueTime(item) \in Int
  BY <1>1, SecondsType DEF QueueTime
<1>3. /\ Seconds(QueueTime(item) - SecThreshold) \in Int
      /\ Seconds(SecThreshold - QueueTime(item)) \in Int
  BY <1>2, SecondsType, ParamTypes
<1>4. QED
  BY <1>2, <1>3 DEF Measure, TypeOK

\* The dequeue of the head, whoever asked for it and whatever becomes of it.
LEMMA DequeuedIInv ==
    ASSUME IInv, ~Empty(queue), Dequeued(HeadItem),
           requeued' \in Items \cup {NoItem},
           sent' \in [packets : Nat, bytes : Nat]
    PROVE  IInv'
<1> DEFINE item == HeadItem
<1>1. queue.items # <<>> /\ item \in Items /\ item.size \in Nat
  BY HeadExists
<1>2. TypeOK /\ StatsBalance /\ CountersAgree /\ stats \in StatsType
      /\ queue \in QueueType(Items)
  BY DEF IInv, TypeOK, Accounting
<1>3. /\ queue' = Take(queue)
      /\ nPackets' = nPackets - 1 /\ nBytes' = nBytes - item.size
      /\ stats' = DequeuedStats(stats, item)
      /\ Measure(item)
      /\ UNCHANGED <<now, timeout, interval, state, cumTime, aborted, lastForced>>
  BY DEF Dequeued, PacketDequeued
<1>4. item = Head(queue.items)
  BY DEF HeadItem
<1> HIDE DEF item
<1>5. /\ Take(queue) \in QueueType(Items)
      /\ Len(queue'.items) = Len(queue.items) - 1
      /\ queue'.nPackets = queue.nPackets - 1
      /\ queue'.nBytes = queue.nBytes - item.size
  BY <1>1, <1>2, <1>3, <1>4, TakeQueue
<1>6. TypeOK'
  <2>1. stats' \in StatsType
    BY <1>1, <1>2, <1>3, DequeueStats
  <2>2. nPackets' \in Int /\ nBytes' \in Int
    BY <1>1, <1>2, <1>3 DEF TypeOK
  <2>3. tiq' \in Int /\ timeAboveThreshold' \in Int /\ timeBelowThreshold' \in Int
    BY <1>1, <1>2, <1>3, MeasureTypes
  <2>4. QED
    BY <1>2, <1>3, <1>5, <2>1, <2>2, <2>3 DEF TypeOK
<1>7. FieldTypes(stats)
  BY <1>2, StatsRecord
<1>8. /\ stats'.nTotalReceivedPackets = stats.nTotalReceivedPackets
      /\ stats'.nTotalReceivedBytes = stats.nTotalReceivedBytes
      /\ stats'.nTotalEnqueuedPackets = stats.nTotalEnqueuedPackets
      /\ stats'.nTotalEnqueuedBytes = stats.nTotalEnqueuedBytes
      /\ stats'.nTotalDequeuedPackets = stats.nTotalDequeuedPackets + 1
      /\ stats'.nTotalDequeuedBytes = stats.nTotalDequeuedBytes + item.size
      /\ stats'.nTotalDroppedPacketsBeforeEnqueue = stats.nTotalDroppedPacketsBeforeEnqueue
      /\ stats'.nTotalDroppedBytesBeforeEnqueue = stats.nTotalDroppedBytesBeforeEnqueue
      /\ stats'.nDroppedPacketsBeforeEnqueue = stats.nDroppedPacketsBeforeEnqueue
  BY <1>1, <1>2, <1>3, DequeueStats
<1>9. StatsBalance'
  BY <1>2, <1>8 DEF StatsBalance
<1>10. /\ nPackets' = stats'.nTotalEnqueuedPackets - stats'.nTotalDequeuedPackets
       /\ nBytes' = stats'.nTotalEnqueuedBytes - stats'.nTotalDequeuedBytes
  <2> DEFINE ep == stats.nTotalEnqueuedPackets   dp == stats.nTotalDequeuedPackets
             eb == stats.nTotalEnqueuedBytes     db == stats.nTotalDequeuedBytes
  <2>1. ep \in Nat /\ dp \in Nat /\ eb \in Nat /\ db \in Nat
    BY <1>7 DEF FieldTypes
  <2>2. nPackets' = (ep - dp) - 1 /\ nBytes' = (eb - db) - item.size
    BY <1>2, <1>3 DEF CountersAgree
  <2>3. /\ stats'.nTotalEnqueuedPackets = ep /\ stats'.nTotalDequeuedPackets = dp + 1
        /\ stats'.nTotalEnqueuedBytes = eb /\ stats'.nTotalDequeuedBytes = db + item.size
    BY <1>8
  <2> HIDE DEF ep, dp, eb, db
  <2>4. QED
    BY <1>1, <2>1, <2>2, <2>3
<1>11. queue'.nPackets = nPackets' /\ queue'.nBytes = nBytes'
       /\ Len(queue'.items) = nPackets'
  BY <1>2, <1>3, <1>5 DEF CountersAgree
<1>12. QED
  BY <1>6, <1>9, <1>10, <1>11 DEF IInv, Accounting, CountersAgree

\* A packet handed to the caller keeps the type of the history variable.
LEMMA GaveType ==
    ASSUME sent \in [packets : Nat, bytes : Nat], NEW item \in Items, Gave(item)
    PROVE  sent' \in [packets : Nat, bytes : Nat]
<1>1. item.size \in Nat
  BY GspAssumption DEF Items
<1>2. QED
  BY <1>1 DEF Gave

\* No step of the queue disc disturbs the types or the accounting.
LEMMA NextIInv == ASSUME IInv, [Next]_vars PROVE IInv'
<1>1. ASSUME NEW size \in PacketSizes, Enqueue(size) PROVE IInv'
  BY <1>1, EnqueueIInv
<1>2. CASE PeekDequeued
  <2>1. ~Empty(queue) /\ Dequeued(HeadItem) /\ requeued' = HeadItem /\ UNCHANGED sent
    BY <1>2 DEF PeekDequeued
  <2>2. HeadItem \in Items
    BY <2>1, HeadExists
  <2>3. sent \in [packets : Nat, bytes : Nat]
    BY DEF IInv, TypeOK
  <2>4. QED
    BY <2>1, <2>2, <2>3, DequeuedIInv
<1>3. CASE DequeueRequeued
  <2>1. requeued \in Items /\ sent \in [packets : Nat, bytes : Nat]
    BY <1>3 DEF DequeueRequeued, IInv, TypeOK
  <2>2. sent' \in [packets : Nat, bytes : Nat]
    BY <1>3, <2>1, GaveType DEF DequeueRequeued
  <2>3. /\ requeued' = NoItem
        /\ UNCHANGED <<nPackets, nBytes, stats, gspVars, now, queue, aborted, lastForced>>
    BY <1>3 DEF DequeueRequeued
  <2>4. TypeOK'
    BY <2>2, <2>3 DEF IInv, TypeOK, gspVars
  <2>5. Accounting'
    BY <2>3 DEF IInv, Accounting, StatsBalance, CountersAgree
  <2>6. QED
    BY <2>4, <2>5 DEF IInv
<1>4. CASE DequeueHead
  <2>1. ~Empty(queue) /\ Dequeued(HeadItem) /\ Gave(HeadItem) /\ UNCHANGED requeued
    BY <1>4 DEF DequeueHead
  <2>2. HeadItem \in Items
    BY <2>1, HeadExists
  <2>3. requeued \in Items \cup {NoItem} /\ sent \in [packets : Nat, bytes : Nat]
    BY DEF IInv, TypeOK
  <2>4. sent' \in [packets : Nat, bytes : Nat]
    BY <2>1, <2>2, <2>3, GaveType
  <2>5. QED
    BY <2>1, <2>3, <2>4, DequeuedIInv
<1>5. CASE DequeueEndsProgram
  <2>1. aborted' \in BOOLEAN
    BY <1>5, Zenon DEF DequeueEndsProgram
  <2>2. UNCHANGED <<discVars, gspVars, now, queue, sent, lastForced>>
    BY <1>5 DEF DequeueEndsProgram
  <2>3. TypeOK'
    BY <2>1, <2>2 DEF IInv, TypeOK, gspVars, discVars
  <2>4. Accounting'
    BY <2>2 DEF IInv, Accounting, StatsBalance, CountersAgree, discVars
  <2>5. QED
    BY <2>3, <2>4 DEF IInv
<1>6. CASE Tick
  <2>1. now' = now + 1 /\ now \in Nat
        /\ UNCHANGED <<discVars, gspVars, queue, aborted, sent, lastForced>>
    BY <1>6 DEF Tick, IInv, TypeOK
  <2>2. now' \in Nat
    BY <2>1
  <2>3. TypeOK'
    BY <2>1, <2>2 DEF IInv, TypeOK, gspVars, discVars
  <2>4. Accounting'
    BY <2>1 DEF IInv, Accounting, StatsBalance, CountersAgree, discVars
  <2>5. QED
    BY <2>3, <2>4 DEF IInv
<1>7. CASE UNCHANGED vars
  BY <1>7 DEF IInv, TypeOK, Accounting, StatsBalance, CountersAgree, vars, discVars, gspVars
<1>8. QED
  BY <1>1, <1>2, <1>3, <1>4, <1>5, <1>6, <1>7 DEF Next

\* The types and the accounting together are inductive.
THEOREM IInvHolds == Spec => []IInv
<1>1. GspInit => IInv
  BY InitIInv
<1>2. IInv /\ [Next]_vars => IInv'
  BY NextIInv
<1>3. QED
  BY <1>1, <1>2, PTL DEF Spec

\* Every variable of gsp-queue-disc.cc keeps its type; m_cumTime stays between 0
\* and m_maxTime although its update may wrap around.
THEOREM TypeCorrect == Spec => []TypeOK
<1>1. IInv => TypeOK
  BY DEF IInv
<1>2. QED
  BY <1>1, IInvHolds, PTL

\* The statistics, the counters of the queue disc and those of its internal
\* queue agree, as QueueDisc::Enqueue and QueueDisc::Dequeue assert.
THEOREM AccountingHolds == Spec => []Accounting
<1>1. IInv => Accounting
  BY DEF IInv
<1>2. QED
  BY <1>1, IInvHolds, PTL

\* A packet that leaves does not make the queue disc larger.
LEMMA DequeuedWithin ==
    ASSUME IInv, WithinMaxSize, ~Empty(queue), Dequeued(HeadItem)
    PROVE  WithinMaxSize'
<1>1. HeadItem.size \in Nat
  BY HeadExists
<1>2. nPackets' = nPackets - 1 /\ nBytes' = nBytes - HeadItem.size
  BY DEF Dequeued, PacketDequeued
<1>3. nPackets \in Int /\ nBytes \in Int
  BY DEF IInv, TypeOK
<1>4. QED
  BY <1>1, <1>2, <1>3, GspAssumption DEF WithinMaxSize, CurrentSize

\* The queue disc is never above MaxSize, although only its internal queue compares a
\* packet with it, by counters of its own.
THEOREM WithinMaxSizeHolds == Spec => []WithinMaxSize
<1>1. GspInit => WithinMaxSize
  BY GspAssumption DEF GspInit, DiscInit, WithinMaxSize, CurrentSize
<1>2. ASSUME IInv, WithinMaxSize, [Next]_vars PROVE WithinMaxSize'
  <2>1. ASSUME NEW size \in PacketSizes, Enqueue(size) PROVE WithinMaxSize'
    <3> DEFINE item == [size |-> size, stamp |-> now]
    <3>1. ForcedDrop(item) \/ TailDrop(item) \/ Store(item)
      BY <2>1 DEF Enqueue
    <3> HIDE DEF item
    <3>2. CASE ForcedDrop(item)
      BY <1>2, <3>2 DEF ForcedDrop, EnqueueDrops, WithinMaxSize, CurrentSize
    <3>3. CASE TailDrop(item)
      BY <1>2, <3>3 DEF TailDrop, EnqueueDrops, WithinMaxSize, CurrentSize
    <3>4. CASE Store(item)
      <4>1. queue.nPackets = nPackets /\ queue.nBytes = nBytes
        BY <1>2 DEF IInv, Accounting, CountersAgree
      <4>2. nPackets' = nPackets + 1 /\ nBytes' = nBytes + item.size
        BY <3>4 DEF Store, EnqueueStores
      <4>3. ~Overfull(queue, item, Unit, MaxSize)
        BY <3>4 DEF Store
      <4>4. /\ nPackets \in Int /\ nBytes \in Int /\ MaxSize \in Nat /\ item.size \in Nat
            /\ Unit \in {PACKETS, BYTES}
        BY <1>2, GspAssumption DEF IInv, TypeOK, Units, item
      <4>5. QED
        BY <4>1, <4>2, <4>3, <4>4 DEF Overfull, WithinMaxSize, CurrentSize
    <3>5. QED
      BY <3>1, <3>2, <3>3, <3>4
  <2>2. CASE PeekDequeued \/ DequeueHead
    BY <1>2, <2>2, DequeuedWithin DEF PeekDequeued, DequeueHead
  <2>3. CASE DequeueRequeued \/ DequeueEndsProgram \/ Tick \/ UNCHANGED vars
    BY <1>2, <2>3 DEF DequeueRequeued, DequeueEndsProgram, Tick, vars, discVars,
                      WithinMaxSize, CurrentSize
  <2>4. QED
    BY <1>2, <2>1, <2>2, <2>3 DEF Next
<1>3. QED
  BY <1>1, <1>2, IInvHolds, PTL DEF Spec

-----------------------------------------------------------------------------
(* The rate of forced drops *)

\* What m_timeout has reached at least after k forced drops.
Budget(k) == Timeout + k * (MinInterval + 1)

\* Each forced drop costs the shortest no-drop interval and one tick.
LEMMA BudgetStep ==
    ASSUME NEW k \in Nat
    PROVE  Budget(k) \in Nat /\ Budget(k + 1) = Budget(k) + MinInterval + 1
<1> DEFINE g == MinInterval + 1
<1>1. g \in Nat /\ Timeout \in Nat /\ MinInterval \in Nat
  BY ParamTypes, GspAssumption
<1>2. Budget(k) = Timeout + k * g /\ Budget(k + 1) = Timeout + (k + 1) * g
  BY DEF Budget
<1>3. g = MinInterval + 1
  OBVIOUS
<1> HIDE DEF g
<1>4. k * g \in Nat /\ (k + 1) * g = k * g + g
  BY <1>1
<1>5. QED
  BY <1>1, <1>2, <1>3, <1>4

\* m_timeout is ahead of the forced drops so far and of the last of them, and
\* outside ADAPTIVE_GSP nothing changes m_interval.
TimeoutAhead ==
    /\ Budget(ForcedDrops) <= timeout
    /\ lastForced >= 0 => lastForced + MinInterval <= timeout
    /\ GspMode # ADAPTIVE_GSP => interval = Interval

\* The bound on the rate of forced drops, in terms of Budget.
RateBound == ForcedDrops > 0 => Budget(ForcedDrops - 1) + 1 <= now

\* The bound follows from m_timeout only together with the types of the state.
RInv == IInv /\ TimeoutAhead /\ RateBound

LEMMA ForcedDropsType == ASSUME TypeOK PROVE ForcedDrops \in Nat
<1>1. FieldTypes(stats)
  BY StatsRecord DEF TypeOK
<1>2. QED
  BY <1>1 DEF FieldTypes, ForcedDrops, Reasons

\* A forced drop begins after m_timeout and moves it by an interval that is no
\* shorter than MinInterval; no other end of an arrival moves it.
LEMMA EnqueueTimeout ==
    ASSUME RInv, NEW size \in PacketSizes, Enqueue(size)
    PROVE  \/ /\ now > timeout /\ timeout' = now + interval'
              /\ MinInterval <= interval' /\ interval' \in Nat
              /\ ForcedDrops' = ForcedDrops + 1
              /\ lastForced' = now
           \/ UNCHANGED <<timeout, lastForced>> /\ ForcedDrops' = ForcedDrops
<1> DEFINE item == [size |-> size, stamp |-> now]
<1>1. item \in Items /\ stats \in StatsType
  BY GspAssumption DEF RInv, IInv, TypeOK, Items
<1> HIDE DEF item
<1>2. Adapt(item) /\ (ForcedDrop(item) \/ TailDrop(item) \/ Store(item))
  BY DEF Enqueue, item
<1>3. interval' \in Nat /\ MinInterval <= interval'
  <2>1. /\ interval' \in Nat
        /\ GspMode = ADAPTIVE_GSP => MinInterval <= interval'
        /\ GspMode # ADAPTIVE_GSP => interval' = interval
    BY <1>2, AdaptTypes DEF RInv, IInv
  <2>2. GspMode # ADAPTIVE_GSP => MinInterval = interval
    BY DEF RInv, TimeoutAhead, MinInterval
  <2>3. QED
    BY <2>1, <2>2, GspAssumption
<1>4. /\ FORCED_DROP \in Reasons /\ INTERNAL_QUEUE_DROP \in Reasons
      /\ FORCED_DROP # INTERNAL_QUEUE_DROP
  BY DEF Reasons, FORCED_DROP, INTERNAL_QUEUE_DROP
<1>5. stats.nDroppedPacketsBeforeEnqueue \in [Reasons -> Nat]
  BY <1>1, StatsRecord DEF FieldTypes
<1>6. CASE ForcedDrop(item)
  <2>1. /\ stats' = DroppedBeforeEnqueue(Received(stats, item), item, FORCED_DROP)
        /\ now > timeout /\ timeout' = now + interval' /\ lastForced' = now
    BY <1>6 DEF ForcedDrop, DropsNow, EnqueueDrops
  <2>2. stats'.nDroppedPacketsBeforeEnqueue
          = [stats.nDroppedPacketsBeforeEnqueue EXCEPT ![FORCED_DROP] = @ + 1]
    BY <1>1, <1>4, <2>1, DropStats
  <2>3. ForcedDrops' = ForcedDrops + 1
    BY <1>4, <1>5, <2>2 DEF ForcedDrops
  <2>4. QED
    BY <1>3, <2>1, <2>3
<1>7. CASE TailDrop(item)
  <2>1. /\ stats' = DroppedBeforeEnqueue(Received(stats, item), item, INTERNAL_QUEUE_DROP)
        /\ UNCHANGED <<timeout, lastForced>>
    BY <1>7 DEF TailDrop, EnqueueDrops
  <2>2. stats'.nDroppedPacketsBeforeEnqueue
          = [stats.nDroppedPacketsBeforeEnqueue EXCEPT ![INTERNAL_QUEUE_DROP] = @ + 1]
    BY <1>1, <1>4, <2>1, DropStats
  <2>3. ForcedDrops' = ForcedDrops
    BY <1>4, <1>5, <2>2 DEF ForcedDrops
  <2>4. QED
    BY <2>1, <2>3
<1>8. CASE Store(item)
  <2>1. /\ stats' = EnqueuedStats(Received(stats, item), item)
        /\ UNCHANGED <<timeout, lastForced>>
    BY <1>8 DEF Store, EnqueueStores
  <2>2. stats'.nDroppedPacketsBeforeEnqueue = stats.nDroppedPacketsBeforeEnqueue
    BY <1>1, <2>1, StoreStats
  <2>3. QED
    BY <2>1, <2>2 DEF ForcedDrops
<1>9. QED
  BY <1>2, <1>6, <1>7, <1>8

\* What the other steps leave alone.
LEMMA OtherSteps ==
    ASSUME RInv,
           \/ PeekDequeued \/ DequeueRequeued \/ DequeueHead
           \/ DequeueEndsProgram \/ Tick \/ UNCHANGED vars
    PROVE  /\ UNCHANGED <<timeout, interval, lastForced>>
           /\ ForcedDrops' = ForcedDrops
           /\ now' \in Nat /\ now <= now'
<1>1. now \in Nat
  BY DEF RInv, IInv, TypeOK
<1>2. ASSUME ~Empty(queue), Dequeued(HeadItem)
      PROVE  /\ UNCHANGED <<timeout, interval, lastForced, now>>
             /\ ForcedDrops' = ForcedDrops
  <2>1. stats' = DequeuedStats(stats, HeadItem)
        /\ UNCHANGED <<timeout, interval, lastForced, now>>
    BY <1>2 DEF Dequeued, PacketDequeued
  <2>2. stats \in StatsType /\ HeadItem \in Items
    BY <1>2, HeadExists DEF RInv, IInv, TypeOK
  <2>3. stats'.nDroppedPacketsBeforeEnqueue = stats.nDroppedPacketsBeforeEnqueue
    BY <2>1, <2>2, DequeueStats
  <2>4. QED
    BY <2>1, <2>3 DEF ForcedDrops
<1>3. CASE PeekDequeued
  BY <1>1, <1>2, <1>3 DEF PeekDequeued
<1>4. CASE DequeueHead
  BY <1>1, <1>2, <1>4 DEF DequeueHead
<1>5. CASE DequeueRequeued
  BY <1>1, <1>5 DEF DequeueRequeued, gspVars, ForcedDrops
<1>6. CASE DequeueEndsProgram
  BY <1>1, <1>6 DEF DequeueEndsProgram, gspVars, discVars, ForcedDrops
<1>7. CASE Tick
  BY <1>1, <1>7 DEF Tick, gspVars, discVars, ForcedDrops
<1>8. CASE UNCHANGED vars
  BY <1>1, <1>8 DEF vars, gspVars, discVars, ForcedDrops
<1>9. QED
  BY <1>3, <1>4, <1>5, <1>6, <1>7, <1>8

\* The start: no drop yet, and m_timeout and m_interval as configured.
LEMMA InitRInv == ASSUME GspInit PROVE RInv
<1>1. IInv
  BY InitIInv
<1>2. stats = NoStats /\ timeout = Timeout /\ interval = Interval /\ lastForced = -1
  BY DEF GspInit, DiscInit
<1>3. ForcedDrops = 0
  BY <1>2 DEF ForcedDrops, NoStats, Reasons
<1>4. Budget(0) = Timeout
  BY ParamTypes, GspAssumption DEF Budget
<1>5. QED
  BY <1>1, <1>2, <1>3, <1>4, GspAssumption DEF RInv, TimeoutAhead, RateBound

\* Every step keeps the bound.
LEMMA NextRInv == ASSUME RInv, [Next]_vars PROVE RInv'
<1>1. IInv /\ IInv'
  BY NextIInv DEF RInv
<1> DEFINE k == ForcedDrops
           t == timeout
           n == now
           g == MinInterval
<1>2. k \in Nat /\ t \in Nat /\ n \in Nat /\ g \in Nat
  BY <1>1, ForcedDropsType, ParamTypes DEF IInv, TypeOK
<1>3. Budget(k) \in Nat /\ Budget(k + 1) = Budget(k) + g + 1
  BY <1>2, BudgetStep
<1>4. Budget(k) <= t /\ (k > 0 => Budget(k - 1) + 1 <= n)
  BY DEF RInv, TimeoutAhead, RateBound
<1>5. ASSUME NEW size \in PacketSizes, Enqueue(size) PROVE RInv'
  <2>1. now' = now /\ (GspMode # ADAPTIVE_GSP => interval' = interval)
    BY <1>1, <1>5, AdaptTypes DEF Enqueue, IInv
  <2>2. CASE /\ now > timeout /\ timeout' = now + interval'
             /\ MinInterval <= interval' /\ interval' \in Nat
             /\ ForcedDrops' = ForcedDrops + 1
             /\ lastForced' = now
    <3> DEFINE i == interval'
    <3>1. i \in Nat /\ g <= i /\ n > t /\ timeout' = n + i /\ ForcedDrops' = k + 1
          /\ lastForced' = n /\ now' = n
      BY <2>1, <2>2
    <3> HIDE DEF i, k, t, n, g
    <3>2. Budget(k + 1) <= n + i /\ n + g <= n + i
      BY <1>2, <1>3, <1>4, <3>1
    <3>3. TimeoutAhead'
      BY <2>1, <3>1, <3>2 DEF TimeoutAhead, RInv, g
    <3>4. (k + 1) - 1 = k /\ Budget(k) + 1 <= n
      BY <1>2, <1>3, <1>4, <3>1
    <3>5. RateBound'
      BY <3>1, <3>4 DEF RateBound
    <3>6. QED
      BY <1>1, <3>3, <3>5 DEF RInv
  <2>3. CASE UNCHANGED <<timeout, lastForced>> /\ ForcedDrops' = ForcedDrops
    BY <1>1, <2>1, <2>3 DEF RInv, TimeoutAhead, RateBound
  <2>4. QED
    BY <1>5, <2>2, <2>3, EnqueueTimeout
<1>6. ASSUME \/ PeekDequeued \/ DequeueRequeued \/ DequeueHead
             \/ DequeueEndsProgram \/ Tick \/ UNCHANGED vars
      PROVE  RInv'
  <2>1. /\ UNCHANGED <<timeout, interval, lastForced>>
        /\ ForcedDrops' = k
        /\ now' \in Nat /\ n <= now'
    BY <1>6, OtherSteps
  <2>2. TimeoutAhead'
    BY <2>1 DEF RInv, TimeoutAhead
  <2>3. k > 0 => Budget(k - 1) \in Nat
    BY <1>2, BudgetStep
  <2> DEFINE m == now'
  <2>4. m \in Nat /\ n <= m /\ (k > 0 => Budget(k - 1) + 1 <= n)
    BY <1>4, <2>1
  <2> HIDE DEF m, k, n
  <2>5. k > 0 => Budget(k - 1) + 1 <= m
    BY <1>2, <2>3, <2>4
  <2>6. RateBound'
    BY <2>1, <2>5 DEF RateBound, m
  <2>7. QED
    BY <1>1, <2>2, <2>6 DEF RInv
<1>7. QED
  BY <1>5, <1>6 DEF Next

THEOREM RInvHolds == Spec => []RInv
<1>1. GspInit => RInv
  BY InitRInv
<1>2. RInv /\ [Next]_vars => RInv'
  BY NextRInv
<1>3. QED
  BY <1>1, <1>2, PTL DEF Spec

\* However packets arrive and leave, and however ADAPTIVE_GSP adapts its
\* interval, DoEnqueue forces k drops only after the initial timeout and k - 1
\* of its shortest no-drop intervals.
THEOREM RateHolds == Spec => []ForcedDropRate
<1>1. RInv => ForcedDropRate
  <2> SUFFICES ASSUME RInv, ForcedDrops > 0
               PROVE  Timeout + 1 + (ForcedDrops - 1) * (MinInterval + 1) <= now
    BY DEF ForcedDropRate
  <2> DEFINE k == ForcedDrops - 1
             b == k * (MinInterval + 1)
  <2>1. k \in Nat /\ now \in Nat /\ Timeout \in Nat /\ MinInterval \in Nat
    BY ForcedDropsType, ParamTypes, GspAssumption DEF RInv, IInv, TypeOK
  <2>2. Budget(k) + 1 <= now /\ Budget(k) = Timeout + b
    BY DEF RInv, RateBound, Budget
  <2> HIDE DEF k
  <2>3. b \in Int
    BY <2>1
  <2> HIDE DEF b
  <2>4. Timeout + 1 + b <= now
    BY <2>1, <2>2, <2>3
  <2>5. QED
    BY <2>4 DEF b, k
<1>2. QED
  BY <1>1, RInvHolds, PTL

-----------------------------------------------------------------------------
(* Refinement *)

\* The step of SingleDropQueue that an arrival maps to.
LEMMA EnqueueRefines ==
    ASSUME RInv, NEW size \in PacketSizes, Enqueue(size)
    PROVE  [Promise!SDNext]_(Promise!sdVars)
<1> DEFINE item == [size |-> size, stamp |-> now]
<1>1. item \in Items /\ queue \in QueueType(Items) /\ queue.items \in Seq(Items)
  BY GspAssumption DEF RInv, IInv, TypeOK, Items, QueueType
<1> HIDE DEF item
<1>2. /\ ForcedDrop(item) \/ TailDrop(item) \/ Store(item)
      /\ now' = now
  BY DEF Enqueue, item
<1>3. CASE ForcedDrop(item)
  <2>1. now > timeout /\ lastForced' = now /\ UNCHANGED queue
    BY <1>3 DEF ForcedDrop, DropsNow
  <2>2. lastForced >= 0 => lastForced + MinInterval <= timeout
    BY DEF RInv, TimeoutAhead
  <2>3. now \in Nat /\ timeout \in Nat /\ lastForced \in Int /\ MinInterval \in Nat
    BY ParamTypes DEF RInv, IInv, TypeOK
  <2>4. lastForced >= 0 => now > lastForced + MinInterval
    BY <2>1, <2>2, <2>3
  <2>5. Promise!Shed
    BY <1>2, <2>1, <2>4 DEF Promise!Shed
  <2>6. QED
    BY <2>5 DEF Promise!SDNext
<1>4. CASE TailDrop(item)
  BY <1>2, <1>4 DEF TailDrop, Promise!sdVars
<1>5. CASE Store(item)
  <2>1. queue'.items = Append(queue.items, item) /\ UNCHANGED lastForced
    BY <1>1, <1>5, PutQueue DEF Store
  <2>2. /\ Append(queue.items, item) # <<>>
        /\ Append(queue.items, item)[Len(Append(queue.items, item))] = item
    BY <1>1
  <2>3. Promise!Accept
    BY <1>1, <1>2, <2>1, <2>2 DEF Promise!Accept
  <2>4. QED
    BY <2>3 DEF Promise!SDNext
<1>6. QED
  BY <1>2, <1>3, <1>4, <1>5

\* The dequeue of the head is a departure; the other steps are a passing of time
\* or not visible.
LEMMA OtherStepsRefine ==
    ASSUME RInv,
           \/ PeekDequeued \/ DequeueRequeued \/ DequeueHead
           \/ DequeueEndsProgram \/ Tick \/ UNCHANGED vars
    PROVE  [Promise!SDNext]_(Promise!sdVars)
<1>1. ASSUME ~Empty(queue), Dequeued(HeadItem) PROVE Promise!SDNext
  <2>1. queue' = Take(queue) /\ UNCHANGED <<now, lastForced>>
    BY <1>1 DEF Dequeued
  <2>2. queue.items # <<>> /\ queue'.items = Tail(queue.items)
    BY <1>1, <2>1, HeadExists, TakeQueue DEF RInv, IInv, TypeOK
  <2>3. QED
    BY <2>1, <2>2 DEF Promise!Depart, Promise!SDNext
<1>2. CASE PeekDequeued
  BY <1>1, <1>2 DEF PeekDequeued
<1>3. CASE DequeueHead
  BY <1>1, <1>3 DEF DequeueHead
<1>4. CASE DequeueRequeued
  BY <1>4 DEF DequeueRequeued, Promise!sdVars
<1>5. CASE DequeueEndsProgram
  BY <1>5 DEF DequeueEndsProgram, Promise!sdVars
<1>6. CASE Tick
  BY <1>6 DEF Tick, Promise!Pass, Promise!SDNext
<1>7. CASE UNCHANGED vars
  BY <1>7 DEF vars, Promise!sdVars
<1>8. QED
  BY <1>2, <1>3, <1>4, <1>5, <1>6, <1>7

\* GspQueueDisc, in each of its modes, is a first-in first-out queue that sheds an
\* arriving packet at most once per shortest no-drop interval.
THEOREM Refinement == Spec => IsSingleDropQueue
<1>1. GspInit => Promise!SDInit
  BY DEF GspInit, EmptyQueue, Promise!SDInit
<1>2. RInv /\ [Next]_vars => [Promise!SDNext]_(Promise!sdVars)
  BY EnqueueRefines, OtherStepsRefine DEF Next
<1>3. QED
  BY <1>1, <1>2, RInvHolds, PTL DEF Spec, IsSingleDropQueue, Promise!SDSpec

-----------------------------------------------------------------------------
(* What GetStats reports as sent *)

SInv == IInv /\ SentIsWhatWasGiven

\* What an arrival leaves of the dequeue counters, and what a dequeue adds.
LEMMA DequeueCounts ==
    ASSUME NEW s \in StatsType, NEW item \in Items, NEW r \in Reasons
    PROVE  /\ DroppedBeforeEnqueue(Received(s, item), item, r).nTotalDequeuedPackets
                 = s.nTotalDequeuedPackets
           /\ DroppedBeforeEnqueue(Received(s, item), item, r).nTotalDequeuedBytes
                 = s.nTotalDequeuedBytes
           /\ EnqueuedStats(Received(s, item), item).nTotalDequeuedPackets
                 = s.nTotalDequeuedPackets
           /\ EnqueuedStats(Received(s, item), item).nTotalDequeuedBytes
                 = s.nTotalDequeuedBytes
           /\ DequeuedStats(s, item).nTotalDequeuedPackets = s.nTotalDequeuedPackets + 1
           /\ DequeuedStats(s, item).nTotalDequeuedBytes
                 = s.nTotalDequeuedBytes + item.size
<1>1. s = AsRecord(s)
  BY StatsRecord
<1>2. QED
  BY <1>1 DEF AsRecord, DroppedBeforeEnqueue, EnqueuedStats, DequeuedStats, Received

\* SentIsWhatWasGiven when no packet waits in m_requeued, and when one does.
LEMMA SentCases ==
    /\ requeued = NoItem =>
          (SentIsWhatWasGiven <=> /\ stats.nTotalDequeuedPackets = sent.packets
                                  /\ stats.nTotalDequeuedBytes = sent.bytes)
    /\ requeued # NoItem =>
          (SentIsWhatWasGiven <=> /\ stats.nTotalDequeuedPackets - 1 = sent.packets
                                  /\ stats.nTotalDequeuedBytes - requeued.size = sent.bytes)
  BY DEF SentIsWhatWasGiven, nTotalSentPackets, nTotalSentBytes

\* The same after a step.
LEMMA SentCasesNext ==
    /\ requeued' = NoItem =>
          (SentIsWhatWasGiven' <=> /\ stats'.nTotalDequeuedPackets = sent'.packets
                                   /\ stats'.nTotalDequeuedBytes = sent'.bytes)
    /\ requeued' # NoItem =>
          (SentIsWhatWasGiven' <=>
             /\ stats'.nTotalDequeuedPackets - 1 = sent'.packets
             /\ stats'.nTotalDequeuedBytes - requeued'.size = sent'.bytes)
  BY Zenon DEF SentIsWhatWasGiven, nTotalSentPackets, nTotalSentBytes

LEMMA NextSInv == ASSUME SInv, [Next]_vars PROVE SInv'
<1>1. IInv /\ IInv'
  BY NextIInv DEF SInv
<1>2. stats \in StatsType /\ FieldTypes(stats)
      /\ sent \in [packets : Nat, bytes : Nat]
  BY <1>1, StatsRecord DEF IInv, TypeOK
<1> DEFINE dp == stats.nTotalDequeuedPackets
           db == stats.nTotalDequeuedBytes
           sp == sent.packets
           sb == sent.bytes
           Goal == /\ requeued' = NoItem =>
                         /\ stats'.nTotalDequeuedPackets = sent'.packets
                         /\ stats'.nTotalDequeuedBytes = sent'.bytes
                   /\ requeued' # NoItem =>
                         /\ stats'.nTotalDequeuedPackets - 1 = sent'.packets
                         /\ stats'.nTotalDequeuedBytes - requeued'.size = sent'.bytes
<1>3. dp \in Nat /\ db \in Nat /\ sp \in Nat /\ sb \in Nat
  BY <1>2 DEF FieldTypes
<1>4. /\ requeued = NoItem => dp = sp /\ db = sb
      /\ requeued # NoItem => dp - 1 = sp /\ db - requeued.size = sb
  BY SentCases DEF SInv
<1>5. ASSUME NEW item \in Items PROVE item # NoItem /\ item.size \in Nat
  <2>1. item # NoItem
    BY GspAssumption, Zenon DEF Items
  <2>2. item.size \in Nat
    BY GspAssumption DEF Items
  <2>3. QED
    BY <2>1, <2>2
<1>6. ASSUME NEW item \in Items, Gave(item)
      PROVE  sent'.packets = sp + 1 /\ sent'.bytes = sb + item.size
  BY <1>6 DEF Gave
<1>7. ASSUME ~Empty(queue), Dequeued(HeadItem)
      PROVE  /\ HeadItem \in Items
             /\ stats'.nTotalDequeuedPackets = dp + 1
             /\ stats'.nTotalDequeuedBytes = db + HeadItem.size
  <2>1. HeadItem \in Items
    BY <1>1, <1>7, HeadExists
  <2>2. stats' = DequeuedStats(stats, HeadItem)
    BY <1>7 DEF Dequeued, PacketDequeued
  <2>3. FORCED_DROP \in Reasons
    BY DEF Reasons
  <2>4. QED
    BY <1>2, <2>1, <2>2, <2>3, DequeueCounts
<1>8. ASSUME requeued' = requeued, sent' = sent,
             stats'.nTotalDequeuedPackets = dp, stats'.nTotalDequeuedBytes = db
      PROVE  Goal
  BY <1>4, <1>8, Zenon
<1>9. ASSUME NEW size \in PacketSizes, Enqueue(size) PROVE Goal
  <2> DEFINE item == [size |-> size, stamp |-> now]
  <2>1. item \in Items
    BY <1>1, GspAssumption DEF IInv, TypeOK, Items
  <2> HIDE DEF item
  <2>2. requeued' = requeued /\ sent' = sent
        /\ (ForcedDrop(item) \/ TailDrop(item) \/ Store(item))
    BY <1>9 DEF Enqueue, item
  <2>3. FORCED_DROP \in Reasons /\ INTERNAL_QUEUE_DROP \in Reasons
    BY DEF Reasons
  <2>4. \/ stats' = DroppedBeforeEnqueue(Received(stats, item), item, FORCED_DROP)
        \/ stats' = DroppedBeforeEnqueue(Received(stats, item), item, INTERNAL_QUEUE_DROP)
        \/ stats' = EnqueuedStats(Received(stats, item), item)
    BY <2>2 DEF ForcedDrop, TailDrop, Store, EnqueueDrops, EnqueueStores
  <2>5. stats'.nTotalDequeuedPackets = dp /\ stats'.nTotalDequeuedBytes = db
    BY <1>2, <2>1, <2>3, <2>4, DequeueCounts
  <2>6. QED
    BY <1>8, <2>2, <2>5
<1>10. ASSUME PeekDequeued PROVE Goal
  <2>1. /\ requeued = NoItem /\ requeued' = HeadItem /\ sent' = sent
        /\ ~Empty(queue) /\ Dequeued(HeadItem)
    BY <1>10 DEF PeekDequeued
  <2> DEFINE z == HeadItem.size
             dp1 == stats'.nTotalDequeuedPackets
             db1 == stats'.nTotalDequeuedBytes
  <2>2. HeadItem # NoItem /\ z \in Nat /\ dp1 = dp + 1 /\ db1 = db + z
        /\ dp = sp /\ db = sb
    BY <1>4, <1>5, <1>7, <2>1
  <2>3. dp1 - 1 = sp /\ db1 - z = sb
    <3> HIDE DEF z, dp, db, sp, sb, dp1, db1
    <3>1. QED
      BY <1>3, <2>2
  <2>4. QED
    BY <2>1, <2>2, <2>3
<1>11. ASSUME DequeueHead PROVE Goal
  <2>1. /\ requeued = NoItem /\ requeued' = NoItem /\ Gave(HeadItem)
        /\ ~Empty(queue) /\ Dequeued(HeadItem)
    BY <1>11 DEF DequeueHead
  <2>2. /\ stats'.nTotalDequeuedPackets = dp + 1
        /\ stats'.nTotalDequeuedBytes = db + HeadItem.size
        /\ dp = sp /\ db = sb
    BY <1>4, <1>7, <2>1
  <2>3. sent'.packets = sp + 1 /\ sent'.bytes = sb + HeadItem.size
    BY <1>6, <1>7, <2>1
  <2>4. QED
    BY <2>1, <2>2, <2>3
<1>12. ASSUME DequeueRequeued PROVE Goal
  <2>1. /\ requeued # NoItem /\ requeued' = NoItem
        /\ Gave(requeued) /\ stats' = stats
    BY <1>12 DEF DequeueRequeued
  <2>2. requeued \in Items
    BY <1>1, <2>1 DEF IInv, TypeOK
  <2> DEFINE z == requeued.size
  <2>3. z \in Nat /\ dp - 1 = sp /\ db - z = sb
    BY <1>4, <1>5, <2>1, <2>2
  <2>4. dp = sp + 1 /\ db = sb + z
    <3> HIDE DEF z, dp, db, sp, sb
    <3>1. QED
      BY <1>3, <2>3
  <2>5. sent'.packets = sp + 1 /\ sent'.bytes = sb + z
    BY <1>6, <2>1, <2>2
  <2>6. QED
    BY <2>1, <2>4, <2>5
<1>13. ASSUME DequeueEndsProgram \/ Tick \/ UNCHANGED vars PROVE Goal
  <2>1. stats' = stats /\ requeued' = requeued /\ sent' = sent
    BY <1>13 DEF DequeueEndsProgram, Tick, vars, discVars, gspVars
  <2>2. QED
    BY <1>8, <2>1
<1>14. Goal
  BY <1>9, <1>10, <1>11, <1>12, <1>13 DEF Next
<1>15. SentIsWhatWasGiven'
  BY <1>14, SentCasesNext, Zenon
<1>16. QED
  BY <1>1, <1>15 DEF SInv

\* GetStats takes a packet that was peeked or requeued off what was dequeued, and
\* so reports exactly what callers were given, at any point between a peek and
\* the dequeue that follows it.
THEOREM SentHolds == Spec => []SentIsWhatWasGiven
<1>1. GspInit => SInv
  <2> SUFFICES ASSUME GspInit PROVE SInv
    OBVIOUS
  <2>1. /\ stats.nTotalDequeuedPackets = 0 /\ stats.nTotalDequeuedBytes = 0
        /\ requeued = NoItem /\ sent.packets = 0 /\ sent.bytes = 0
    BY DEF GspInit, DiscInit, NoStats
  <2>2. QED
    BY <2>1, InitIInv, SentCases DEF SInv
<1>2. SInv /\ [Next]_vars => SInv'
  BY NextSInv
<1>3. SInv => SentIsWhatWasGiven
  BY DEF SInv
<1>4. QED
  BY <1>1, <1>2, <1>3, PTL DEF Spec
=============================================================================

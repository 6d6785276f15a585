---------------------------- MODULE GspQueueDisc ----------------------------
(***************************************************************************)
(* ns3::GspQueueDisc (src/traffic-control/model/gsp-queue-disc.cc): Global *)
(* Synchronization Protection, in its three variants.  A drop-tail queue   *)
(* that drops an arriving packet ahead of a full buffer when it finds the  *)
(* queue above a threshold, and then drops no other before m_timeout.      *)
(*                                                                         *)
(* Time is ns3::Time: a signed 64 bit count of ticks.  The simulator runs  *)
(* events one at a time, so that a call of Enqueue or Dequeue is atomic;   *)
(* between two events now may advance by any number of ticks.              *)
(***************************************************************************)
EXTENDS QueueDisc

CONSTANTS
    GspMode,             \* m_mode: BASIC_GSP, ADAPTIVE_GSP or DELAY_GSP
    Unit,                \* the unit of MaxSize: PACKETS or BYTES
    MaxSize,             \* the value of attribute MaxSize
    Threshold,           \* m_threshold
    Timeout,             \* attribute Timeout: the initial m_timeout
    Interval,            \* attribute Interval: the initial m_interval
    AdaptiveVariable,    \* m_adapt
    A,                   \* m_a, as the int64_t that operator* (int64_t, Time) takes
    BitRate,             \* m_linkBandwidth.GetBitRate ()
    PacketSizes,         \* the sizes of arriving packets
    TicksPerSecond,      \* the resolution of ns3::Time
    TwoTo64              \* 2^64, the modulus of ns3::Time

BASIC_GSP    == "BASIC_GSP"
ADAPTIVE_GSP == "ADAPTIVE_GSP"
DELAY_GSP    == "DELAY_GSP"

\* m_maxTime and presetInterval
MaxTime == 60 * TicksPerSecond
PresetInterval == TicksPerSecond \div 5

\* InitializeParams: m_secThreshold = Seconds (bit rate / m_threshold)
SecThreshold == (BitRate * TicksPerSecond) \div Threshold

ASSUME GspAssumption ==
    /\ GspMode \in {BASIC_GSP, ADAPTIVE_GSP, DELAY_GSP}
    /\ Unit \in Units
    /\ MaxSize \in Nat \ {0}
    /\ Threshold \in Nat \ {0}
    /\ Timeout \in Nat
    /\ Interval \in Nat
    /\ AdaptiveVariable \in Nat \ {0}
    /\ A \in Nat
    /\ BitRate \in Nat
    /\ PacketSizes \subseteq Nat
    /\ TicksPerSecond \in Nat \ {0}
    /\ TwoTo64 \in Nat \ {0}
    /\ NoItem \notin [size : PacketSizes, stamp : Nat]

VARIABLES
    now,                 \* Simulator::Now ()
    queue,               \* GetInternalQueue (0)
    timeout,             \* m_timeout
    interval,            \* m_interval
    tiq,                 \* m_tiq
    timeAboveThreshold,  \* m_timeAboveThreshold
    timeBelowThreshold,  \* m_timeBelowThreshold
    state,               \* m_state
    cumTime,             \* m_cumTime
    aborted,             \* NS_ABORT_MSG_IF has ended the simulation
    sent,                \* history: packets and bytes given to the caller
    lastForced           \* history: the time of the last forced drop, or -1

gspVars  == <<timeout, interval, tiq, timeAboveThreshold, timeBelowThreshold,
              state, cumTime>>
vars == <<discVars, gspVars, now, queue, aborted, sent, lastForced>>

Items == [size : PacketSizes, stamp : Nat]

\* The constructor leaves m_state indeterminate: any of its values, or one
\* outside the enumeration, which compares equal to none of them.
QueueStates == {"QUEUE_CLEAR", "QUEUE_OVERFLOW", "QUEUE_DRAIN"}
Indeterminate == QueueStates \cup {"NO_QUEUE_STATE"}

GspInit ==
    /\ DiscInit
    /\ now = 0
    /\ queue = EmptyQueue
    /\ timeout = Timeout
    /\ interval = Interval
    /\ tiq = 0
    /\ timeAboveThreshold = 0
    /\ timeBelowThreshold = 0
    /\ state \in Indeterminate
    /\ cumTime = 0
    /\ aborted = FALSE
    /\ sent = [packets |-> 0, bytes |-> 0]
    /\ lastForced = -1

-----------------------------------------------------------------------------
(* Time arithmetic *)

\* A result reduced to a signed 64 bit integer.
Int64(x) == ((x + TwoTo64 \div 2) % TwoTo64) - TwoTo64 \div 2

\* Seconds (t) of a Time t: the conversion operator yields its ticks, which
\* Time::From multiplies as if they were seconds.  int64x64_t::Umul ends the
\* program when the magnitude of the product needs more than 64 bits.
Seconds(t) == Int64(t * TicksPerSecond)
SecondsAborts(t) == (IF t < 0 THEN -t ELSE t) * TicksPerSecond >= TwoTo64

\* A slip: one of the two bounds is missing.
ClampAbove(t) == IF t > MaxTime THEN MaxTime ELSE t

\* std::min (m_maxTime, std::max (Seconds (0), t))
Clamp(t) == IF t < 0 THEN 0 ELSE IF t > MaxTime THEN MaxTime ELSE t

\* presetInterval / (1 + cumTime / m_adapt), in the integer division of Time
AdaptedInterval(c) == PresetInterval \div (1 + c \div AdaptiveVariable)

-----------------------------------------------------------------------------
(* Enqueue *)

\* The tests of an arriving packet compare the size of the queue disc, in its
\* own unit, plus the packet's bytes.
SizeWith(item) == CurrentSize(Unit) + item.size

\* The update of m_state in DoEnqueue of ADAPTIVE_GSP.
NextState(item) ==
    CASE SizeWith(item) > MaxSize -> "QUEUE_OVERFLOW"
      [] SizeWith(item) <= MaxSize /\ state = "QUEUE_OVERFLOW" /\ CurrentSize(Unit) = 0
            -> "QUEUE_DRAIN"
      [] SizeWith(item) <= MaxSize /\ state = "QUEUE_DRAIN" /\ CurrentSize(Unit) > Threshold
            -> "QUEUE_CLEAR"
      [] OTHER -> state

\* The update of m_cumTime, for the new value of m_state.
NextCumTime(st) ==
    LET above == Int64(cumTime + Int64(A * timeAboveThreshold))
    IN  Clamp(IF st = "QUEUE_CLEAR" THEN Int64(above - timeBelowThreshold) ELSE above)

\* What DoEnqueue does first in ADAPTIVE_GSP, whatever becomes of the packet.
Adapt(item) ==
    IF GspMode = ADAPTIVE_GSP
    THEN /\ state' = NextState(item)
         /\ cumTime' = NextCumTime(state')
         /\ interval' = AdaptedInterval(cumTime')
    ELSE UNCHANGED <<state, cumTime, interval>>

AboveThreshold(item) ==
    IF GspMode = DELAY_GSP THEN tiq > SecThreshold ELSE SizeWith(item) > Threshold

\* A slip at the end of the no-drop interval: a drop at m_timeout itself.
DropsAtTimeout(item) == AboveThreshold(item) /\ now >= timeout

\* The test of DoEnqueue: above the threshold, and past the no-drop interval.
DropsNow(item) == AboveThreshold(item) /\ now > timeout

\* A slip: the next no-drop interval starts at the end of the last one.
ForcedDropFromTimeout(item) ==
    /\ DropsNow(item)
    /\ EnqueueDrops(item, FORCED_DROP)
    /\ timeout' = timeout + interval'
    /\ lastForced' = now
    /\ UNCHANGED queue

\* DropBeforeEnqueue (item, FORCED_DROP), and the start of the no-drop interval
ForcedDrop(item) ==
    /\ DropsNow(item)
    /\ EnqueueDrops(item, FORCED_DROP)
    /\ timeout' = now + interval'
    /\ lastForced' = now
    /\ UNCHANGED queue

\* A slip: DoEnqueue drops the packet as well as the internal queue.
TailDropTwice(item) ==
    /\ ~DropsNow(item)
    /\ Overfull(queue, item, Unit, MaxSize)
    /\ stats' = DroppedBeforeEnqueue(
                    DroppedBeforeEnqueue(Received(stats, item), item, INTERNAL_QUEUE_DROP),
                    item, INTERNAL_QUEUE_DROP)
    /\ UNCHANGED <<nPackets, nBytes, queue, timeout, lastForced>>

\* The internal queue is full and its DropBeforeEnqueue trace reports the drop.
TailDrop(item) ==
    /\ ~DropsNow(item)
    /\ Overfull(queue, item, Unit, MaxSize)
    /\ EnqueueDrops(item, INTERNAL_QUEUE_DROP)
    /\ UNCHANGED <<queue, timeout, lastForced>>

\* The internal queue stores the packet; QueueDisc::Enqueue stamps it.
Store(item) ==
    /\ ~DropsNow(item)
    /\ ~Overfull(queue, item, Unit, MaxSize)
    /\ EnqueueStores(item)
    /\ queue' = Put(queue, item)
    /\ UNCHANGED <<timeout, lastForced>>

Enqueue(size) ==
    LET item == [size |-> size, stamp |-> now]
    IN  /\ ~aborted
        /\ Adapt(item)
        /\ ForcedDrop(item) \/ TailDrop(item) \/ Store(item)
        /\ UNCHANGED <<requeued, now, tiq, timeAboveThreshold, timeBelowThreshold,
                       aborted, sent>>

-----------------------------------------------------------------------------
(* Dequeue *)

\* t_queueTime of DoDequeue
QueueTime(item) == Seconds(now - item.stamp)

\* The conversions of DoDequeue that overflow 64 bits end the program.
DequeueAborts(item) ==
    \/ SecondsAborts(now - item.stamp)
    \/ GspMode = ADAPTIVE_GSP /\ SecondsAborts(QueueTime(item) - SecThreshold)

\* What DoDequeue records of the time the packet spent in the queue.
Measure(item) ==
    LET above == QueueTime(item) > SecThreshold
    IN  /\ tiq' = IF GspMode = DELAY_GSP THEN QueueTime(item) ELSE tiq
        /\ timeAboveThreshold' =
              IF GspMode = ADAPTIVE_GSP /\ above
              THEN Seconds(QueueTime(item) - SecThreshold) ELSE timeAboveThreshold
        /\ timeBelowThreshold' =
              IF GspMode = ADAPTIVE_GSP /\ ~above
              THEN Seconds(SecThreshold - QueueTime(item)) ELSE timeBelowThreshold

\* QueueDisc::Dequeue of a non-empty queue disc
Dequeued(item) ==
    /\ ~DequeueAborts(item)
    /\ queue' = Take(queue)
    /\ PacketDequeued(item)
    /\ Measure(item)
    /\ UNCHANGED <<now, timeout, interval, state, cumTime, aborted, lastForced>>

Gave(item) == sent' = [packets |-> sent.packets + 1, bytes |-> sent.bytes + item.size]

HeadItem == Head(queue.items)

\* QueueDisc::PeekDequeued, by which a parent queue disc asks for the next
\* packet without taking it: the packet is dequeued and kept in m_requeued.
PeekDequeued ==
    /\ ~aborted
    /\ requeued = NoItem /\ ~Empty(queue)
    /\ Dequeued(HeadItem)
    /\ requeued' = HeadItem
    /\ UNCHANGED sent

\* QueueDisc::DequeuePeeked when a packet was peeked (or requeued).
DequeueRequeued ==
    /\ ~aborted
    /\ requeued # NoItem
    /\ Gave(requeued)
    /\ requeued' = NoItem
    /\ UNCHANGED <<nPackets, nBytes, stats, gspVars, now, queue, aborted, lastForced>>

\* QueueDisc::DequeuePeeked otherwise, and QueueDisc::Dequeue by DequeuePacket.
DequeueHead ==
    /\ ~aborted
    /\ requeued = NoItem /\ ~Empty(queue)
    /\ Dequeued(HeadItem)
    /\ Gave(HeadItem)
    /\ UNCHANGED requeued

\* A dequeue or a peek for which DoDequeue ends the program.
DequeueEndsProgram ==
    /\ ~aborted
    /\ requeued = NoItem /\ ~Empty(queue)
    /\ DequeueAborts(HeadItem)
    /\ aborted' = TRUE
    /\ UNCHANGED <<discVars, gspVars, now, queue, sent, lastForced>>

\* The simulator runs a later event.
Tick ==
    /\ ~aborted
    /\ now' = now + 1
    /\ UNCHANGED <<discVars, gspVars, queue, aborted, sent, lastForced>>

Next ==
    \/ \E size \in PacketSizes : Enqueue(size)
    \/ PeekDequeued
    \/ DequeueRequeued
    \/ DequeueHead
    \/ DequeueEndsProgram
    \/ Tick

Spec == GspInit /\ [][Next]_vars

-----------------------------------------------------------------------------
(* Properties *)

\* The values of the variables that gsp-queue-disc.cc declares and updates.
TypeOK ==
    /\ stats \in StatsType
    /\ nPackets \in Int /\ nBytes \in Int
    /\ requeued \in Items \cup {NoItem}
    /\ queue \in QueueType(Items)
    /\ now \in Nat /\ timeout \in Nat /\ interval \in Nat
    /\ tiq \in Int /\ timeAboveThreshold \in Int /\ timeBelowThreshold \in Int
    /\ state \in Indeterminate
    /\ cumTime \in 0..MaxTime
    /\ aborted \in BOOLEAN
    /\ sent \in [packets : Nat, bytes : Nat]
    /\ lastForced \in Nat \cup {-1}

\* The identities that queue-disc.h documents of the statistics: every packet
\* received was dropped or enqueued, each drop for one reason.
StatsBalance ==
    /\ stats.nTotalReceivedPackets =
          stats.nTotalDroppedPacketsBeforeEnqueue + stats.nTotalEnqueuedPackets
    /\ stats.nTotalReceivedBytes =
          stats.nTotalDroppedBytesBeforeEnqueue + stats.nTotalEnqueuedBytes
    /\ stats.nTotalDroppedPacketsBeforeEnqueue =
          stats.nDroppedPacketsBeforeEnqueue[FORCED_DROP]
          + stats.nDroppedPacketsBeforeEnqueue[INTERNAL_QUEUE_DROP]

\* The counters of the queue disc, those of its internal queue, the content of
\* the latter and the statistics agree.
CountersAgree ==
    /\ nPackets = stats.nTotalEnqueuedPackets - stats.nTotalDequeuedPackets
    /\ nBytes = stats.nTotalEnqueuedBytes - stats.nTotalDequeuedBytes
    /\ queue.nPackets = nPackets
    /\ queue.nBytes = nBytes
    /\ Len(queue.items) = nPackets

\* What QueueDisc::Enqueue and QueueDisc::Dequeue assert of the counters and
\* the trace callbacks have to keep true.
Accounting == StatsBalance /\ CountersAgree

\* GetStats reports as sent exactly what callers were given, at any point
\* between a peek of a parent queue disc and the dequeue that follows it.
SentIsWhatWasGiven ==
    /\ nTotalSentPackets = sent.packets
    /\ nTotalSentBytes = sent.bytes

\* The shortest no-drop interval DoEnqueue can start.
MinInterval == IF GspMode = ADAPTIVE_GSP THEN AdaptedInterval(MaxTime) ELSE Interval

ForcedDrops == stats.nDroppedPacketsBeforeEnqueue[FORCED_DROP]

\* The promise of GSP, for any arrivals, departures and adaptation: k forced
\* drops need the initial timeout and k - 1 further no-drop intervals to pass,
\* so that a burst of arrivals loses one packet and not one per flow.
ForcedDropRate ==
    ForcedDrops > 0 => Timeout + 1 + (ForcedDrops - 1) * (MinInterval + 1) <= now

\* The queue disc implements its promise: it is a first-in first-out queue, and
\* two forced drops are more than the shortest no-drop interval apart, also
\* when ADAPTIVE_GSP shortens the interval or its arithmetic wraps around.
Promise == INSTANCE SingleDropQueue WITH
    Packets <- Items, Gap <- MinInterval,
    clock <- now, waiting <- queue.items, lastShed <- lastForced
IsSingleDropQueue == Promise!SDSpec

\* The buffer limit holds whatever the threshold tests let through: they do
\* not look at MaxSize, and the queue disc relies on the internal queue.
WithinMaxSize == CurrentSize(Unit) <= MaxSize

-----------------------------------------------------------------------------
(* What the documentation says and the code does not do *)

ForcedDropStep == ForcedDrops' > ForcedDrops

\* Attribute Threshold is the "limit in queue size above which the packet should
\* be dropped": a forced drop finds the queue, with the packet, above it in the
\* unit of the queue's size.
ThresholdIsQueueSize ==
    [][ ForcedDropStep =>
          Threshold < (IF Unit = PACKETS THEN nPackets + 1
                       ELSE nBytes + (stats'.nTotalReceivedBytes - stats.nTotalReceivedBytes)) ]_vars
==============================================================================

------------------------------ MODULE QueueDisc ------------------------------
(***************************************************************************)
(* The part of ns3::QueueDisc (src/traffic-control/model/queue-disc.cc)    *)
(* that every queue disc inherits: its own packet and byte counters        *)
(* (m_nPackets, m_nBytes), the statistics (m_stats) and the slot for a     *)
(* packet that was dequeued but not sent (m_requeued).                     *)
(*                                                                         *)
(* The counters are kept apart from those of the internal queue: they      *)
(* change only through the trace callbacks PacketEnqueued, PacketDequeued  *)
(* and DropBeforeEnqueue.                                                  *)
(***************************************************************************)
EXTENDS Queue

VARIABLES
    nPackets,            \* m_nPackets
    nBytes,              \* m_nBytes
    stats,               \* m_stats
    requeued             \* m_requeued: an item, or NoItem

discVars == <<nPackets, nBytes, stats, requeued>>

\* The reasons a packet of the modelled queue discs is dropped for.
FORCED_DROP         == "Forced drop"
INTERNAL_QUEUE_DROP == "Dropped by internal queue"
LIMIT_EXCEEDED_DROP == "Queue disc limit exceeded"
Reasons == {FORCED_DROP, INTERNAL_QUEUE_DROP, LIMIT_EXCEEDED_DROP}

\* QueueDisc::Stats.  The drops are those before enqueue; no modelled queue
\* disc drops a packet after dequeuing it.
StatsType ==
    [nTotalReceivedPackets : Nat, nTotalReceivedBytes : Nat,
     nTotalEnqueuedPackets : Nat, nTotalEnqueuedBytes : Nat,
     nTotalDequeuedPackets : Nat, nTotalDequeuedBytes : Nat,
     nTotalDroppedPacketsBeforeEnqueue : Nat,
     nTotalDroppedBytesBeforeEnqueue : Nat,
     nDroppedPacketsBeforeEnqueue : [Reasons -> Nat]]

NoStats ==
    [nTotalReceivedPackets |-> 0, nTotalReceivedBytes |-> 0,
     nTotalEnqueuedPackets |-> 0, nTotalEnqueuedBytes |-> 0,
     nTotalDequeuedPackets |-> 0, nTotalDequeuedBytes |-> 0,
     nTotalDroppedPacketsBeforeEnqueue |-> 0,
     nTotalDroppedBytesBeforeEnqueue |-> 0,
     nDroppedPacketsBeforeEnqueue |-> [r \in Reasons |-> 0]]

DiscInit ==
    /\ nPackets = 0
    /\ nBytes = 0
    /\ stats = NoStats
    /\ requeued = NoItem

\* The first two statements of QueueDisc::Enqueue.
Received(s, item) ==
    [s EXCEPT !.nTotalReceivedPackets = @ + 1,
              !.nTotalReceivedBytes = @ + item.size]

\* QueueDisc::DropBeforeEnqueue
DroppedBeforeEnqueue(s, item, reason) ==
    [s EXCEPT !.nTotalDroppedPacketsBeforeEnqueue = @ + 1,
              !.nTotalDroppedBytesBeforeEnqueue = @ + item.size,
              !.nDroppedPacketsBeforeEnqueue[reason] = @ + 1]

\* A call of QueueDisc::Enqueue whose DoEnqueue drops the item.
EnqueueDrops(item, reason) ==
    /\ stats' = DroppedBeforeEnqueue(Received(stats, item), item, reason)
    /\ UNCHANGED <<nPackets, nBytes>>

\* What QueueDisc::PacketEnqueued counts.
EnqueuedStats(s, item) ==
    [s EXCEPT !.nTotalEnqueuedPackets = @ + 1,
              !.nTotalEnqueuedBytes = @ + item.size]

\* A call of QueueDisc::Enqueue whose DoEnqueue stores the item: the Enqueue
\* trace of the internal queue calls QueueDisc::PacketEnqueued.
EnqueueStores(item) ==
    /\ nPackets' = nPackets + 1
    /\ nBytes' = nBytes + item.size
    /\ stats' = EnqueuedStats(Received(stats, item), item)

\* What QueueDisc::PacketDequeued counts.
DequeuedStats(s, item) ==
    [s EXCEPT !.nTotalDequeuedPackets = @ + 1,
              !.nTotalDequeuedBytes = @ + item.size]

\* QueueDisc::PacketDequeued, called by the Dequeue trace of the internal queue.
PacketDequeued(item) ==
    /\ nPackets' = nPackets - 1
    /\ nBytes' = nBytes - item.size
    /\ stats' = DequeuedStats(stats, item)

\* QueueDisc::GetCurrentSize ().GetValue (), in the unit of GetMaxSize ().
CurrentSize(unit) == IF unit = PACKETS THEN nPackets ELSE nBytes

\* A slip: the packet kept in m_requeued counts as sent.
SentWithRequeued == stats.nTotalDequeuedPackets

\* QueueDisc::GetStats: the packets and bytes handed to the device or parent.
nTotalSentPackets ==
    IF requeued = NoItem THEN stats.nTotalDequeuedPackets
                         ELSE stats.nTotalDequeuedPackets - 1
nTotalSentBytes ==
    IF requeued = NoItem THEN stats.nTotalDequeuedBytes
                         ELSE stats.nTotalDequeuedBytes - requeued.size
==============================================================================

--------------------------- MODULE NetDeviceQueue ---------------------------
(***************************************************************************)
(* ns3::NetDeviceQueue (net-device-queue-interface.h and .cc in            *)
(* src/network/utils):                                                     *)
(* the state of one transmission queue of a device and the callbacks that  *)
(* the traces of the device's packet queue run.                            *)
(*                                                                         *)
(* A transmission queue is a record of the device's packet queue (queue),  *)
(* the packet being transmitted (current), the two reasons to be stopped,  *)
(* the queue limits (dql) and the number of scheduled wake events (wakes). *)
(***************************************************************************)
EXTENDS Queue, DynamicQueueLimits

CONSTANTS
    DevUnit,             \* the unit of the device queue's MaxSize
    DevMaxSize,          \* and its value
    Mtu,                 \* NetDevice::GetMtu ()
    UseQueueLimits       \* whether a QueueLimits object is installed

NewTxQueue(adjLimit) ==
    [queue |-> EmptyQueue, current |-> NoItem,
     stoppedByDevice |-> FALSE, stoppedByQueueLimits |-> FALSE,
     dql |-> ResetLimits(adjLimit), wakes |-> 0]

\* NetDeviceQueue::IsStopped
IsStopped(t) == t.stoppedByDevice \/ t.stoppedByQueueLimits

\* NetDeviceQueue::Stop
Stop(t) == [t EXCEPT !.stoppedByDevice = TRUE]

\* A slip: no callback.
WakeSilently(t) == [t EXCEPT !.stoppedByDevice = FALSE]

\* NetDeviceQueue::Wake: the wake callback is an event of its own.
Wake(t) ==
    [t EXCEPT !.stoppedByDevice = FALSE,
              !.wakes = @ + (IF t.stoppedByDevice THEN 1 ELSE 0)]

\* NetDeviceQueue::NotifyQueuedBytes
NotifyQueuedBytes(t, bytes) ==
    IF ~UseQueueLimits THEN t
    ELSE LET d == Queued(t.dql, bytes)
         IN  [t EXCEPT !.dql = d,
                       !.stoppedByQueueLimits = @ \/ Available(d) < 0]

\* A slip: the queue restarts without the callback.
TransmittedSilently(t, bytes) ==
    IF ~UseQueueLimits \/ bytes = 0 THEN {t}
    ELSE {[t EXCEPT !.dql = d, !.stoppedByQueueLimits = @ /\ Available(d) < 0] :
             d \in Completed(t.dql, bytes)}

\* NetDeviceQueue::NotifyTransmittedBytes: the records it may leave.
NotifyTransmittedBytes(t, bytes) ==
    IF ~UseQueueLimits \/ bytes = 0 THEN {t}
    ELSE {IF Available(d) < 0 THEN [t EXCEPT !.dql = d]
          ELSE [t EXCEPT !.dql = d,
                         !.stoppedByQueueLimits = FALSE,
                         !.wakes = @ + (IF t.stoppedByQueueLimits THEN 1 ELSE 0)] :
             d \in Completed(t.dql, bytes)}

\* A slip: room for one byte is taken for room for a packet.
HasSomeRoom(q) ==
    \/ DevUnit = PACKETS /\ q.nPackets < DevMaxSize
    \/ DevUnit = BYTES   /\ q.nBytes < DevMaxSize

\* Whether the packet queue can store another packet, of any size up to the MTU.
HasRoom(q) ==
    \/ DevUnit = PACKETS /\ q.nPackets < DevMaxSize
    \/ DevUnit = BYTES   /\ q.nBytes + Mtu <= DevMaxSize

\* A slip: the queue limits are told of the whole queue.
EnqueueNotifiesBacklog(t, p) ==
    LET s == [t EXCEPT !.queue = Put(@, p)]
        u == NotifyQueuedBytes(s, s.queue.nBytes)
    IN  IF HasRoom(u.queue) THEN u ELSE Stop(u)

\* Queue::DoEnqueue of a packet that fits, and NetDeviceQueue::PacketEnqueued
EnqueuePacket(t, p) ==
    LET u == NotifyQueuedBytes([t EXCEPT !.queue = Put(@, p)], p.size)
    IN  IF HasRoom(u.queue) THEN u ELSE Stop(u)

\* Queue::DoDequeue of a non-empty queue, NetDeviceQueue::PacketDequeued, and
\* the start of the transmission of the packet: the records they may leave.
DequeueAndTransmit(t) ==
    LET p == Head(t.queue.items)
    IN  {[(IF HasRoom(u.queue) THEN Wake(u) ELSE u) EXCEPT !.current = p] :
            u \in NotifyTransmittedBytes([t EXCEPT !.queue = Take(@)], p.size)}
==============================================================================

---------------------------- MODULE FlowControl ----------------------------
(***************************************************************************)
(* The path of a packet from the upper layers to the wire, and the flow    *)
(* control between its stages:                                             *)
(*                                                                         *)
(*   TrafficControlLayer::Send -> QueueDisc::Enqueue, QueueDisc::Run       *)
(*     -> QueueDisc::Transmit -> NetDevice::Send -> the device's queue     *)
(*     -> TransmitStart ... TransmitComplete -> NetDeviceQueue::Wake       *)
(*     -> (an event of its own) QueueDisc::Run                             *)
(*                                                                         *)
(* The root queue disc is a FifoQueueDisc, woken by every transmission     *)
(* queue of the device (WAKE_ROOT).  With one transmission queue the       *)
(* device is a PointToPointNetDevice; with several, each of them           *)
(* transmits in the same way and on its own.                               *)
(*                                                                         *)
(* The simulator runs one event at a time.  The loop of Run is one step    *)
(* per packet here, and no other event happens while running is TRUE.      *)
(***************************************************************************)
EXTENDS QueueDisc, NetDeviceQueue

CONSTANTS
    TxQueues,            \* the indices of the transmission queues
    DiscUnit,            \* the unit of the queue disc's MaxSize
    DiscMaxSize,         \* and its value
    Quota,               \* m_quota
    HeaderSize,          \* the bytes of the link layer header
    PacketSizes,         \* the sizes of the packets of the upper layers
    AdjLimits,           \* the values m_adjLimit may be found to have
    MaxPackets           \* bound: the packets the upper layers send

ASSUME FlowControlAssumption ==
    /\ TxQueues # {}
    /\ DiscUnit \in Units /\ DevUnit \in Units
    /\ DiscMaxSize \in Nat \ {0} /\ DevMaxSize \in Nat \ {0}
    /\ Quota \in Uint32
    /\ HeaderSize \in Nat /\ Mtu \in Nat /\ MaxPackets \in Nat
    /\ Mtu + HeaderSize \in Uint32
    /\ PacketSizes \subseteq 1..Mtu
    /\ AdjLimits \subseteq Uint32 /\ AdjLimits # {}
    /\ UseQueueLimits \in BOOLEAN

VARIABLES
    queue,               \* GetInternalQueue (0) of the root queue disc
    tx,                  \* the transmission queues of the device
    running,             \* m_running
    quota,               \* the local variable quota of Run
    accepted,            \* history: the packets the queue disc has enqueued
    delivered,           \* history: the packets each queue has transmitted
    discarded            \* history: the packets the device had no room for

flowVars == <<discVars, queue, tx, running, quota, accepted, delivered, discarded>>

Init ==
    /\ DiscInit
    /\ queue = EmptyQueue
    /\ \E a \in AdjLimits : tx = [q \in TxQueues |-> NewTxQueue(a)]
    /\ running = FALSE
    /\ quota = 0
    /\ accepted = <<>>
    /\ delivered = [q \in TxQueues |-> <<>>]
    /\ discarded = 0

-----------------------------------------------------------------------------
(* Events *)

\* RunBegin, and the initialisation of quota
RunBegin ==
    /\ running' = TRUE
    /\ quota' = Quota

\* TrafficControlLayer::Send of a packet for transmission queue q: Enqueue,
\* with FifoQueueDisc::DoEnqueue, and then Run.
Send(size, q) ==
    LET item == [id |-> stats.nTotalReceivedPackets + 1, size |-> size, txq |-> q]
        full == \/ DiscUnit = PACKETS /\ nPackets + 1 > DiscMaxSize
                \/ DiscUnit = BYTES   /\ nBytes + size > DiscMaxSize
    IN  /\ ~running
        /\ stats.nTotalReceivedPackets < MaxPackets
        /\ \/ /\ full
              /\ EnqueueDrops(item, LIMIT_EXCEEDED_DROP)
              /\ UNCHANGED <<queue, accepted>>
           \/ /\ ~full
              /\ EnqueueStores(item)
              /\ queue' = Put(queue, item)
              /\ accepted' = Append(accepted, item)
        /\ RunBegin
        /\ UNCHANGED <<requeued, tx, delivered, discarded>>

\* The wake callback of a transmission queue: Run of the root queue disc.
WakeCallback(q) ==
    /\ ~running
    /\ tx[q].wakes > 0
    /\ tx' = [tx EXCEPT ![q].wakes = @ - 1]
    /\ RunBegin
    /\ UNCHANGED <<discVars, queue, accepted, delivered, discarded>>

\* PointToPointNetDevice::TransmitComplete.  A wake event of q that is still
\* pending was scheduled by the dequeue that preceded the start of this very
\* transmission, for a time that was then the present, and so runs first.
TransmitComplete(q) ==
    /\ ~running
    /\ tx[q].current # NoItem /\ tx[q].wakes = 0
    /\ \E t \in (IF Empty(tx[q].queue) THEN {[tx[q] EXCEPT !.current = NoItem]}
                 ELSE DequeueAndTransmit(tx[q])) :
          tx' = [tx EXCEPT ![q] = t]
    /\ delivered' = [delivered EXCEPT ![q] = Append(@, tx[q].current.id)]
    /\ UNCHANGED <<discVars, queue, running, quota, accepted, discarded>>

-----------------------------------------------------------------------------
(* The loop of QueueDisc::Run *)

Stopped(q) == IsStopped(tx[q])

\* Whether DequeuePacket asks the queue disc for a packet.  A device with one
\* transmission queue is asked first whether it takes one.
MayDequeue ==
    /\ requeued = NoItem
    /\ \/ \E q, r \in TxQueues : q # r
       \/ \A q \in TxQueues : ~Stopped(q)
    /\ ~Empty(queue)

MayDequeueRequeued == requeued # NoItem /\ ~Stopped(requeued.txq)

\* NetDevice::Send of the item to its transmission queue.
DeviceSend(item) ==
    LET q == item.txq
        p == [id |-> item.id, size |-> item.size + HeaderSize]
    IN  IF Overfull(tx[q].queue, p, DevUnit, DevMaxSize)
        THEN /\ tx' = [tx EXCEPT ![q] = Stop(@)]
             /\ discarded' = discarded + 1
        ELSE /\ \E t \in (IF tx[q].current = NoItem
                         THEN DequeueAndTransmit(EnqueuePacket(tx[q], p))
                         ELSE {EnqueuePacket(tx[q], p)}) :
                   tx' = [tx EXCEPT ![q] = t]
             /\ UNCHANGED discarded

\* The end of an iteration of Run: it breaks when the quota is used up, and
\* the loop ends when Transmit left the queue disc empty or the queue stopped.
NextIteration(item) ==
    LET left == U32(quota - 1)
        more == nPackets' # 0 /\ ~IsStopped(tx'[item.txq])
    IN  /\ quota' = IF more THEN left ELSE quota
        /\ running' = (more /\ left # 0)

\* Restart with an item whose transmission queue is not stopped.
TransmitItem(item) ==
    /\ DeviceSend(item)
    /\ NextIteration(item)
    /\ UNCHANGED <<accepted, delivered>>

\* Restart of the requeued packet.
RestartRequeued ==
    /\ running
    /\ MayDequeueRequeued
    /\ requeued' = NoItem
    /\ UNCHANGED <<nPackets, nBytes, stats, queue>>
    /\ TransmitItem(requeued)

\* Restart of the packet at the head of the queue disc.
RestartHead ==
    LET item == Head(queue.items)
    IN  /\ running
        /\ MayDequeue
        /\ ~Stopped(item.txq)
        /\ PacketDequeued(item)
        /\ queue' = Take(queue)
        /\ UNCHANGED requeued
        /\ TransmitItem(item)

\* A slip: the packet goes back to the tail of the queue disc.
RequeueAtTail ==
    LET item == Head(queue.items)
    IN  /\ running
        /\ MayDequeue
        /\ Stopped(item.txq)
        /\ queue' = Put(Take(queue), item)
        /\ running' = FALSE
        /\ UNCHANGED <<discVars, tx, quota, accepted, delivered, discarded>>

\* Restart of a packet that Transmit finds destined to a stopped queue: Requeue.
RestartRequeues ==
    LET item == Head(queue.items)
    IN  /\ running
        /\ MayDequeue
        /\ Stopped(item.txq)
        /\ PacketDequeued(item)
        /\ queue' = Take(queue)
        /\ requeued' = item
        /\ running' = FALSE
        /\ UNCHANGED <<tx, quota, accepted, delivered, discarded>>

\* DequeuePacket returns no packet: RunEnd.
RestartNothing ==
    /\ running
    /\ ~MayDequeue /\ ~MayDequeueRequeued
    /\ running' = FALSE
    /\ UNCHANGED <<discVars, queue, tx, quota, accepted, delivered, discarded>>

Restart == RestartRequeued \/ RestartHead \/ RestartRequeues \/ RestartNothing

Next ==
    \/ \E size \in PacketSizes, q \in TxQueues : Send(size, q)
    \/ \E q \in TxQueues : WakeCallback(q)
    \/ \E q \in TxQueues : TransmitComplete(q)
    \/ Restart

\* The loop of Run goes on, and the simulator runs every scheduled event: the
\* wake callbacks and the ends of transmissions.  The upper layers may stop.
Fairness ==
    /\ WF_flowVars(Restart)
    /\ \A q \in TxQueues : WF_flowVars(WakeCallback(q)) /\ WF_flowVars(TransmitComplete(q))

Spec == Init /\ [][Next]_flowVars /\ Fairness

-----------------------------------------------------------------------------
(* Properties *)

DiscItems == [id : 1..MaxPackets, size : PacketSizes, txq : TxQueues]
DevItems == [id : 1..MaxPackets, size : {s + HeaderSize : s \in PacketSizes}]

ASSUME NoItemAssumption == NoItem \notin DiscItems \cup DevItems

\* The values of the state of the queue disc and of the transmission queues.
TypeOK ==
    /\ stats \in StatsType
    /\ requeued \in DiscItems \cup {NoItem}
    /\ queue.items \in Seq(DiscItems) /\ queue.nPackets \in Nat /\ queue.nBytes \in Nat
    /\ running \in BOOLEAN
    /\ quota \in Uint32
    /\ \A q \in TxQueues :
          /\ tx[q].queue.items \in Seq(DevItems)
          /\ tx[q].queue.nPackets \in Nat /\ tx[q].queue.nBytes \in Nat
          /\ tx[q].current \in DevItems \cup {NoItem}
          /\ tx[q].stoppedByDevice \in BOOLEAN
          /\ tx[q].stoppedByQueueLimits \in BOOLEAN
          /\ tx[q].dql \in LimitsType
          /\ tx[q].wakes \in 0..2

\* The identifiers of a sequence of packets.
Ids(s) == [i \in 1..Len(s) |-> s[i].id]
\* A place for one packet and the queue behind it, in the order they are served.
SlotOf(x) == IF x = NoItem THEN <<>> ELSE <<x>>
Line(x, s) == SlotOf(x) \o s

\* What waits to be sent to the device, and how many packets were sent to it.
Waiting == Line(requeued, queue.items)
SentToDevice == Len(accepted) - Len(Waiting)
\* The identifiers of the packets of queue q on the wire, or further, or in the device.
Passed(q) == delivered[q] \o Ids(Line(tx[q].current, tx[q].queue.items))

\* s holds the identifiers of the first n packets of a that go to queue q, each
\* once and in their order.
IsOrder(s, a, n, q) ==
    /\ \A i, j \in 1..Len(s) : i < j => s[i] < s[j]
    /\ \A i \in 1..Len(s) : \E k \in 1..n : a[k].txq = q /\ a[k].id = s[i]
    /\ \A k \in 1..n : a[k].txq = q => \E i \in 1..Len(s) : s[i] = a[k].id

\* Every packet the queue disc accepted is, exactly once and in the order of
\* acceptance, on the wire or in the device, by way of its transmission queue,
\* or in the slot m_requeued or the queue disc: no combination of stops, wakes,
\* requeues and interrupted runs loses, repeats or reorders one.  Packets are
\* numbered as they come.
NothingLostOrReordered ==
    discarded = 0 =>
        /\ Waiting = SubSeq(accepted, SentToDevice + 1, Len(accepted))
        /\ \A q \in TxQueues : IsOrder(Passed(q), accepted, SentToDevice, q)

\* What the administrator of a device in bytes sees to: the queue holds a packet
\* of the MTU, and the MTU allows for the header, which the test for room forgets.
HeaderFits ==
    DevUnit = BYTES =>
        Mtu <= DevMaxSize /\ \A s \in PacketSizes : s + HeaderSize <= Mtu

\* One call of Run may transmit everything the queue disc can hold: when the
\* quota ends a run, nothing schedules the next one.
QuotaSuffices ==
    Quota >= MaxPackets \/ (DiscUnit = PACKETS /\ Quota > DiscMaxSize)

\* "This should not happen if the device correctly stops the queue": the
\* device's queue always has room for the packet that Transmit sends to it.
DeviceNeverDiscards == discarded = 0

\* A queue that is stopped has a transmission in progress, or its wake event
\* is already scheduled: whichever of the two reasons stopped it, something
\* will restart it.
StoppedIsTransmitting ==
    \A q \in TxQueues : Stopped(q) => tx[q].current # NoItem

\* When no wake event is pending and Run is not running, a queue disc that
\* holds packets waits for a stopped transmission queue: no wake-up is missed.
BacklogWaitsForStopped ==
    (~running /\ (\A q \in TxQueues : tx[q].wakes = 0)
              /\ (nPackets > 0 \/ requeued # NoItem))
        => \E q \in TxQueues : Stopped(q)

\* "Can't complete more than what's in queue": the bytes that the queue limits
\* count as outstanding are those of the device's packet queue, so that the
\* assertion of Completed holds at every dequeue, wrapping counters included.
OutstandingIsQueued ==
    UseQueueLimits =>
        \A q \in TxQueues : Outstanding(tx[q].dql) = U32(tx[q].queue.nBytes)

Delivered(item) == \E i \in 1..Len(delivered[item.txq]) : delivered[item.txq][i] = item.id

\* "All the packets enqueued in the queue disc are correctly transmitted, even
\* if the device queue is stopped when the last packet is received from the
\* upper layers."  As they send at most MaxPackets packets, this says of each
\* accepted packet that it is eventually transmitted.
AcceptedIsTransmitted == []<>(\A k \in 1..Len(accepted) : Delivered(accepted[k]))
==============================================================================

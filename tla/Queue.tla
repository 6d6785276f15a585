-------------------------------- MODULE Queue --------------------------------
(***************************************************************************)
(* ns3::Queue<Item> and ns3::DropTailQueue<Item> (src/network/utils).      *)
(* A queue is a record of the items it holds, head first, and of the two   *)
(* traced counters m_nPackets and m_nBytes, which the code maintains by    *)
(* increments and which every size test of the code reads.                 *)
(*                                                                         *)
(* An item is a record with at least a field size, its length in bytes.    *)
(***************************************************************************)
EXTENDS Integers, Sequences

CONSTANT NoItem          \* the null pointer of an item

\* QueueSizeUnit
PACKETS == "PACKETS"
BYTES   == "BYTES"
Units   == {PACKETS, BYTES}

EmptyQueue == [items |-> <<>>, nPackets |-> 0, nBytes |-> 0]

QueueType(Items) == [items : Seq(Items), nPackets : Int, nBytes : Int]

\* A slip: the test leaves out the arriving item.
OverfullAlready(q, item, unit, max) ==
    \/ unit = PACKETS /\ q.nPackets > max
    \/ unit = BYTES   /\ q.nBytes > max

\* GetCurrentSize () + item > GetMaxSize (): one more packet, or the bytes of
\* the item, according to the unit of the queue's maximum size.
Overfull(q, item, unit, max) ==
    \/ unit = PACKETS /\ q.nPackets + 1 > max
    \/ unit = BYTES   /\ q.nBytes + item.size > max

\* The part of Queue::DoEnqueue that stores the item at the tail.
Put(q, item) ==
    [items    |-> Append(q.items, item),
     nPackets |-> q.nPackets + 1,
     nBytes   |-> q.nBytes + item.size]

\* Queue::DoDequeue and Queue::DoRemove find the queue empty by its counter.
Empty(q) == q.nPackets = 0

\* The part of Queue::DoDequeue (and Queue::DoRemove) that takes the head.
Take(q) ==
    [items    |-> Tail(q.items),
     nPackets |-> q.nPackets - 1,
     nBytes   |-> q.nBytes - Head(q.items).size]
==============================================================================

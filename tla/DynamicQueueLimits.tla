------------------------- MODULE DynamicQueueLimits -------------------------
(***************************************************************************)
(* ns3::DynamicQueueLimits (src/network/utils/dynamic-queue-limits.cc):    *)
(* the byte queue limits that a transmission queue of a device may carry.  *)
(* The object is a record d of its counters; every operator returns the    *)
(* record after the call.  The counters are 32 bit unsigned integers that  *)
(* are meant to wrap around, and differences are taken in signed 32 bits.  *)
(***************************************************************************)
EXTENDS Integers

CONSTANTS
    TwoTo32,             \* 2^32, the modulus of the counters
    MinLimit,            \* m_minLimit
    MaxLimit             \* m_maxLimit

ASSUME LimitsAssumption ==
    /\ TwoTo32 \in Nat \ {0} /\ TwoTo32 % 2 = 0
    /\ MinLimit \in 0..(TwoTo32 - 1)
    /\ MaxLimit \in 0..(TwoTo32 \div 2 - TwoTo32 \div 16)
    /\ MaxLimit < TwoTo32 \div 2      \* of a modulus below 16, too

Uint32 == 0..(TwoTo32 - 1)
U32(x) == x % TwoTo32
\* The signed reading of a 32 bit pattern.
S32(x) == IF U32(x) < TwoTo32 \div 2 THEN U32(x) ELSE U32(x) - TwoTo32
AtLeast(x, y) == IF x > y THEN x ELSE y
AtMost(x, y) == IF x < y THEN x ELSE y

\* DynamicQueueLimits::Posdiff
Posdiff(a, b) == AtLeast(S32(S32(a) - S32(b)), 0)

LimitsType ==
    [limit : Uint32, numQueued : Uint32, numCompleted : Uint32,
     lastObjCnt : Uint32, prevNumQueued : Uint32, prevLastObjCnt : Uint32,
     prevOvlimit : Uint32, lowestSlack : Uint32, adjLimit : Uint32]

\* The constructor calls Reset, which leaves m_adjLimit as it finds it.
ResetLimits(adjLimit) ==
    [limit |-> 0, numQueued |-> 0, numCompleted |-> 0,
     lastObjCnt |-> 0, prevNumQueued |-> 0, prevLastObjCnt |-> 0,
     prevOvlimit |-> 0, lowestSlack |-> TwoTo32 - 1, adjLimit |-> adjLimit]

\* DynamicQueueLimits::Available
Available(d) == S32(d.adjLimit - d.numQueued)

\* A slip: the counter is wider than 32 bits.
QueuedUnwrapped(d, count) ==
    [d EXCEPT !.lastObjCnt = count, !.numQueued = @ + count]

\* DynamicQueueLimits::Queued
Queued(d, count) ==
    [d EXCEPT !.lastObjCnt = count, !.numQueued = U32(@ + count)]

\* The bytes queued and not yet completed, which Completed asserts to be no
\* fewer than those it is told of.
Outstanding(d) == U32(d.numQueued - d.numCompleted)

\* A slip: the adjusted limit does not count from the completed bytes.
CompletedWithoutOffset(d, completed, ovlimit, limit, lowestSlack) ==
    [d EXCEPT
        !.limit = limit,
        !.lowestSlack = lowestSlack,
        !.adjLimit = limit,
        !.prevOvlimit = IF limit # d.limit THEN 0 ELSE ovlimit,
        !.prevLastObjCnt = d.lastObjCnt,
        !.numCompleted = completed,
        !.prevNumQueued = d.numQueued]

\* DynamicQueueLimits::Completed, for the limit the algorithm arrives at.
CompletedWith(d, completed, ovlimit, limit, lowestSlack) ==
    [d EXCEPT
        !.limit = limit,
        !.lowestSlack = lowestSlack,
        !.adjLimit = U32(limit + completed),
        !.prevOvlimit = IF limit # d.limit THEN 0 ELSE ovlimit,
        !.prevLastObjCnt = d.lastObjCnt,
        !.numCompleted = completed,
        !.prevNumQueued = d.numQueued]

\* The minimum of the slack found over the calls of a busy interval.
LowestSlack(d, count) ==
    LET slack == Posdiff(U32(d.limit + d.prevOvlimit), U32(2 * count))
        slackLastObjs ==
            IF d.prevOvlimit # 0 THEN Posdiff(d.prevLastObjCnt, d.prevOvlimit) ELSE 0
    IN  AtMost(AtLeast(slack, slackLastObjs), d.lowestSlack)

\* The limit and the lowest slack that a call of Completed computes: a starved
\* queue raises the limit; one that was busy all the time lowers it by the
\* slack when held, that is, when m_slackHoldTime has passed.
NextLimit(d, completed, ovlimit, count, held) ==
    LET inprogress       == U32(d.numQueued - completed)
        prevInprogress   == U32(d.prevNumQueued - d.numCompleted)
        allPrevCompleted == S32(completed - d.prevNumQueued) >= 0
        starved == \/ ovlimit # 0 /\ inprogress = 0
                   \/ d.prevOvlimit # 0 /\ allPrevCompleted
        busy == inprogress # 0 /\ prevInprogress # 0 /\ ~allPrevCompleted
    IN  CASE starved ->
                [limit |-> U32(d.limit + Posdiff(completed, d.prevNumQueued) + d.prevOvlimit),
                 lowest |-> TwoTo32 - 1]
          [] ~starved /\ busy /\ held ->
                [limit |-> Posdiff(d.limit, LowestSlack(d, count)), lowest |-> TwoTo32 - 1]
          [] ~starved /\ busy /\ ~held ->
                [limit |-> d.limit, lowest |-> LowestSlack(d, count)]
          [] OTHER -> [limit |-> d.limit, lowest |-> d.lowestSlack]

\* DynamicQueueLimits::Completed: the records it may leave, as the hold time
\* has or has not passed.
Completed(d, count) ==
    LET completed == U32(d.numCompleted + count)
        ovlimit   == Posdiff(Outstanding(d), d.limit)
    IN  {CompletedWith(d, completed, ovlimit,
                       AtMost(AtLeast(next.limit, MinLimit), MaxLimit), next.lowest) :
            next \in {NextLimit(d, completed, ovlimit, count, held) : held \in BOOLEAN}}
==============================================================================

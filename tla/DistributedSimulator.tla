-------------------------- MODULE DistributedSimulator --------------------------
(* DistributedSimulatorImpl: a simulation split into ranks, each with an event    *)
(* list and a clock of its own. A rank runs its events up to its granted time,    *)
(* then receives what has arrived and enters a collective operation in which all  *)
(* ranks learn the earliest event of each and the numbers of messages sent and    *)
(* received; when they agree, everybody gets a new granted time.                  *)
(*                                                                                *)
(* Run is entered by every rank once, and no message is sent before: the model    *)
(* begins behind the collective operation of CalculateLookAhead.                  *)
EXTENDS Integers, FiniteSetsExt, Functions, Bags

CONSTANTS
  Ranks,
  Delay,       \* [r][s]: the least delay of a link between two ranks, Infinity without one
  MaxLookAhead,\* [r]: what SetMaximumLookAhead was called with, Infinity without a call
  TxTimes,     \* how long a device takes to put a packet onto its link
  Delays,      \* the delays that handlers call Schedule with
  Starts,      \* [r]: the times of the events scheduled before Run
  Infinity,    \* GetMaximumSimulationTime, the largest number of 64 bits with a sign
  TwoTo32,     \* 2^32
  MaxEvents    \* bound: the events and packets that the handlers create

ASSUME RanksAssumption == IsFiniteSet(Ranks) /\ Cardinality(Ranks) > 1
ASSUME TimesAssumption ==
  /\ Infinity \in Nat /\ TwoTo32 \in Nat \ {0} /\ MaxEvents \in Nat
  /\ TxTimes \subseteq Nat /\ Delays \subseteq Nat
ASSUME DelayAssumption ==
  /\ Delay \in [Ranks -> [Ranks -> 0..Infinity]]
  /\ \A r, s \in Ranks : Delay[r][s] = Delay[s][r]
  /\ MaxLookAhead \in [Ranks -> 1..Infinity]
  /\ \A r \in Ranks : Starts[r] \subseteq 0..Infinity

VARIABLES
  pc,             \* of each rank: in the loop of Run, in MPI_Allgather, or returned
  events,         \* m_events: the bag of the times of the events
  currentTs, stop, grantedTime,
  rxCount, txCount,
  smallestTime,   \* the next time in the LbtsMessage of each rank
  inFlight,       \* the messages MPI has not delivered: a bag
  arrived,        \* the messages delivered into a receive buffer of the rank: a bag
  created         \* the events and packets that handlers have created

vars == <<pc, events, currentTs, stop, grantedTime, rxCount, txCount, smallestTime, inFlight,
          arrived, created>>

Neighbours(r) == {s \in Ranks \ {r} : Delay[r][s] < Infinity}

\* CalculateLookAhead: the least delay of a link to another rank, and for a rank without
\* such a link the largest look-ahead of the others.
\* A slip: each rank takes the delay of the slowest of its links.
SlowestLink(r) == Min({MaxLookAhead[r], Max({Delay[r][s] : s \in Neighbours(r)} \cup {0})})
OwnLookAhead(r) == Min({MaxLookAhead[r]} \cup {Delay[r][s] : s \in Neighbours(r)})

LargestLookAhead == Max({0} \cup ({OwnLookAhead(r) : r \in Ranks} \ {Infinity}))

LookAhead(r) ==
  IF OwnLookAhead(r) = Infinity /\ LargestLookAhead # 0 THEN LargestLookAhead ELSE OwnLookAhead(r)

Init ==
  /\ pc = [r \in Ranks |-> "loop"]
  /\ events = [r \in Ranks |-> SetToBag(Starts[r])]
  /\ currentTs = [r \in Ranks |-> 0]
  /\ stop = [r \in Ranks |-> FALSE]
  /\ grantedTime = [r \in Ranks |-> LookAhead(r)]
  /\ rxCount = [r \in Ranks |-> 0] /\ txCount = [r \in Ranks |-> 0]
  /\ smallestTime = [r \in Ranks |-> 0]
  /\ inFlight = EmptyBag
  /\ arrived = [r \in Ranks |-> EmptyBag]
  /\ created = 0

--------------------------------------------------------------------------------
(* One rank. *)

Times(r) == DOMAIN events[r]
IsLocalFinished(r) == Times(r) = {} \/ stop[r]

\* NextTs of a rank whose list would hold times and whose m_stop is stopped.
NextTs(times, stopped) == IF times = {} \/ stopped THEN Infinity ELSE Min(times)
NextOf(r) == NextTs(Times(r), stop[r])

\* The number of messages that have not been received.
Buffered(buffers) == SumFunction([r \in Ranks |-> SumFunction(buffers[r])])
Pending == SumFunction(inFlight) + Buffered(arrived)

\* The packets that an event at the time now may send, each with the time it arrives at.
Sendable(r, now) ==
  {[to |-> s, ts |-> now + tx + Delay[r][s]] : s \in Neighbours(r), tx \in TxTimes}

\* The event at the head of the list is run. Its handler may schedule an event, send a
\* packet to another rank and call Stop; a handler that does more of them is several events
\* of the same time. Bounds: MaxEvents, and fewer than 2^32 messages on their way at once.
ProcessOneEvent(r) ==
  LET now == NextOf(r) IN
  /\ pc[r] = "loop"
  /\ ~IsLocalFinished(r) /\ now <= grantedTime[r]
  /\ currentTs' = [currentTs EXCEPT ![r] = now]
  /\ \E delays \in {{}} \cup {{d} : d \in Delays},
        packets \in {{}} \cup {{m} : m \in Sendable(r, now)} :
       /\ created' = created + Cardinality(delays) + Cardinality(packets)
       /\ events' = [events EXCEPT ![r] = @ (-) SetToBag({now}) (+) SetToBag({now + d : d \in delays})]
       /\ inFlight' = inFlight (+) SetToBag(packets)
       /\ txCount' = [txCount EXCEPT ![r] = (@ + Cardinality(packets)) % TwoTo32]
  /\ stop' \in {stop, [stop EXCEPT ![r] = TRUE]}
  /\ UNCHANGED <<pc, grantedTime, rxCount, smallestTime, arrived>>
  /\ created' <= MaxEvents /\ Pending' < TwoTo32

\* No event may be run: everything that has arrived is received, and the rank enters
\* MPI_Allgather with its next time and counts.
Synchronize(r) ==
  LET all == events[r] (+) arrived[r] IN
  /\ pc[r] = "loop"
  /\ NextOf(r) > grantedTime[r] \/ IsLocalFinished(r)
  /\ events' = [events EXCEPT ![r] = all]
  /\ arrived' = [arrived EXCEPT ![r] = EmptyBag]
  /\ rxCount' = [rxCount EXCEPT ![r] = (@ + SumFunction(arrived[r])) % TwoTo32]
  /\ smallestTime' = [smallestTime EXCEPT ![r] = NextTs(BagToSet(all), stop[r])]
  /\ pc' = [pc EXCEPT ![r] = "gather"]
  /\ UNCHANGED <<currentTs, stop, grantedTime, txCount, inFlight, created>>

\* MPI puts a message into a receive buffer of its rank.
Deliver(m) ==
  /\ inFlight' = inFlight (-) SetToBag({m})
  /\ arrived' = [arrived EXCEPT ![m.to] = @ (+) SetToBag({m.ts})]
  /\ UNCHANGED <<pc, events, currentTs, stop, grantedTime, rxCount, txCount, smallestTime, created>>

--------------------------------------------------------------------------------
(* All ranks: what each computes of the same array when MPI_Allgather returns. *)

\* A slip: totRx and totTx have fewer bits than a message count needs.
NarrowTotal(count) == SumFunction(count) % 2
Total(count) == SumFunction(count) % TwoTo32

\* A slip: the granted time moves on although messages are on their way.
AlwaysAgree == TRUE
CountsAgree == Total(rxCount) = Total(txCount)

\* The sum of two times of 64 bits.
Wrapped(t) == IF t > Infinity THEN t - 2 * (Infinity + 1) ELSE t

Granted(r) ==
  IF ~CountsAgree THEN grantedTime[r]
  ELSE IF LookAhead(r) = Infinity THEN Infinity
  ELSE Wrapped(Min(Range(smallestTime)) + LookAhead(r))

\* A slip: a rank leaves when it has finished itself.
FinishedAlone(r) == IsLocalFinished(r)
GlobalFinished(r) == \A s \in Ranks : IsLocalFinished(s)

Allgather ==
  /\ \A r \in Ranks : pc[r] = "gather"
  /\ grantedTime' = [r \in Ranks |-> Granted(r)]
  /\ pc' = [r \in Ranks |-> IF GlobalFinished(r) THEN "returned" ELSE "loop"]
  /\ UNCHANGED <<events, currentTs, stop, rxCount, txCount, smallestTime, inFlight, arrived, created>>

RankStep(r) == ProcessOneEvent(r) \/ Synchronize(r)

Next ==
  \/ \E r \in Ranks : RankStep(r)
  \/ \E m \in BagToSet(inFlight) : Deliver(m)
  \/ Allgather

\* Every process runs, handlers return, MPI delivers and its collective operation returns.
Fairness ==
  /\ \A r \in Ranks : WF_vars(RankStep(r))
  /\ WF_vars(\E m \in BagToSet(inFlight) : Deliver(m))
  /\ WF_vars(Allgather)

Spec == Init /\ [][Next]_vars /\ Fairness

--------------------------------------------------------------------------------
(* What the ranks promise each other. *)

\* No message comes from the past: whatever a rank has run when a packet is sent, travels
\* and is received, its clock has not passed the time the packet arrives at. This is the
\* assertion of ProcessOneEvent, made before it is too late.
NoneInThePast ==
  /\ \A m \in BagToSet(inFlight) : m.ts >= currentTs[m.to]
  /\ \A r \in Ranks : \A t \in Times(r) \cup BagToSet(arrived[r]) : t >= currentTs[r]

\* No rank gets further ahead of the earliest event that any rank has still to run, or is
\* still to receive, than its look-ahead.
WithinLookAhead ==
  \A r \in Ranks :
    /\ \A s \in Ranks : ~IsLocalFinished(s) => currentTs[r] <= NextOf(s) + LookAhead(r)
    /\ \A m \in BagToSet(inFlight) : currentTs[r] <= m.ts + LookAhead(r)

Returned == \A r \in Ranks : pc[r] = "returned"

\* What the next granted time rests on (distributed-simulator-impl.cc:402-404, "The
\* totRx and totTx counts insure there are no transient messages"): when all ranks are in
\* MPI_Allgather and their totals of 32 bits agree, nothing is on its way, neither in MPI
\* nor in the receive buffer of a rank that looked before it came.
NoTransients ==
  (\A r \in Ranks : pc[r] = "gather") /\ CountsAgree =>
    inFlight = EmptyBag /\ \A r \in Ranks : arrived[r] = EmptyBag

\* Run returns at every rank: none waits in MPI_Allgather for one that has left, none
\* finds for ever that its next event is beyond the granted time or that messages are
\* on their way.
RunReturns == <>Returned

\* What the consistency test at the end of Run is for (distributed-simulator-impl.cc:444-445),
\* "to check that we didn't lose any events along the way": the events that packets cause
\* at other ranks are not lost either, unless the rank was stopped.
NoMessageLost ==
  Returned => \A r \in Ranks :
    stop[r] \/ (arrived[r] = EmptyBag /\ \A m \in BagToSet(inFlight) : m.to # r)
================================================================================

-------------------------- MODULE NullMessageSimulator --------------------------
(* NullMessageSimulatorImpl: a simulation split into ranks that synchronise with  *)
(* their neighbours only. Every message carries a guarantee: no packet will       *)
(* follow on it with an earlier receive time. A rank runs its events up to the    *)
(* least guarantee of its neighbours, its safe time, and waits for a message when *)
(* its next event is later. When it has no packet to send to a neighbour it sends *)
(* a null message, with a guarantee only, from an event it schedules for it.      *)
(*                                                                                *)
(* Setting up the channel bundles and the first null messages, which each rank    *)
(* does alone when it enters Run, are part of the initial state.                  *)
EXTENDS Integers, FiniteSetsExt, SequencesExt

CONSTANTS
  Ranks,
  Devices,       \* the devices with a link to another rank
  RankOf, RemoteOf, DelayOf, TxTimeOf,   \* of each device: ranks, delay, transmission time
  SchedulerTune, \* in percent
  Delays,        \* the delays that handlers call Schedule with
  Starts,        \* [r]: the times of the events scheduled before Run
  StopTime,      \* [r]: the time Simulator::Stop is called with
  MaxEvents      \* bound: the events and packets that the handlers create

DevicesOf(r) == {d \in Devices : RankOf[d] = r}
Neighbours(r) == {RemoteOf[d] : d \in DevicesOf(r)}

ASSUME DevicesAssumption ==
  /\ RankOf \in [Devices -> Ranks] /\ RemoteOf \in [Devices -> Ranks]
  /\ DelayOf \in [Devices -> Nat] /\ TxTimeOf \in [Devices -> Nat]
  /\ \A d \in Devices : RemoteOf[d] # RankOf[d] /\ RankOf[d] \in Neighbours(RemoteOf[d])
  /\ \A r \in Ranks : Neighbours(r) # {}
ASSUME SchedulerTuneAssumption == SchedulerTune \in 1..100
ASSUME TimesAssumption ==
  /\ Delays \subseteq Nat /\ MaxEvents \in Nat
  /\ StopTime \in [Ranks -> Nat]
  /\ \A r \in Ranks :
       Starts[r] \subseteq Nat /\ IsFiniteSet(Starts[r]) /\ IsFiniteSet(Neighbours(r))

VARIABLES
  pc,            \* of each rank: in the loop of Run, in a handler, polling, or returned
  events,        \* m_events, in the order of the keys
  currentTs, stop, safeTime,
  guaranteeTime, \* [r][s]: of the bundle of r for its neighbour s
  channel,       \* [s][r]: the messages from s to r, first-in first-out as MPI keeps them
  created        \* the events and packets that handlers have created

vars == <<pc, events, currentTs, stop, safeTime, guaranteeTime, channel, created>>

Event(ts, kind, of) == [ts |-> ts, kind |-> kind, of |-> of]
NullEvent(ts, s) == Event(ts, "null", s)

\* A new event has the largest uid: it comes after those of its time.
Insert(list, e) == InsertAt(list, Cardinality({i \in DOMAIN list : list[i].ts <= e.ts}) + 1, e)

BundleDelay(r, s) == Min({DelayOf[d] : d \in {d \in DevicesOf(r) : RemoteOf[d] = s}})
\* Time(double) rounds to the nearest tick.
NullDelay(r, s) == (SchedulerTune * BundleDelay(r, s) + 50) \div 100

\* A null message has the receive time 0.
Message(rxTime, guarantee) == [rxTime |-> rxTime, guarantee |-> guarantee]

\* What is in the list of a rank that enters the loop, and the orders it may be in: the
\* null events were scheduled last.
Scheduled(r) ==
  {Event(t, "app", r) : t \in Starts[r]} \cup {Event(StopTime[r], "stop", r)}
  \cup {NullEvent(NullDelay(r, s), s) : s \in Neighbours(r)}
Precedes(e, f) == e.ts < f.ts \/ (e.ts = f.ts /\ (e.kind = "null" => f.kind = "null"))
Agendas(r) ==
  {list \in [1..Cardinality(Scheduled(r)) -> Scheduled(r)] :
     \A i, j \in DOMAIN list : i < j => list[i] # list[j] /\ Precedes(list[i], list[j])}

Init ==
  /\ pc = [r \in Ranks |-> "loop"]
  /\ events \in {list \in [Ranks -> UNION {Agendas(r) : r \in Ranks}] :
                    \A r \in Ranks : list[r] \in Agendas(r)}
  /\ currentTs = [r \in Ranks |-> 0]
  /\ stop = [r \in Ranks |-> FALSE]
  /\ safeTime = [r \in Ranks |-> 0]
  /\ guaranteeTime = [r \in Ranks |-> [s \in Neighbours(r) |-> 0]]
  /\ channel = [s \in Ranks |-> [r \in Neighbours(s) |-> <<Message(0, BundleDelay(s, r))>>]]
  /\ created = 0

--------------------------------------------------------------------------------
(* Run: one event. *)

IsFinished(r) == events[r] = <<>> \/ stop[r]
NextTs(list) == Head(list).ts

\* A slip: what the rank itself may still send is not taken into account.
GuaranteeOfSafe(list, safe, delay) == safe + delay
\* What a rank guarantees when its list and its safe time are these.
Guarantee(list, safe, delay) == Min({NextTs(list), safe}) + delay

SendsMessage(r, s, m) == channel' = [channel EXCEPT ![r][s] = Append(@, m)]

\* A slip: the null message is sent once.
SendOnly(r, s, list) == list
ScheduleNullMessageEvent(r, s, list) ==
  Insert(list, NullEvent(currentTs'[r] + NullDelay(r, s), s))

\* The event at the head of the list is taken and run: here those that are over at once.
Runs(r, kinds) ==
  /\ pc[r] = "loop" /\ ~IsFinished(r)
  /\ NextTs(events[r]) <= safeTime[r]
  /\ Head(events[r]).kind \in kinds
  /\ currentTs' = [currentTs EXCEPT ![r] = NextTs(events[r])]

RunStop(r) ==
  /\ Runs(r, {"stop"})
  /\ stop' = [stop EXCEPT ![r] = TRUE]
  /\ events' = [events EXCEPT ![r] = Tail(@)]
  /\ pc' = [pc EXCEPT ![r] = "polling"]
  /\ UNCHANGED <<safeTime, guaranteeTime, channel, created>>

\* An event that was cancelled is still taken when its time comes.
RunCancelled(r) ==
  /\ Runs(r, {"cancelled"})
  /\ events' = [events EXCEPT ![r] = Tail(@)]
  /\ pc' = [pc EXCEPT ![r] = "polling"]
  /\ UNCHANGED <<stop, safeTime, guaranteeTime, channel, created>>

NullMessageEventHandler(r) ==
  LET s == Head(events[r]).of
      left == Tail(events[r])
  IN
  /\ Runs(r, {"null"})
  /\ SendsMessage(r, s, Message(0, Guarantee(left, safeTime[r], BundleDelay(r, s))))
  /\ events' = [events EXCEPT ![r] = ScheduleNullMessageEvent(r, s, left)]
  /\ pc' = [pc EXCEPT ![r] = "polling"]
  /\ UNCHANGED <<stop, safeTime, guaranteeTime, created>>

\* An event of the program, the reception of a packet or the end of a transmission.
RunHandler(r) ==
  /\ Runs(r, {"app", "txComplete"})
  /\ events' = [events EXCEPT ![r] = Tail(@)]
  /\ pc' = [pc EXCEPT ![r] = "handler"]
  /\ UNCHANGED <<stop, safeTime, guaranteeTime, channel, created>>

--------------------------------------------------------------------------------
(* What a handler may do, in any order. *)

Creates == created < MaxEvents /\ created' = created + 1

Schedule(r) ==
  /\ pc[r] = "handler" /\ Creates
  /\ \E delay \in Delays :
       events' = [events EXCEPT ![r] = Insert(@, Event(currentTs[r] + delay, "app", r))]
  /\ UNCHANGED <<pc, currentTs, stop, safeTime, guaranteeTime, channel>>

IsReady(r, d) == \A i \in DOMAIN events[r] : events[r][i] # Event(events[r][i].ts, "txComplete", d)

\* A slip: the null event that was scheduled is not cancelled.
CancelNothing(list, s) == list
CancelNullEvent(list, s) ==
  [i \in DOMAIN list |->
     IF list[i].kind = "null" /\ list[i].of = s THEN [list[i] EXCEPT !.kind = "cancelled"] ELSE list[i]]

\* TransmitStart of an idle device schedules the end of the transmission, then sends the
\* packet; SendPacket adds the guarantee, then puts the null event off.
SendPacket(r, d) ==
  LET s == RemoteOf[d]
      completes == currentTs[r] + TxTimeOf[d]
      list == Insert(events[r], Event(completes, "txComplete", d))
  IN
  /\ pc[r] = "handler" /\ Creates
  /\ IsReady(r, d)
  /\ SendsMessage(r, s, Message(completes + DelayOf[d],
                                Guarantee(list, safeTime[r], BundleDelay(r, s))))
  /\ currentTs' = currentTs
  /\ events' = [events EXCEPT ![r] = ScheduleNullMessageEvent(r, s, CancelNullEvent(list, s))]
  /\ UNCHANGED <<pc, stop, safeTime, guaranteeTime>>

HandlerReturns(r) ==
  /\ pc[r] = "handler"
  /\ pc' = [pc EXCEPT ![r] = "polling"]
  /\ UNCHANGED <<events, currentTs, stop, safeTime, guaranteeTime, channel, created>>

--------------------------------------------------------------------------------
(* Run: messages. *)

\* A slip: the guarantees of some neighbours are enough.
LargestGuarantee(guarantees) == Max(Range(guarantees))
SafeTime(guarantees) == Min(Range(guarantees))

\* The first message of a neighbour: a packet is scheduled as an event, and the guarantee
\* replaces the one before.
Receives(r, s) ==
  LET m == Head(channel[s][r]) IN
  /\ channel[s][r] # <<>>
  /\ channel' = [channel EXCEPT ![s][r] = Tail(@)]
  /\ events' = IF m.rxTime > 0 THEN [events EXCEPT ![r] = Insert(@, Event(m.rxTime, "app", r))]
               ELSE events
  /\ guaranteeTime' = [guaranteeTime EXCEPT ![r][s] = m.guarantee]
  /\ UNCHANGED <<currentTs, stop, created>>

\* After an event: what MPI_Testany finds is received, and the safe time is calculated.
ReceiveMessagesNonBlocking(r, s) ==
  /\ pc[r] = "polling"
  /\ Receives(r, s)
  /\ UNCHANGED <<pc, safeTime>>

EndPolling(r) ==
  /\ pc[r] = "polling"
  /\ pc' = [pc EXCEPT ![r] = "loop"]
  /\ safeTime' = [safeTime EXCEPT ![r] = SafeTime(guaranteeTime[r])]
  /\ UNCHANGED <<events, currentTs, stop, guaranteeTime, channel, created>>

\* The next event is beyond the safe time: MPI_Waitany waits for one message.
ReceiveMessagesBlocking(r, s) ==
  /\ pc[r] = "loop" /\ ~IsFinished(r)
  /\ NextTs(events[r]) > safeTime[r]
  /\ Receives(r, s)
  /\ safeTime' = [safeTime EXCEPT ![r] = SafeTime(guaranteeTime'[r])]
  /\ UNCHANGED pc

RunReturns(r) ==
  /\ pc[r] = "loop" /\ IsFinished(r)
  /\ pc' = [pc EXCEPT ![r] = "returned"]
  /\ UNCHANGED <<events, currentTs, stop, safeTime, guaranteeTime, channel, created>>

RunStep(r) ==
  \/ RunStop(r) \/ RunCancelled(r) \/ NullMessageEventHandler(r) \/ RunHandler(r)
  \/ HandlerReturns(r) \/ EndPolling(r) \/ RunReturns(r)
  \/ \E s \in Neighbours(r) : ReceiveMessagesBlocking(r, s)

Next ==
  \E r \in Ranks :
    \/ RunStep(r)
    \/ Schedule(r)
    \/ \E d \in DevicesOf(r) : SendPacket(r, d)
    \/ \E s \in Neighbours(r) : ReceiveMessagesNonBlocking(r, s)

\* Every process runs, handlers return, and MPI_Waitany finds a message that was sent.
Spec == Init /\ [][Next]_vars /\ \A r \in Ranks : WF_vars(RunStep(r))

--------------------------------------------------------------------------------
(* What the ranks promise each other. *)

\* What remote-channel-bundle.h:131-133 says of m_guaranteeTime: no packet will ever arrive
\* on a channel of the bundle with an earlier receive time, whatever the sender runs and
\* receives after it has given the guarantee.
GuaranteeKept ==
  \A r \in Ranks : \A s \in Neighbours(r) :
    LET ms == channel[s][r] IN
    \A i \in DOMAIN ms : ms[i].rxTime > 0 =>
      /\ ms[i].rxTime >= guaranteeTime[r][s]
      /\ \A j \in 1..i : ms[i].rxTime >= ms[j].guarantee

\* The assertions of ProcessOneEvent, ScheduleWithContext, SetGuaranteeTime and
\* CalculateSafeTime, for what is still on its way as well: nothing reaches a rank from
\* its past.
NoneInThePast ==
  \A r \in Ranks :
    /\ \A i \in DOMAIN events[r] : events[r][i].ts >= currentTs[r]
    /\ safeTime[r] >= currentTs[r]
    /\ \A s \in Neighbours(r) : \A i \in DOMAIN channel[s][r] :
         LET m == channel[s][r][i] IN
         m.guarantee >= currentTs[r] /\ (m.rxTime > 0 => m.rxTime >= currentTs[r])

\* However packets put null messages off, one is scheduled for each neighbour, and no more.
OneNullEvent ==
  \A r \in Ranks : \A s \in Neighbours(r) :
    Cardinality({i \in DOMAIN events[r] : events[r][i].kind = "null" /\ events[r][i].of = s}) = 1

\* No rank waits for ever for a neighbour that waits for it, or that has stopped: when all
\* are stopped at the same time, Run returns everywhere.
AllReturn == <>(\A r \in Ranks : pc[r] = "returned")
================================================================================

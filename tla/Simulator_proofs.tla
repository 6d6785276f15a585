-------------------------- MODULE Simulator_proofs --------------------------
(***************************************************************************)
(* What holds of the event list of Simulator for any threads, delays and   *)
(* number of events: events run in order, IsExpired tells what is gone,    *)
(* the count of unscheduled events is exact and the flag hides nothing.    *)
(***************************************************************************)
EXTENDS Simulator, FiniteSetTheorems, SequenceTheorems, TLAPS

DestroyIds == [ts : Nat, uid : {DestroyUid}, impl : Nat]
EventIds == [ts : Nat, uid : Nat \ {DestroyUid}, impl : Nat]
Postings == [delay : Delays, impl : Nat]

\* The types that the order of the events rests on.
Types ==
    /\ events \subseteq EventIds
    /\ destroyEvents \in Seq(DestroyIds)
    /\ issued \subseteq EventIds \cup DestroyIds
    /\ withContext \in Seq(Postings) /\ batch \in Seq(Postings)
    /\ now \in Nat /\ currentUid \in Nat /\ uid \in Nat /\ impls \in Nat

Current == [ts |-> now, uid |-> currentUid]

\* Uids grow, and the events of the list are all to run after the current one.
Ahead ==
    /\ FirstUid <= uid /\ currentUid < uid
    /\ \A ev \in events : ev.uid < uid /\ Before(Current, ev)

\* An event that is not expired is still in the event list.
Kept == \A id \in issued \cap EventIds : id \in events \/ IsExpired(id)

Counted == IsFiniteSet(events) /\ unscheduled = Cardinality(events)

Inv == Types /\ Ahead /\ Kept /\ Counted

-----------------------------------------------------------------------------
(* Lemmas *)

\* The key order is transitive.
LEMMA BeforeTransitive ==
    ASSUME NEW a, NEW b, NEW c, a.ts \in Nat, b.ts \in Nat, c.ts \in Nat,
           a.uid \in Nat, b.uid \in Nat, c.uid \in Nat, Before(a, b), Before(b, c)
    PROVE  Before(a, c)
  BY DEF Before

\* IsExpired of an event, in terms of the key order.
LEMMA ExpiredKey ==
    ASSUME NEW id \in EventIds, now \in Nat, currentUid \in Nat
    PROVE  IsExpired(id) <=> ~Before(Current, id) \/ id.impl \in cancelled
  BY DEF IsExpired, Before, Current, EventIds, DestroyUid

\* The same after a step.
LEMMA ExpiredKeyNext ==
    ASSUME NEW id \in EventIds, Types'
    PROVE  IsExpired(id)' <=> ~Before(Current', id) \/ id.impl \in cancelled'
  BY DEF IsExpired, Before, Current, EventIds, DestroyUid, Types

\* What a removal leaves of a sequence.
LEMMA RemoveAtType ==
    ASSUME NEW S, NEW s \in Seq(S), NEW i \in DOMAIN s
    PROVE  RemoveAt(s, i) \in Seq(S)
<1>1. i \in 1..Len(s) /\ Len(s) \in Nat /\ \A j \in 1..Len(s) : s[j] \in S
  BY LenProperties, ElementOfSeq
<1>2. SubSeq(s, 1, i - 1) \in Seq(S)
  BY <1>1, SubSeqProperties
<1>3. SubSeq(s, i + 1, Len(s)) \in Seq(S)
  BY <1>1, SubSeqProperties
<1>4. QED
  BY <1>2, <1>3, ConcatProperties DEF RemoveAt

-----------------------------------------------------------------------------
(* The steps that change the event list or the clock *)

\* Inserting an event that is due now or later, at the next uid.
LEMMA InsertAhead ==
    ASSUME Inv, NEW delay \in Nat, NEW impl \in Nat,
           Insert([ts |-> Due(delay), uid |-> uid, impl |-> impl]), UNCHANGED clockVars
    PROVE  /\ events' \subseteq EventIds /\ uid' \in Nat
           /\ Ahead' /\ Counted'
           /\ events \subseteq events'
           /\ [ts |-> Due(delay), uid |-> uid, impl |-> impl] \in EventIds \cap events'
<1> DEFINE ev == [ts |-> Due(delay), uid |-> uid, impl |-> impl]
<1>1. ev \in EventIds /\ Before(Current, ev) /\ ev \notin events
  BY DEF Inv, Types, Ahead, EventIds, Before, Current, Due, DestroyUid, FirstUid
<1>2. events' = events \cup {ev} /\ uid' = uid + 1 /\ unscheduled' = unscheduled + 1
  BY DEF Insert
<1>3. now' = now /\ currentUid' = currentUid /\ Current' = Current
  BY DEF clockVars, Current
<1>4. ev.uid = uid
  OBVIOUS
<1> HIDE DEF ev
<1>5. Ahead'
  <2>1. FirstUid <= uid' /\ currentUid' < uid'
    BY <1>2, <1>3 DEF Inv, Types, Ahead, FirstUid
  <2>2. ASSUME NEW e \in events' PROVE e.uid < uid' /\ Before(Current, e)'
    <3>1. CASE e = ev
      BY <3>1, <1>1, <1>2, <1>3, <1>4 DEF Inv, Types, Before
    <3>2. CASE e \in events
      <4>1. e.uid \in Nat /\ e.uid < uid /\ Before(Current, e)
        BY <3>2 DEF Inv, Types, Ahead, EventIds
      <4>2. QED
        BY <4>1, <1>2, <1>3 DEF Inv, Types, Before
    <3>3. QED
      BY <3>1, <3>2, <1>2
  <2>3. QED
    BY <2>1, <2>2 DEF Ahead
<1>6. Counted'
  BY <1>1, <1>2, FS_AddElement DEF Inv, Counted
<1>7. QED
  BY <1>1, <1>2, <1>5, <1>6 DEF Inv, Types, ev

\* Taking an event off the list.
LEMMA TakenIsCounted ==
    ASSUME Inv, NEW ev \in events, events' = events \ {ev}, unscheduled' = unscheduled - 1
    PROVE  Counted'
  BY FS_RemoveElement, FS_CardinalityType DEF Inv, Counted


\* What a step may do to the list, the clock and the cancelled events so that an
\* event that is not expired stays in the list.
LEMMA KeptStays ==
    ASSUME Types, Types', Kept,
           \A id \in issued' \cap EventIds : id \in issued \/ id \in events',
           cancelled \subseteq cancelled',
           Current' = Current \/ Before(Current, Current'),
           \A id \in events : \/ id \in events'
                              \/ id.impl \in cancelled'
                              \/ ~Before(Current', id)
    PROVE  Kept'
<1> SUFFICES ASSUME NEW id \in issued' \cap EventIds, id \notin events', id.impl \notin cancelled'
             PROVE  IsExpired(id)'
  <2>1. ASSUME NEW id \in issued' \cap EventIds, id.impl \in cancelled' PROVE IsExpired(id)'
    BY <2>1, ExpiredKeyNext
  <2>2. Kept' <=> \A id \in issued' \cap EventIds : id \in events' \/ IsExpired(id)'
    BY DEF Kept, EventIds
  <2>3. QED
    BY <2>1, <2>2
<1>1. id \in issued /\ id.impl \notin cancelled
  OBVIOUS
<1>2. ~Before(Current', id)
  <2>1. CASE id \in events
    BY <2>1
  <2>2. CASE id \notin events
    <3>1. ~Before(Current, id)
      BY <1>1, <2>2, ExpiredKey DEF Kept, Types
    <3>2. CASE Current' = Current
      BY <3>1, <3>2
    <3>3. CASE Before(Current, Current')
      <4>1. Current.ts \in Nat /\ Current.uid \in Nat /\ id.ts \in Nat /\ id.uid \in Nat
        BY DEF Types, Current, EventIds
      <4>2. Current'.ts \in Nat /\ Current'.uid \in Nat
        BY DEF Types, Current
      <4>3. QED
        BY <3>1, <3>3, <4>1, <4>2, BeforeTransitive
    <3>4. QED
      BY <3>2, <3>3
  <2>3. QED
    BY <2>1, <2>2
<1>3. QED
  BY <1>2, ExpiredKeyNext DEF Types

-----------------------------------------------------------------------------
(* The invariant *)

LEMMA Initially == Init => Inv
  BY FS_EmptySet DEF Init, Inv, Types, Ahead, Kept, Counted, FirstUid

\* A step that leaves the lists, the clock and the cancelled events alone.
LEMMA QuietStep ==
    ASSUME Inv, UNCHANGED <<listVars, clockVars, issued, destroyEvents, cancelled>>,
           withContext' \in Seq(Postings), batch' \in Seq(Postings), impls' \in Nat
    PROVE  Inv'
  BY DEF Inv, Types, Ahead, Kept, Counted, Current, Before, IsExpired, listVars, clockVars

\* Every operation, handler and thread preserves the invariant.
LEMMA Preserved == Inv /\ [Next]_vars => Inv'
<1> SUFFICES ASSUME Inv, [Next]_vars PROVE Inv'
  OBVIOUS
<1> USE DelaysAssumption
<1>1. ASSUME NEW delay \in Delays, Schedule(delay) PROVE Inv'
  <2> DEFINE ev == [ts |-> Due(delay), uid |-> uid, impl |-> impls + 1]
  <2>1. /\ events' \subseteq EventIds /\ uid' \in Nat /\ Ahead' /\ Counted'
        /\ events \subseteq events' /\ ev \in EventIds \cap events'
    BY <1>1, InsertAhead DEF Schedule, Inv, Types
  <2>2. Types'
    BY <1>1, <2>1 DEF Schedule, Inv, Types, clockVars, contextVars
  <2>3. Kept'
    BY <1>1, <2>1, <2>2, KeptStays DEF Schedule, Inv, clockVars, Current
  <2>4. QED
    BY <2>1, <2>2, <2>3 DEF Inv
<1>2. ASSUME NEW delay \in Delays, ScheduleWithContext(delay) PROVE Inv'
  <2>1. /\ events' \subseteq EventIds /\ uid' \in Nat /\ Ahead' /\ Counted'
        /\ events \subseteq events'
    BY <1>2, InsertAhead DEF ScheduleWithContext, Inv, Types
  <2>2. Types'
    BY <1>2, <2>1 DEF ScheduleWithContext, Inv, Types, clockVars, contextVars
  <2>3. Kept'
    BY <1>2, <2>1, <2>2, KeptStays DEF ScheduleWithContext, Inv, clockVars, Current
  <2>4. QED
    BY <2>1, <2>2, <2>3 DEF Inv
<1>3. CASE ScheduleDestroy
  <2> DEFINE ev == [ts |-> now, uid |-> DestroyUid, impl |-> impls + 1]
  <2>1. ev \in DestroyIds /\ ev \notin EventIds
    BY DEF Inv, Types, DestroyIds, EventIds
  <2>2. Types'
    BY <1>3, <2>1 DEF ScheduleDestroy, Inv, Types, clockVars, contextVars
  <2>3. Ahead'
    <3>1. \A e \in events : e.uid \in Nat /\ e.uid < uid
      BY DEF Inv, Types, Ahead, EventIds
    <3>2. events' = events /\ uid' = uid + 1 /\ now' = now /\ currentUid' = currentUid
      BY <1>3 DEF ScheduleDestroy, clockVars
    <3>3. QED
      BY <3>1, <3>2 DEF Inv, Types, Ahead, Current, Before, FirstUid
  <2>4. Counted'
    BY <1>3 DEF ScheduleDestroy, Inv, Counted
  <2>5. Kept'
    BY <1>3, <2>1, <2>2, KeptStays DEF ScheduleDestroy, Inv, clockVars, Current
  <2>6. QED
    BY <2>2, <2>3, <2>4, <2>5 DEF Inv
<1>4. ASSUME NEW id \in issued, Cancel(id) PROVE Inv'
  <2>1. Types' /\ Ahead' /\ Counted'
    BY <1>4 DEF Cancel, Inv, Types, Ahead, Counted, Current, Before, listVars, clockVars,
                contextVars, historyVars
  <2>2. Kept'
    BY <1>4, <2>1, KeptStays DEF Cancel, Inv, listVars, clockVars, historyVars, Current
  <2>3. QED
    BY <2>1, <2>2 DEF Inv
<1>5. ASSUME NEW id \in issued, RemoveEvent(id) PROVE Inv'
  <2>1. id \in events
    BY <1>5 DEF RemoveEvent, Inv, Types, Kept, DestroyIds
  <2>2. Counted'
    BY <1>5, <2>1, TakenIsCounted DEF RemoveEvent
  <2>3. Types' /\ Ahead'
    BY <1>5 DEF RemoveEvent, Inv, Types, Ahead, Current, Before, clockVars, contextVars
  <2>4. Kept'
    BY <1>5, <2>3, KeptStays DEF RemoveEvent, Inv, clockVars, Current
  <2>5. QED
    BY <2>2, <2>3, <2>4 DEF Inv
<1>6. ASSUME NEW id \in issued, RemoveDestroyEvent(id) PROVE Inv'
  <2>1. destroyEvents' \in Seq(DestroyIds)
    BY <1>6, RemoveAtType DEF RemoveDestroyEvent, Inv, Types
  <2>2. Types' /\ Ahead' /\ Counted'
    BY <1>6, <2>1 DEF RemoveDestroyEvent, Inv, Types, Ahead, Counted, Current, Before,
                      listVars, clockVars, contextVars
  <2>3. Kept'
    BY <1>6, <2>2, KeptStays DEF RemoveDestroyEvent, Inv, listVars, clockVars, Current
  <2>4. QED
    BY <2>2, <2>3 DEF Inv
<1>7. CASE ProcessOneEvent
  <2>1. PICK next \in events :
          /\ \A other \in events \ {next} : Before(next, other)
          /\ events' = events \ {next}
          /\ unscheduled' = unscheduled - 1
          /\ now' = next.ts
          /\ currentUid' = next.uid
    BY <1>7 DEF ProcessOneEvent
  <2>2. /\ UNCHANGED <<uid, contextVars, impls, issued, destroyEvents, cancelled>>
    BY <1>7 DEF ProcessOneEvent
  <2>3. next \in EventIds /\ next.uid < uid /\ Before(Current, next)
    BY DEF Inv, Types, Ahead
  <2>4. Current' = [ts |-> next.ts, uid |-> next.uid]
    BY <2>1 DEF Current
  <2>5. Types'
    BY <2>1, <2>2, <2>3 DEF Inv, Types, EventIds, contextVars
  <2>6. Ahead'
    BY <2>1, <2>2, <2>3, <2>4 DEF Inv, Ahead, Before
  <2>7. Counted'
    BY <2>1, TakenIsCounted
  <2>8. Kept'
    <3>1. Before(Current, Current')
      BY <2>3, <2>4 DEF Before
    <3>2. ~Before(Current', next)
      BY <2>3, <2>4 DEF Before, EventIds
    <3>3. QED
      BY <2>1, <2>2, <2>5, <3>1, <3>2, KeptStays DEF Inv
  <2>9. QED
    BY <2>5, <2>6, <2>7, <2>8 DEF Inv
<1>8. CASE InsertFromContext
  <2>1. Head(batch) \in Postings /\ Tail(batch) \in Seq(Postings)
    BY <1>8, HeadTailProperties DEF InsertFromContext, Inv, Types
  <2>2. /\ events' \subseteq EventIds /\ uid' \in Nat /\ Ahead' /\ Counted'
        /\ events \subseteq events'
    BY <1>8, <2>1, InsertAhead DEF InsertFromContext, Postings
  <2>3. Types'
    BY <1>8, <2>1, <2>2 DEF InsertFromContext, Inv, Types, clockVars, historyVars
  <2>4. Kept'
    BY <1>8, <2>2, <2>3, KeptStays DEF InsertFromContext, Inv, clockVars, historyVars, Current
  <2>5. QED
    BY <2>2, <2>3, <2>4 DEF Inv
<1>9. CASE DestroyOne
  <2>1. destroyEvents' \in Seq(DestroyIds)
    BY <1>9, HeadTailProperties DEF DestroyOne, Inv, Types
  <2>2. Types' /\ Ahead' /\ Counted'
    BY <1>9, <2>1 DEF DestroyOne, Inv, Types, Ahead, Counted, Current, Before,
                      listVars, clockVars, contextVars
  <2>3. Kept'
    BY <1>9, <2>2, KeptStays DEF DestroyOne, Inv, listVars, clockVars, Current
  <2>4. QED
    BY <2>2, <2>3 DEF Inv
<1>10. ASSUME NEW t \in Threads, NEW delay \in Delays, Post(t, delay) PROVE Inv'
  <2>1. Append(withContext, [delay |-> delay, impl |-> impls + 1]) \in Seq(Postings)
    BY AppendProperties DEF Inv, Types, Postings
  <2>2. QED
    BY <1>10, <2>1, QuietStep DEF Post, Inv, Types
<1>11. CASE SwapQueues
  BY <1>11, QuietStep DEF SwapQueues, historyVars, Inv, Types
<1>12. CASE Stop \/ Run \/ HandlerReturns \/ RunReturns \/ SeesNoContext \/ SeesContext
            \/ ContextProcessed \/ Destroy \/ DestroyHandlerReturns \/ DestroyReturns
            \/ UNCHANGED vars
  BY <1>12, QuietStep
     DEF Stop, Run, HandlerReturns, RunReturns, SeesNoContext, SeesContext, ContextProcessed,
         Destroy, DestroyHandlerReturns, DestroyReturns, vars, historyVars, contextVars,
         Inv, Types
<1>13. ASSUME NEW t \in Threads, Posted(t) PROVE Inv'
  BY <1>13, QuietStep DEF Posted, historyVars, Inv, Types
<1>14. QED
  BY <1>1, <1>2, <1>3, <1>4, <1>5, <1>6, <1>7, <1>8, <1>9, <1>10, <1>11, <1>12, <1>13 DEF Next

\* The invariant holds in every reachable state.
THEOREM Invariant == Spec => []Inv
  BY Initially, Preserved, PTL DEF Spec

-----------------------------------------------------------------------------
(* The properties *)

\* Events are run in the order of their keys, across handlers that schedule,
\* cancel and remove events, other threads and several calls of Run.
THEOREM RunsInOrderHolds == Spec => RunsInOrder
<1>1. ASSUME Inv, [Next]_vars
      PROVE  [clockVars' # clockVars =>
                 Before([ts |-> now, uid |-> currentUid], [ts |-> now', uid |-> currentUid'])]_vars
  <2>1. CASE ProcessOneEvent
    BY <1>1, <2>1 DEF ProcessOneEvent, Inv, Ahead, Current, Before
  <2>2. CASE ~ProcessOneEvent
    BY <1>1, <2>2
       DEF Next, Schedule, ScheduleWithContext, ScheduleDestroy, Stop, Cancel, RemoveEvent,
           RemoveDestroyEvent, Run, HandlerReturns, RunReturns, SeesNoContext, SeesContext,
           SwapQueues, InsertFromContext, ContextProcessed, Destroy, DestroyOne,
           DestroyHandlerReturns, DestroyReturns, Posted, Post, vars
  <2>3. QED
    BY <2>1, <2>2
<1>2. QED
  BY <1>1, Invariant, PTL DEF Spec, RunsInOrder

\* IsExpired, which only looks at the clock, is true exactly of the events that
\* were cancelled or have left the lists.
THEOREM ExpiredIsGoneHolds == Spec => []ExpiredIsGone
<1>1. ASSUME Inv PROVE ExpiredIsGone
  <2> SUFFICES ASSUME NEW id \in issued
               PROVE  IsExpired(id) <=>
                          id.impl \in cancelled \/ id \notin events \cup Range(destroyEvents)
    BY DEF ExpiredIsGone
  <2>1. Range(destroyEvents) \subseteq DestroyIds
    BY <1>1, LenProperties, ElementOfSeq DEF Inv, Types, Range
  <2>2. CASE id \in DestroyIds
    <3>1. id \notin events /\ id.uid = DestroyUid
      BY <1>1, <2>2 DEF Inv, Types, EventIds, DestroyIds
    <3>2. QED
      BY <3>1 DEF IsExpired
  <2>3. CASE id \in EventIds
    <3>1. id \notin Range(destroyEvents)
      BY <2>1, <2>3 DEF EventIds, DestroyIds
    <3>2. IsExpired(id) <=> ~Before(Current, id) \/ id.impl \in cancelled
      BY <1>1, <2>3, ExpiredKey DEF Inv, Types
    <3>3. id \in events => Before(Current, id)
      BY <1>1 DEF Inv, Ahead
    <3>4. id \in events \/ IsExpired(id)
      BY <1>1, <2>3 DEF Inv, Kept
    <3>5. QED
      BY <3>1, <3>2, <3>3, <3>4
  <2>4. QED
    BY <1>1, <2>2, <2>3 DEF Inv, Types
<1>2. QED
  BY <1>1, Invariant, PTL

\* m_unscheduledEvents is exact: no removal is counted twice or not at all.
THEOREM UnscheduledIsPendingHolds == Spec => []UnscheduledIsPending
<1>1. Inv => UnscheduledIsPending
  BY DEF Inv, Counted, UnscheduledIsPending
<1>2. QED
  BY <1>1, Invariant, PTL

\* The flag that the main thread reads without the mutex hides no event for
\* longer than the critical section of the thread that appends it.
THEOREM PostedIsFlaggedHolds == Spec => []PostedIsFlagged
<1>1. Init => PostedIsFlagged
  BY DEF Init, PostedIsFlagged
<1>2. ASSUME PostedIsFlagged, [Next]_vars PROVE PostedIsFlagged'
  <2>1. ASSUME NEW t \in Threads, NEW delay \in Delays, Post(t, delay) PROVE PostedIsFlagged'
    BY <2>1, ThreadsAssumption DEF Post, PostedIsFlagged
  <2>2. ASSUME NEW t \in Threads, Posted(t) PROVE PostedIsFlagged'
    BY <2>2 DEF Posted, PostedIsFlagged
  <2>3. CASE SwapQueues
    BY <2>3 DEF SwapQueues, PostedIsFlagged
  <2>4. CASE UNCHANGED <<withContext, withContextEmpty, mutex>>
    BY <1>2, <2>4 DEF PostedIsFlagged
  <2>5. QED
    BY <1>2, <2>1, <2>2, <2>3, <2>4
       DEF Next, Schedule, ScheduleWithContext, ScheduleDestroy, Stop, Cancel, RemoveEvent,
           RemoveDestroyEvent, Run, ProcessOneEvent, HandlerReturns, RunReturns, SeesNoContext,
           SeesContext, InsertFromContext, ContextProcessed, Destroy, DestroyOne,
           DestroyHandlerReturns, DestroyReturns, vars, contextVars
<1>3. QED
  BY <1>1, <1>2, PTL DEF Spec
-----------------------------------------------------------------------------
(* Where each event is *)

\* No EventImpl twice in a sequence, and the EventImpls of a sequence.
OnceIn(s) == \A i, j \in 1..Len(s) : s[i].impl = s[j].impl => i = j
ImplsIn(s) == {s[i].impl : i \in 1..Len(s)}

Pending == {ev.impl : ev \in events}

\* Five sets that share the numbers from 1 to n among them.
Share(A, B, C, D, E, n) ==
    /\ A \cap B = {} /\ A \cap C = {} /\ A \cap D = {} /\ A \cap E = {}
    /\ B \cap C = {} /\ B \cap D = {} /\ B \cap E = {}
    /\ C \cap D = {} /\ C \cap E = {} /\ D \cap E = {}
    /\ A \cup B \cup C \cup D \cup E = 1..n

\* Every EventImpl created is in one place; the batch is empty unless it is inserted.
Placed ==
    /\ \A e, f \in events : e.impl = f.impl => e = f
    /\ OnceIn(destroyEvents) /\ OnceIn(batch) /\ OnceIn(withContext)
    /\ pc # "insert" => batch = <<>>
    /\ Share(Pending, ImplsIn(destroyEvents), ImplsIn(batch), ImplsIn(withContext), finished,
             impls)

LEMMA AppendOnce ==
    ASSUME NEW S, NEW s \in Seq(S), NEW e \in S, OnceIn(s), e.impl \notin ImplsIn(s)
    PROVE  OnceIn(Append(s, e)) /\ ImplsIn(Append(s, e)) = ImplsIn(s) \cup {e.impl}
<1> DEFINE t == Append(s, e)
<1>1. /\ Len(t) = Len(s) + 1 /\ Len(s) \in Nat
      /\ \A i \in 1..Len(s) : t[i] = s[i]
      /\ t[Len(s) + 1] = e
  BY AppendProperties, LenProperties
<1> HIDE DEF t
<1>2. \A i \in 1..Len(t) : i \in 1..Len(s) \/ i = Len(s) + 1
  BY <1>1
<1>3. OnceIn(t)
  BY <1>1, <1>2 DEF OnceIn, ImplsIn
<1>4. ImplsIn(t) = ImplsIn(s) \cup {e.impl}
  BY <1>1, <1>2 DEF ImplsIn
<1>5. QED
  BY <1>3, <1>4 DEF t

LEMMA TailOnce ==
    ASSUME NEW S, NEW s \in Seq(S), s # <<>>, OnceIn(s)
    PROVE  /\ OnceIn(Tail(s)) /\ ImplsIn(Tail(s)) = ImplsIn(s) \ {Head(s).impl}
           /\ Head(s).impl \in ImplsIn(s)
<1> DEFINE t == Tail(s)
<1>1. /\ Len(s) \in Nat \ {0} /\ Len(t) = Len(s) - 1 /\ Head(s) = s[1]
      /\ \A i \in 1..Len(t) : t[i] = s[i + 1]
  BY HeadTailProperties, EmptySeq, LenProperties
<1> HIDE DEF t
<1>2. \A i \in 1..Len(s) : i = 1 \/ i - 1 \in 1..Len(t)
  BY <1>1
<1>3. OnceIn(t)
  BY <1>1 DEF OnceIn
<1>4. ImplsIn(t) \subseteq ImplsIn(s) \ {s[1].impl}
  BY <1>1 DEF ImplsIn, OnceIn
<1>5. ASSUME NEW i \in 1..Len(s), s[i].impl # s[1].impl PROVE s[i].impl \in ImplsIn(t)
  <2>1. i - 1 \in 1..Len(t) /\ t[i - 1] = s[i]
    BY <1>1, <1>2, <1>5
  <2>2. QED
    BY <2>1 DEF ImplsIn
<1>6. ImplsIn(s) \ {s[1].impl} \subseteq ImplsIn(t)
  BY <1>5 DEF ImplsIn
<1>7. s[1].impl \in ImplsIn(s)
  BY <1>1 DEF ImplsIn
<1>8. QED
  BY <1>1, <1>3, <1>4, <1>6, <1>7 DEF t

LEMMA RemoveAtOnce ==
    ASSUME NEW S, NEW s \in Seq(S), NEW k \in 1..Len(s), OnceIn(s)
    PROVE  /\ OnceIn(RemoveAt(s, k)) /\ ImplsIn(RemoveAt(s, k)) = ImplsIn(s) \ {s[k].impl}
           /\ s[k].impl \in ImplsIn(s)
<1> DEFINE t == RemoveAt(s, k)
<1>1. Len(s) \in Nat /\ \A j \in 1..Len(s) : s[j] \in S
  BY LenProperties, ElementOfSeq
<1> DEFINE u == SubSeq(s, 1, k - 1)
           v == SubSeq(s, k + 1, Len(s))
<1>2. /\ u \in Seq(S) /\ Len(u) = k - 1
      /\ \A i \in 1..k - 1 : u[i] = s[i]
  BY <1>1, SubSeqProperties
<1>3. /\ v \in Seq(S) /\ Len(v) = Len(s) - k
      /\ \A i \in 1..Len(s) - k : v[i] = s[k + i]
  BY <1>1, SubSeqProperties
<1>4. t = u \o v
  BY DEF RemoveAt
<1> HIDE DEF t, u, v
<1>5. /\ Len(t) = Len(s) - 1
      /\ \A i \in 1..Len(s) - 1 : t[i] = s[IF i < k THEN i ELSE i + 1]
  <2>0. Len(u \o v) = Len(u) + Len(v)
    BY <1>2, <1>3, ConcatProperties
  <2>1. Len(t) = Len(s) - 1
    BY <1>1, <1>2, <1>3, <1>4, <2>0
  <2>2. ASSUME NEW i \in 1..Len(s) - 1 PROVE t[i] = s[IF i < k THEN i ELSE i + 1]
    <3>1. t[i] = IF i <= Len(u) THEN u[i] ELSE v[i - Len(u)]
      BY <1>1, <1>2, <1>3, <1>4, ConcatProperties
    <3>2. CASE i < k
      BY <3>1, <3>2, <1>1, <1>2
    <3>3. CASE ~(i < k)
      <4>1. PICK m \in 1..Len(s) - k : m = i - (k - 1)
        BY <3>3, <1>1
      <4>2. v[m] = s[k + m] /\ k + m = i + 1
        BY <4>1, <1>1, <1>3
      <4>3. QED
        BY <3>1, <3>3, <4>1, <4>2, <1>1, <1>2
    <3>4. QED
      BY <3>2, <3>3
  <2>3. QED
    BY <2>1, <2>2
<1>6. OnceIn(t)
  <2> DEFINE at(i) == IF i < k THEN i ELSE i + 1
  <2>1. \A i \in 1..Len(t) : t[i] = s[at(i)] /\ at(i) \in 1..Len(s)
    BY <1>1, <1>5
  <2>2. \A i, j \in 1..Len(t) : i # j => at(i) # at(j)
    BY <1>1, <1>5
  <2> HIDE DEF at
  <2>3. QED
    BY <1>1, <2>1, <2>2 DEF OnceIn
<1>7. ImplsIn(t) \subseteq ImplsIn(s) \ {s[k].impl}
  BY <1>1, <1>5 DEF ImplsIn, OnceIn
<1>8. ASSUME NEW i \in 1..Len(s), s[i].impl # s[k].impl PROVE s[i].impl \in ImplsIn(t)
  <2>1. CASE i < k
    BY <2>1, <1>1, <1>5 DEF ImplsIn
  <2>2. CASE k < i
    <3>1. i - 1 \in 1..Len(t) /\ t[i - 1] = s[i]
      BY <2>2, <1>1, <1>5
    <3>2. QED
      BY <3>1 DEF ImplsIn
  <2>3. QED
    BY <1>1, <1>8, <2>1, <2>2
<1>9. ImplsIn(s) \ {s[k].impl} \subseteq ImplsIn(t) /\ s[k].impl \in ImplsIn(s)
  BY <1>8 DEF ImplsIn
<1>10. QED
  BY <1>6, <1>7, <1>9 DEF t

\* What a step may do to five sets that share the numbers: one gets the next number, or
\* hands a number on.
LEMMA ShareNew ==
    ASSUME NEW A, NEW B, NEW C, NEW D, NEW E, NEW n \in Nat, Share(A, B, C, D, E, n),
           NEW x, x = n + 1, NEW m, m = n + 1
    PROVE  /\ x \notin A /\ x \notin B /\ x \notin D
           /\ \A X : X = A \cup {x} => Share(X, B, C, D, E, m)
           /\ \A X : X = B \cup {x} => Share(A, X, C, D, E, m)
           /\ \A X : X = D \cup {x} => Share(A, B, C, X, E, m)
<1>1. 1..m = (1..n) \cup {x} /\ x \notin 1..n
  OBVIOUS
<1>2. x \notin A \cup B \cup C \cup D \cup E
  BY <1>1 DEF Share
<1>3. QED
  BY <1>1, <1>2 DEF Share

LEMMA ShareFinish ==
    ASSUME NEW A, NEW B, NEW C, NEW D, NEW E, NEW n, Share(A, B, C, D, E, n), NEW x \in A,
           NEW X, X = A \ {x}, NEW F, F = E \cup {x}
    PROVE  Share(X, B, C, D, F, n)
  BY DEF Share

LEMMA ShareDestroyed ==
    ASSUME NEW A, NEW B, NEW C, NEW D, NEW E, NEW n, Share(A, B, C, D, E, n), NEW x \in B,
           NEW X, X = B \ {x}, NEW F, F = E \cup {x}
    PROVE  Share(A, X, C, D, F, n)
  BY DEF Share

LEMMA ShareInsert ==
    ASSUME NEW A, NEW B, NEW C, NEW D, NEW E, NEW n, Share(A, B, C, D, E, n), NEW x \in C,
           NEW X, X = A \cup {x}, NEW Y, Y = C \ {x}
    PROVE  x \notin A /\ Share(X, B, Y, D, E, n)
  BY DEF Share

LEMMA ShareSwap ==
    ASSUME NEW A, NEW B, NEW D, NEW E, NEW n, Share(A, B, {}, D, E, n)
    PROVE  Share(A, B, D, {}, E, n)
  BY DEF Share

\* A new event of the list.
LEMMA InsertPlaced ==
    ASSUME Placed, NEW ev, ev.impl \notin Pending, events' = events \cup {ev}
    PROVE  /\ \A e, f \in events' : e.impl = f.impl => e = f
           /\ Pending' = Pending \cup {ev.impl}
  BY DEF Placed, Pending

\* An event taken off the list.
LEMMA TakePlaced ==
    ASSUME Placed, NEW ev \in events, events' = events \ {ev}
    PROVE  /\ \A e, f \in events' : e.impl = f.impl => e = f
           /\ Pending' = Pending \ {ev.impl}
           /\ ev.impl \in Pending
  BY DEF Placed, Pending

LEMMA NothingPlaced == OnceIn(<<>>) /\ ImplsIn(<<>>) = {}
  BY DEF OnceIn, ImplsIn

LEMMA InitiallyPlaced == Init => Placed
<1> SUFFICES ASSUME Init PROVE Placed
  OBVIOUS
<1>1. Pending = {}
  BY DEF Init, Pending
<1>2. Share({}, {}, {}, {}, {}, 0)
  BY DEF Share
<1>3. QED
  BY <1>1, <1>2, NothingPlaced DEF Init, Placed

\* A step that leaves every event where it is.
LEMMA PlacedStays ==
    ASSUME Placed, UNCHANGED <<events, destroyEvents, batch, withContext, finished, impls>>,
           pc' # "insert" => pc # "insert" \/ batch = <<>>
    PROVE  Placed'
<1>1. /\ Pending' = Pending
      /\ destroyEvents' = destroyEvents /\ batch' = batch /\ withContext' = withContext
      /\ finished' = finished /\ impls' = impls
  BY DEF Pending
<1>2. QED
  BY <1>1 DEF Placed

\* Every operation, handler and thread keeps every event in one place.
LEMMA PlacedPreserved == Inv /\ Placed /\ [Next]_vars => Placed'
<1> SUFFICES ASSUME Inv, Placed, [Next]_vars PROVE Placed'
  OBVIOUS
<1> DEFINE A == Pending
           B == ImplsIn(destroyEvents)
           C == ImplsIn(batch)
           D == ImplsIn(withContext)
<1>0. /\ Share(A, B, C, D, finished, impls)
      /\ impls \in Nat
      /\ destroyEvents \in Seq(DestroyIds)
      /\ batch \in Seq(Postings) /\ withContext \in Seq(Postings)
  BY DEF Placed, Inv, Types
<1>1. ASSUME NEW delay \in Delays, Schedule(delay) \/ ScheduleWithContext(delay) PROVE Placed'
  <2> DEFINE ev == [ts |-> Due(delay), uid |-> uid, impl |-> impls + 1]
  <2>1. /\ events' = events \cup {ev} /\ impls' = impls + 1
        /\ UNCHANGED <<destroyEvents, batch, withContext, finished, pc>>
    BY <1>1 DEF Schedule, ScheduleWithContext, Insert, contextVars
  <2>2. ev.impl = impls + 1
    OBVIOUS
  <2> HIDE DEF ev
  <2>3. ev.impl \notin A
    BY <1>0, <2>2, ShareNew
  <2>4. Pending' = A \cup {ev.impl}
    BY <2>1, <2>3, InsertPlaced
  <2>5. Share(Pending', B, C, D, finished, impls')
    BY <1>0, <2>1, <2>2, <2>4, ShareNew
  <2>6. QED
    BY <2>1, <2>3, <2>5, InsertPlaced DEF Placed
<1>2. CASE ScheduleDestroy
  <2> DEFINE ev == [ts |-> now, uid |-> DestroyUid, impl |-> impls + 1]
  <2>1. /\ destroyEvents' = Append(destroyEvents, ev) /\ impls' = impls + 1
        /\ UNCHANGED <<events, batch, withContext, finished, pc>>
    BY <1>2 DEF ScheduleDestroy, contextVars
  <2>2. ev \in DestroyIds /\ ev.impl = impls + 1
    BY DEF Inv, Types, DestroyIds
  <2> HIDE DEF ev
  <2>3. ev.impl \notin B
    BY <1>0, <2>2, ShareNew
  <2>4. OnceIn(destroyEvents') /\ ImplsIn(destroyEvents') = B \cup {ev.impl}
    BY <1>0, <2>1, <2>2, <2>3, AppendOnce DEF Placed
  <2>5. Share(A, ImplsIn(destroyEvents'), C, D, finished, impls')
    BY <1>0, <2>1, <2>2, <2>4, ShareNew
  <2>6. QED
    BY <2>1, <2>4, <2>5 DEF Placed, Pending
<1>3. ASSUME NEW t \in Threads, NEW delay \in Delays, Post(t, delay) PROVE Placed'
  <2> DEFINE p == [delay |-> delay, impl |-> impls + 1]
  <2>1. /\ withContext' = Append(withContext, p) /\ impls' = impls + 1
        /\ UNCHANGED <<events, batch, destroyEvents, finished, pc>>
    BY <1>3 DEF Post, listVars
  <2>2. p \in Postings /\ p.impl = impls + 1
    BY <1>0 DEF Postings
  <2> HIDE DEF p
  <2>3. p.impl \notin D
    BY <1>0, <2>2, ShareNew
  <2>4. OnceIn(withContext') /\ ImplsIn(withContext') = D \cup {p.impl}
    BY <1>0, <2>1, <2>2, <2>3, AppendOnce DEF Placed
  <2>5. Share(A, B, C, ImplsIn(withContext'), finished, impls')
    BY <1>0, <2>1, <2>2, <2>4, ShareNew
  <2>6. QED
    BY <2>1, <2>4, <2>5 DEF Placed, Pending
<1>4. ASSUME NEW ev \in events, events' = events \ {ev}, finished' = finished \cup {ev.impl},
             UNCHANGED <<destroyEvents, batch, withContext, impls>>,
             pc' # "insert" => pc # "insert"
      PROVE  Placed'
  <2>1. Pending' = A \ {ev.impl} /\ ev.impl \in A
    BY <1>4, TakePlaced
  <2>2. Share(Pending', B, C, D, finished', impls)
    BY <1>0, <1>4, <2>1, ShareFinish
  <2>3. QED
    BY <1>4, <2>2, TakePlaced DEF Placed
<1>5. ASSUME NEW id \in issued, RemoveEvent(id) PROVE Placed'
  <2>1. id \in events
    BY <1>5 DEF RemoveEvent, Inv, Types, Kept, DestroyIds
  <2>2. QED
    BY <1>4, <1>5, <2>1 DEF RemoveEvent, contextVars
<1>6. CASE ProcessOneEvent
  <2>1. PICK next \in events :
          events' = events \ {next} /\ finished' = finished \cup {next.impl}
    BY <1>6 DEF ProcessOneEvent
  <2>2. pc # "insert" /\ UNCHANGED <<destroyEvents, batch, withContext, impls>>
    BY <1>6 DEF ProcessOneEvent, contextVars
  <2>3. QED
    BY <1>4, <2>1, <2>2
<1>7. ASSUME NEW id \in issued, RemoveDestroyEvent(id) PROVE Placed'
  <2>1. PICK i \in DOMAIN destroyEvents :
          destroyEvents[i] = id /\ destroyEvents' = RemoveAt(destroyEvents, i)
    BY <1>7 DEF RemoveDestroyEvent
  <2>2. /\ finished' = finished \cup {id.impl}
        /\ UNCHANGED <<events, batch, withContext, impls, pc>>
    BY <1>7 DEF RemoveDestroyEvent, listVars, contextVars
  <2>3. i \in 1..Len(destroyEvents)
    BY <1>0, LenProperties
  <2>4. /\ OnceIn(destroyEvents') /\ ImplsIn(destroyEvents') = B \ {id.impl}
        /\ id.impl \in B
    BY <1>0, <2>1, <2>3, RemoveAtOnce DEF Placed
  <2>5. Share(A, ImplsIn(destroyEvents'), C, D, finished', impls)
    BY <1>0, <2>2, <2>4, ShareDestroyed
  <2>6. QED
    BY <2>2, <2>4, <2>5 DEF Placed, Pending
<1>8. CASE DestroyOne
  <2>1. /\ destroyEvents # <<>> /\ destroyEvents' = Tail(destroyEvents)
        /\ finished' = finished \cup {Head(destroyEvents).impl}
        /\ UNCHANGED <<events, batch, withContext, impls>> /\ pc # "insert"
    BY <1>8 DEF DestroyOne, listVars, contextVars
  <2>2. /\ OnceIn(destroyEvents') /\ ImplsIn(destroyEvents') = B \ {Head(destroyEvents).impl}
        /\ Head(destroyEvents).impl \in B
    BY <1>0, <2>1, TailOnce DEF Placed
  <2>3. Share(A, ImplsIn(destroyEvents'), C, D, finished', impls)
    BY <1>0, <2>1, <2>2, ShareDestroyed
  <2>4. QED
    BY <2>1, <2>2, <2>3 DEF Placed, Pending
<1>9. CASE SwapQueues
  <2>1. /\ batch = <<>> /\ batch' = withContext /\ withContext' = <<>>
        /\ UNCHANGED <<events, destroyEvents, finished, impls>> /\ pc' = "insert"
    BY <1>9 DEF SwapQueues, Placed, listVars, historyVars
  <2>2. Share(A, B, D, {}, finished, impls)
    BY <1>0, <2>1, ShareSwap, NothingPlaced
  <2>3. QED
    BY <2>1, <2>2, NothingPlaced DEF Placed, Pending
<1>10. CASE InsertFromContext
  <2> DEFINE p == Head(batch)
             ev == [ts |-> Due(p.delay), uid |-> uid, impl |-> p.impl]
  <2>1. /\ batch # <<>> /\ batch' = Tail(batch) /\ events' = events \cup {ev}
        /\ UNCHANGED <<destroyEvents, withContext, finished, impls, pc>> /\ pc = "insert"
    BY <1>10 DEF InsertFromContext, Insert, historyVars
  <2>2. OnceIn(batch') /\ ImplsIn(batch') = C \ {p.impl} /\ p.impl \in C
    BY <1>0, <2>1, TailOnce DEF Placed
  <2>3. ev.impl = p.impl
    OBVIOUS
  <2> HIDE DEF ev, p
  <2>4. ev.impl \notin A
    BY <1>0, <2>2, <2>3 DEF Share
  <2>5. Pending' = A \cup {p.impl}
    BY <2>1, <2>3, <2>4, InsertPlaced
  <2>6. Share(Pending', B, ImplsIn(batch'), D, finished, impls)
    BY <1>0, <2>2, <2>5, ShareInsert
  <2>7. QED
    BY <2>1, <2>2, <2>4, <2>6, InsertPlaced DEF Placed
<1>11. CASE ContextProcessed
  BY <1>11, PlacedStays DEF ContextProcessed, listVars, contextVars, historyVars
<1>12. CASE Stop \/ Run \/ HandlerReturns \/ RunReturns \/ SeesNoContext \/ SeesContext
            \/ Destroy \/ DestroyHandlerReturns \/ DestroyReturns \/ UNCHANGED vars
            \/ (\E id \in issued : Cancel(id)) \/ (\E t \in Threads : Posted(t))
  <2>1. UNCHANGED <<events, destroyEvents, batch, withContext, finished, impls>>
    BY <1>12 DEF Stop, Run, HandlerReturns, RunReturns, SeesNoContext, SeesContext, Destroy,
                 DestroyHandlerReturns, DestroyReturns, Cancel, Posted, vars, listVars,
                 contextVars, historyVars
  <2>2. pc' # "insert" => pc # "insert"
    BY <1>12 DEF Stop, Run, HandlerReturns, RunReturns, SeesNoContext, SeesContext, Destroy,
                 DestroyHandlerReturns, DestroyReturns, Cancel, Posted, InProgram, vars
  <2>3. QED
    BY <2>1, <2>2, PlacedStays
<1>13. QED
  BY <1>1, <1>2, <1>3, <1>5, <1>6, <1>7, <1>8, <1>9, <1>10, <1>11, <1>12 DEF Next

\* The EventImpls of a queue.
LEMMA ImplsOfQueue ==
    ASSUME NEW S, NEW s \in Seq(S), \A e \in S : e.impl \in Nat
    PROVE  /\ ImplsOf(s) \in Seq(Nat) /\ Len(ImplsOf(s)) = Len(s)
           /\ \A i \in 1..Len(s) : ImplsOf(s)[i] = s[i].impl
<1>1. Len(s) \in Nat /\ \A i \in 1..Len(s) : s[i].impl \in Nat
  BY LenProperties, ElementOfSeq
<1>2. QED
  BY <1>1 DEF ImplsOf

\* Two queues one after the other, and three.
LEMMA ConcatTwo ==
    ASSUME NEW d \in Seq(Nat), NEW b \in Seq(Nat),
           NEW m \in Nat, m = Len(d), NEW n \in Nat, n = Len(b)
    PROVE  /\ d \o b \in Seq(Nat) /\ Len(d \o b) = m + n
           /\ \A i \in 1..m : (d \o b)[i] = d[i]
           /\ \A i \in 1..n : (d \o b)[m + i] = b[i]
<1>1. d \o b \in Seq(Nat) /\ Len(d \o b) = m + n
  BY ConcatProperties
<1>2. \A i \in 1..m + n : (d \o b)[i] = IF i <= m THEN d[i] ELSE b[i - m]
  BY ConcatProperties
<1>3. ASSUME NEW i \in 1..n PROVE (d \o b)[m + i] = b[i]
  <2>1. m + i \in 1..m + n /\ ~(m + i <= m) /\ (m + i) - m = i
    OBVIOUS
  <2>2. QED
    BY <2>1, <1>2
<1>4. QED
  BY <1>1, <1>2, <1>3

LEMMA ConcatThree ==
    ASSUME NEW d \in Seq(Nat), NEW b \in Seq(Nat), NEW w \in Seq(Nat),
           NEW m \in Nat, m = Len(d), NEW n \in Nat, n = Len(b), NEW k \in Nat, k = Len(w)
    PROVE  /\ DOMAIN (d \o b \o w) = 1..(m + n + k)
           /\ \A i \in 1..m : (d \o b \o w)[i] = d[i]
           /\ \A i \in 1..n : (d \o b \o w)[m + i] = b[i]
           /\ \A i \in 1..k : (d \o b \o w)[m + n + i] = w[i]
<1>1. PICK u : u = d \o b
  OBVIOUS
<1>2. /\ u \in Seq(Nat) /\ Len(u) = m + n
      /\ \A i \in 1..m : u[i] = d[i]
      /\ \A i \in 1..n : u[m + i] = b[i]
  BY <1>1, ConcatTwo
<1>3. PICK p \in Nat : p = m + n
  OBVIOUS
<1>a. u \in Seq(Nat) /\ p = Len(u)
  BY <1>2, <1>3
<1>4. /\ u \o w \in Seq(Nat) /\ Len(u \o w) = p + k
      /\ \A i \in 1..p : (u \o w)[i] = u[i]
      /\ \A i \in 1..k : (u \o w)[p + i] = w[i]
  BY <1>a, ConcatTwo
<1>5. DOMAIN (u \o w) = 1..(m + n + k)
  BY <1>3, <1>4, LenProperties
<1>6. \A i \in 1..m : i \in 1..p
  BY <1>3
<1>7. \A i \in 1..n : m + i \in 1..p
  BY <1>3
<1>8. QED
  BY <1>1, <1>2, <1>3, <1>4, <1>5, <1>6, <1>7

\* A sequence without repetition of the elements of a set.
OnceFrom(s, A) ==
    /\ \A i, j \in 1..Len(s) : s[i] = s[j] => i = j
    /\ A = {s[i] : i \in 1..Len(s)}

\* The places of a number in three queues one after the other.
Places(Q, d, b, w, x) == Q = {i \in DOMAIN (d \o b \o w) : (d \o b \o w)[i] = x}

\* How often a number is in three queues that hold no number twice between them.
LEMMA CountInThree ==
    ASSUME NEW d \in Seq(Nat), NEW b \in Seq(Nat), NEW w \in Seq(Nat),
           NEW B, NEW C, NEW D, OnceFrom(d, B), OnceFrom(b, C), OnceFrom(w, D),
           B \cap C = {}, B \cap D = {}, C \cap D = {},
           NEW x, NEW Q, Places(Q, d, b, w, x)
    PROVE  Cardinality(Q) = IF x \in B \cup C \cup D THEN 1 ELSE 0
<1> DEFINE t == d \o b \o w
<1>1. PICK m \in Nat : m = Len(d)
  BY LenProperties
<1>2. PICK n \in Nat : n = Len(b)
  BY LenProperties
<1>3. PICK k \in Nat : k = Len(w)
  BY LenProperties
<1>4. /\ DOMAIN t = 1..(m + n + k)
      /\ \A i \in 1..m : t[i] = d[i]
      /\ \A i \in 1..n : t[m + i] = b[i]
      /\ \A i \in 1..k : t[m + n + i] = w[i]
  <2>1. /\ DOMAIN (d \o b \o w) = 1..(m + n + k)
        /\ \A i \in 1..m : (d \o b \o w)[i] = d[i]
        /\ \A i \in 1..n : (d \o b \o w)[m + i] = b[i]
        /\ \A i \in 1..k : (d \o b \o w)[m + n + i] = w[i]
    BY <1>1, <1>2, <1>3, ConcatThree, SMTT(60)
  <2>2. QED
    BY <2>1
<1> HIDE DEF t
<1>5. ASSUME NEW i \in DOMAIN t
      PROVE  \/ i \in 1..m
             \/ \E j \in 1..n : i = m + j
             \/ \E j \in 1..k : i = m + n + j
  <2>1. i \in 1..(m + n + k)
    BY <1>4
  <2>2. CASE i <= m
    BY <2>1, <2>2
  <2>3. CASE m < i /\ i <= m + n
    <3>1. i - m \in 1..n /\ i = m + (i - m)
      BY <2>1, <2>3
    <3>2. QED
      BY <3>1
  <2>4. CASE m + n < i
    <3>1. i - (m + n) \in 1..k /\ i = m + n + (i - (m + n))
      BY <2>1, <2>4
    <3>2. QED
      BY <3>1
  <2>5. QED
    BY <2>1, <2>2, <2>3, <2>4
<1>6. /\ \A i \in 1..m : t[i] \in B
      /\ \A i \in 1..n : t[m + i] \in C
      /\ \A i \in 1..k : t[m + n + i] \in D
  BY <1>1, <1>2, <1>3, <1>4 DEF OnceFrom
<1>7. ASSUME NEW i \in DOMAIN t, NEW j \in DOMAIN t, t[i] = t[j]
      PROVE  i = j
  <2>1. CASE i \in 1..m
    <3>1. j \in 1..m
      BY <1>5, <1>6, <1>7, <2>1
    <3>2. QED
      BY <1>1, <1>4, <1>7, <2>1, <3>1 DEF OnceFrom
  <2>2. CASE \E a \in 1..n : i = m + a
    <3>1. PICK a \in 1..n : i = m + a
      BY <2>2
    <3>2. PICK c \in 1..n : j = m + c
      BY <1>5, <1>6, <1>7, <3>1
    <3>3. a = c
      BY <1>2, <1>4, <1>7, <3>1, <3>2 DEF OnceFrom
    <3>4. QED
      BY <3>1, <3>2, <3>3
  <2>3. CASE \E a \in 1..k : i = m + n + a
    <3>1. PICK a \in 1..k : i = m + n + a
      BY <2>3
    <3>2. PICK c \in 1..k : j = m + n + c
      BY <1>5, <1>6, <1>7, <3>1
    <3>3. a = c
      BY <1>3, <1>4, <1>7, <3>1, <3>2 DEF OnceFrom
    <3>4. QED
      BY <3>1, <3>2, <3>3
  <2>4. QED
    BY <1>5, <2>1, <2>2, <2>3
<1>8. CASE x \in B \cup C \cup D
  <2>1. \E i \in DOMAIN t : t[i] = x
    <3>1. CASE x \in B
      <4>1. PICK i \in 1..m : x = d[i]
        BY <1>1, <3>1 DEF OnceFrom
      <4>2. i \in DOMAIN t
        BY <1>4
      <4>3. QED
        BY <1>4, <4>1, <4>2
    <3>2. CASE x \in C
      <4>1. PICK i \in 1..n : x = b[i]
        BY <1>2, <3>2 DEF OnceFrom
      <4>2. m + i \in DOMAIN t
        BY <1>4
      <4>3. QED
        BY <1>4, <4>1, <4>2
    <3>3. CASE x \in D
      <4>1. PICK i \in 1..k : x = w[i]
        BY <1>3, <3>3 DEF OnceFrom
      <4>2. m + n + i \in DOMAIN t
        BY <1>4
      <4>3. QED
        BY <1>4, <4>1, <4>2
    <3>4. QED
      BY <1>8, <3>1, <3>2, <3>3
  <2>2. PICK i \in DOMAIN t : t[i] = x
    BY <2>1
  <2>3. Q = {i}
    BY <1>7, <2>2 DEF t, Places
  <2>4. QED
    BY <1>8, <2>3, FS_Singleton
<1>9. CASE x \notin B \cup C \cup D
  <2>1. \A i \in DOMAIN t : t[i] \in B \cup C \cup D
    BY <1>5, <1>6
  <2>2. Q = {}
    BY <1>9, <2>1 DEF t, Places
  <2>3. QED
    BY <1>9, <2>2, FS_EmptySet
<1>10. QED
  BY <1>8, <1>9

\* Every EventImpl is created once, and until it is taken off a list it is in one of them or
\* on its way from another thread: none is lost or duplicated, whatever the threads do.
THEOREM EachEventOnceHolds == Spec => []EachEventOnce
<1>1. Spec => []Placed
  BY InitiallyPlaced, PlacedPreserved, Invariant, PTL DEF Spec
<1>2. ASSUME Inv, Placed PROVE EachEventOnce
  <2> DEFINE d == ImplsOf(destroyEvents)
             b == ImplsOf(batch)
             w == ImplsOf(withContext)
             B == ImplsIn(destroyEvents)
             C == ImplsIn(batch)
             D == ImplsIn(withContext)
             InEvents(impl) == {ev \in events : ev.impl = impl}
             InQueued(impl) == {i \in DOMAIN (d \o b \o w) : (d \o b \o w)[i] = impl}
  <2>0. /\ destroyEvents \in Seq(DestroyIds) /\ batch \in Seq(Postings)
        /\ withContext \in Seq(Postings)
    BY <1>2 DEF Inv, Types
  <2>1. /\ d \in Seq(Nat) /\ Len(d) = Len(destroyEvents)
        /\ \A i \in 1..Len(d) : d[i] = destroyEvents[i].impl
    <3>1. \A e \in DestroyIds : e.impl \in Nat
      BY DEF DestroyIds
    <3>2. QED
      BY <2>0, <3>1, ImplsOfQueue
  <2>2. \A p \in Postings : p.impl \in Nat
    BY DEF Postings
  <2>3. /\ b \in Seq(Nat) /\ Len(b) = Len(batch)
        /\ \A i \in 1..Len(b) : b[i] = batch[i].impl
    BY <2>0, <2>2, ImplsOfQueue
  <2>4. /\ w \in Seq(Nat) /\ Len(w) = Len(withContext)
        /\ \A i \in 1..Len(w) : w[i] = withContext[i].impl
    BY <2>0, <2>2, ImplsOfQueue
  <2> HIDE DEF d, b, w
  <2> SUFFICES ASSUME NEW impl \in 1..impls
               PROVE  Cardinality(InEvents(impl)) + Cardinality(InQueued(impl))
                      + (IF impl \in finished THEN 1 ELSE 0) = 1
    BY DEF EachEventOnce, d, b, w
  <2>5. Share(Pending, B, C, D, finished, impls)
    BY <1>2 DEF Placed
  <2>6. Cardinality(InEvents(impl)) = IF impl \in Pending THEN 1 ELSE 0
    <3>1. CASE impl \in Pending
      <4>1. PICK ev \in events : ev.impl = impl
        BY <3>1 DEF Pending
      <4>2. InEvents(impl) = {ev}
        BY <1>2, <4>1 DEF Placed
      <4>3. QED
        BY <3>1, <4>2, FS_Singleton
    <3>2. CASE impl \notin Pending
      <4>1. InEvents(impl) = {}
        BY <3>2 DEF Pending
      <4>2. QED
        BY <3>2, <4>1, FS_EmptySet
    <3>3. QED
      BY <3>1, <3>2
  <2>7. OnceFrom(d, B)
    BY <1>2, <2>1 DEF Placed, OnceIn, ImplsIn, OnceFrom
  <2>8. OnceFrom(b, C)
    BY <1>2, <2>3 DEF Placed, OnceIn, ImplsIn, OnceFrom
  <2>9. OnceFrom(w, D)
    BY <1>2, <2>4 DEF Placed, OnceIn, ImplsIn, OnceFrom
  <2>10. B \cap C = {} /\ B \cap D = {} /\ C \cap D = {}
    BY <2>5 DEF Share
  <2>11. Cardinality(InQueued(impl)) = IF impl \in B \cup C \cup D THEN 1 ELSE 0
    <3> HIDE DEF B, C, D
    <3>1. Places(InQueued(impl), d, b, w, impl)
      BY DEF Places
    <3>2. d \in Seq(Nat) /\ b \in Seq(Nat) /\ w \in Seq(Nat)
      BY <2>1, <2>3, <2>4
    <3> HIDE DEF InQueued
    <3>3. QED
      BY <3>1, <3>2, <2>7, <2>8, <2>9, <2>10, CountInThree, SMTT(60)
  <2> HIDE DEF InEvents, InQueued, B, C, D
  <2>12. \/ impl \in Pending /\ impl \notin B \cup C \cup D /\ impl \notin finished
         \/ impl \notin Pending /\ impl \in B \cup C \cup D /\ impl \notin finished
         \/ impl \notin Pending /\ impl \notin B \cup C \cup D /\ impl \in finished
    BY <2>5 DEF Share
  <2>13. QED
    BY <2>6, <2>11, <2>12
<1>3. QED
  BY <1>1, <1>2, Invariant, PTL

==============================================================================

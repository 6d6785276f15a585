------------------------------ MODULE Simulator ------------------------------
(***************************************************************************)
(* ns3::DefaultSimulatorImpl (default-simulator-impl.cc in src/core/model) *)
(* with its event list (scheduler.h, map-scheduler.cc) and EventImpl:      *)
(* the loop of Run in the main thread, the operations that the program and *)
(* the handlers of events call there, and the threads that schedule events *)
(* with ScheduleWithContext.                                               *)
(*                                                                         *)
(* An EventImpl is the number of its creation.  An event is what its key   *)
(* and its EventId hold: the time stamp, the uid and the EventImpl.        *)
(***************************************************************************)
EXTENDS Integers, FiniteSets, SequencesExt

CONSTANTS
    Threads,      \* the threads that are not the main thread
    NoThread,     \* the owner of a free mutex
    Delays,       \* the delays that events are scheduled with
    MaxEvents     \* bound: the number of EventImpls; m_uid does not wrap around

ASSUME DelaysAssumption == Delays \subseteq Nat
ASSUME MaxEventsAssumption == MaxEvents \in Nat
ASSUME ThreadsAssumption == NoThread \notin Threads

VARIABLES
    events,           \* m_events, as a set: its order is that of the keys
    destroyEvents,    \* m_destroyEvents
    cancelled,        \* the EventImpls whose m_cancel is set
    now,              \* m_currentTs
    currentUid,       \* m_currentUid
    uid,              \* m_uid
    stop,             \* m_stop
    unscheduled,      \* m_unscheduledEvents
    withContext,      \* m_eventsWithContext
    withContextEmpty, \* m_eventsWithContextEmpty
    mutex,            \* the owner of m_eventsWithContextMutex
    batch,            \* the local variable of ProcessEventsWithContext
    pc,               \* where the main thread is
    impls,            \* history: the number of EventImpls created
    issued,           \* history: the EventIds returned to the program
    finished          \* history: the EventImpls taken off a list

listVars == <<events, unscheduled, uid>>
clockVars == <<now, currentUid>>
contextVars == <<withContext, withContextEmpty, mutex, batch>>
historyVars == <<impls, issued, finished>>
vars == <<listVars, clockVars, contextVars, historyVars, destroyEvents, cancelled, stop, pc>>

DestroyUid == 2
FirstUid == 4

Init ==
    /\ events = {} /\ unscheduled = 0 /\ uid = FirstUid
    /\ now = 0 /\ currentUid = 0
    /\ withContext = <<>> /\ withContextEmpty = TRUE /\ mutex = NoThread /\ batch = <<>>
    /\ impls = 0 /\ issued = {} /\ finished = {}
    /\ destroyEvents = <<>> /\ cancelled = {} /\ stop = FALSE
    /\ pc = "program"

-----------------------------------------------------------------------------
(* What the program calls in the main thread: before and after Run, in the *)
(* handler of an event and in that of a destroy event.                     *)

InProgram == pc \in {"program", "handler", "destroyHandler"}

\* operator < of Scheduler::EventKey
Before(a, b) == a.ts < b.ts \/ (a.ts = b.ts /\ a.uid < b.uid)

\* A slip: the delay alone.
DelayAlone(delay) == delay

\* The absolute time of a delay.
Due(delay) == now + delay

\* The insertion of an event at the next uid.
Insert(ev) ==
    /\ events' = events \cup {ev}
    /\ unscheduled' = unscheduled + 1
    /\ uid' = uid + 1

\* Schedule; ScheduleNow is Schedule (0), Stop (delay) schedules a call of Stop.
Schedule(delay) ==
    LET ev == [ts |-> Due(delay), uid |-> uid, impl |-> impls + 1]
    IN  /\ InProgram
        /\ impls < MaxEvents
        /\ Insert(ev)
        /\ impls' = impls + 1
        /\ issued' = issued \cup {ev}
        /\ UNCHANGED <<clockVars, contextVars, finished, destroyEvents, cancelled, stop, pc>>

\* ScheduleWithContext called by the main thread: no EventId is returned.
ScheduleWithContext(delay) ==
    /\ InProgram
    /\ impls < MaxEvents
    /\ Insert([ts |-> Due(delay), uid |-> uid, impl |-> impls + 1])
    /\ impls' = impls + 1
    /\ UNCHANGED <<clockVars, contextVars, issued, finished, destroyEvents, cancelled, stop, pc>>

ScheduleDestroy ==
    LET ev == [ts |-> now, uid |-> DestroyUid, impl |-> impls + 1]
    IN  /\ InProgram
        /\ impls < MaxEvents
        /\ destroyEvents' = Append(destroyEvents, ev)
        /\ uid' = uid + 1
        /\ impls' = impls + 1
        /\ issued' = issued \cup {ev}
        /\ UNCHANGED <<events, unscheduled, clockVars, contextVars, finished, cancelled,
                       stop, pc>>

\* A slip: the event that runs is not expired.
IsExpiredAfter(id) ==
    IF id.uid = DestroyUid
    THEN id.impl \in cancelled \/ id \notin Range(destroyEvents)
    ELSE \/ id.ts < now
         \/ id.ts = now /\ id.uid < currentUid
         \/ id.impl \in cancelled

IsExpired(id) ==
    IF id.uid = DestroyUid
    THEN id.impl \in cancelled \/ id \notin Range(destroyEvents)
    ELSE \/ id.ts < now
         \/ id.ts = now /\ id.uid <= currentUid
         \/ id.impl \in cancelled

Cancel(id) ==
    /\ InProgram
    /\ ~IsExpired(id)
    /\ cancelled' = cancelled \cup {id.impl}
    /\ UNCHANGED <<listVars, clockVars, contextVars, historyVars, destroyEvents, stop, pc>>

\* A slip: the removed event is still counted.
RemoveUncounted(id) ==
    /\ InProgram
    /\ id.uid # DestroyUid
    /\ ~IsExpired(id)
    /\ events' = events \ {id}
    /\ cancelled' = cancelled \cup {id.impl}
    /\ finished' = finished \cup {id.impl}
    /\ UNCHANGED <<unscheduled, uid, clockVars, contextVars, impls, issued, destroyEvents,
                   stop, pc>>

\* Remove of an event: it is also cancelled, for the copies of its EventId.
RemoveEvent(id) ==
    /\ InProgram
    /\ id.uid # DestroyUid
    /\ ~IsExpired(id)
    /\ events' = events \ {id}
    /\ cancelled' = cancelled \cup {id.impl}
    /\ unscheduled' = unscheduled - 1
    /\ finished' = finished \cup {id.impl}
    /\ UNCHANGED <<uid, clockVars, contextVars, impls, issued, destroyEvents, stop, pc>>

\* Remove of a destroy event.
RemoveDestroyEvent(id) ==
    /\ InProgram
    /\ id.uid = DestroyUid
    /\ \E i \in DOMAIN destroyEvents :
          /\ destroyEvents[i] = id
          /\ destroyEvents' = RemoveAt(destroyEvents, i)
    /\ finished' = finished \cup {id.impl}
    /\ UNCHANGED <<listVars, clockVars, contextVars, impls, issued, cancelled, stop, pc>>

Stop ==
    /\ InProgram
    /\ stop' = TRUE
    /\ UNCHANGED <<listVars, clockVars, contextVars, historyVars, destroyEvents, cancelled, pc>>

-----------------------------------------------------------------------------
(* The main thread: Run, ProcessOneEvent and ProcessEventsWithContext.     *)

\* Run is entered.  Nothing reads m_stop before the loop, so that it is
\* cleared here and not after the first ProcessEventsWithContext.
Run ==
    /\ pc = "program"
    /\ stop' = FALSE
    /\ pc' = "check"
    /\ UNCHANGED <<listVars, clockVars, contextVars, historyVars, destroyEvents, cancelled>>

\* The removal of the next event, its Invoke, and the first step of its handler.
ProcessOneEvent ==
    /\ pc = "loop"
    /\ ~stop
    /\ \E next \in events :
          /\ \A other \in events \ {next} : Before(next, other)
          /\ events' = events \ {next}
          /\ unscheduled' = unscheduled - 1
          /\ now' = next.ts
          /\ currentUid' = next.uid
          /\ finished' = finished \cup {next.impl}
          /\ pc' = IF next.impl \in cancelled THEN "check" ELSE "handler"
    /\ UNCHANGED <<uid, contextVars, impls, issued, destroyEvents, cancelled, stop>>

HandlerReturns ==
    /\ pc = "handler"
    /\ pc' = "check"
    /\ UNCHANGED <<listVars, clockVars, contextVars, historyVars, destroyEvents, cancelled, stop>>

RunReturns ==
    /\ pc = "loop"
    /\ events = {} \/ stop
    /\ pc' = "program"
    /\ UNCHANGED <<listVars, clockVars, contextVars, historyVars, destroyEvents, cancelled, stop>>

\* m_eventsWithContextEmpty is read without the mutex: the main thread may
\* still see what it wrote last, TRUE, after another thread wrote FALSE.
SeesNoContext ==
    /\ pc = "check"
    /\ pc' = "loop"
    /\ UNCHANGED <<listVars, clockVars, contextVars, historyVars, destroyEvents, cancelled, stop>>

SeesContext ==
    /\ pc = "check"
    /\ ~withContextEmpty
    /\ pc' = "swap"
    /\ UNCHANGED <<listVars, clockVars, contextVars, historyVars, destroyEvents, cancelled, stop>>

\* A slip: the queue is copied.
CopyQueue ==
    /\ pc = "swap"
    /\ mutex = NoThread
    /\ batch' = withContext
    /\ withContextEmpty' = TRUE
    /\ pc' = "insert"
    /\ UNCHANGED <<withContext, mutex, listVars, clockVars, historyVars, destroyEvents,
                   cancelled, stop>>

\* The critical section of ProcessEventsWithContext.
SwapQueues ==
    /\ pc = "swap"
    /\ mutex = NoThread
    /\ batch' = withContext
    /\ withContext' = <<>>
    /\ withContextEmpty' = TRUE
    /\ pc' = "insert"
    /\ UNCHANGED <<mutex, listVars, clockVars, historyVars, destroyEvents, cancelled, stop>>

\* An iteration of its loop: the time stamp is relative to the current time.
InsertFromContext ==
    /\ pc = "insert"
    /\ batch # <<>>
    /\ Insert([ts |-> Due(Head(batch).delay), uid |-> uid, impl |-> Head(batch).impl])
    /\ batch' = Tail(batch)
    /\ UNCHANGED <<withContext, withContextEmpty, mutex, clockVars, historyVars,
                   destroyEvents, cancelled, stop, pc>>

\* A slip: the flag is set after the insertions, without the mutex.
ContextProcessedThenFlag ==
    /\ pc = "insert"
    /\ batch = <<>>
    /\ withContextEmpty' = TRUE
    /\ pc' = "loop"
    /\ UNCHANGED <<withContext, mutex, batch, listVars, clockVars, historyVars,
                   destroyEvents, cancelled, stop>>

ContextProcessed ==
    /\ pc = "insert"
    /\ batch = <<>>
    /\ pc' = "loop"
    /\ UNCHANGED <<listVars, clockVars, contextVars, historyVars, destroyEvents, cancelled, stop>>

\* Destroy is entered.
Destroy ==
    /\ pc = "program"
    /\ pc' = "destroy"
    /\ UNCHANGED <<listVars, clockVars, contextVars, historyVars, destroyEvents, cancelled, stop>>

\* An iteration of its loop, up to the first step of the handler.
DestroyOne ==
    /\ pc = "destroy"
    /\ destroyEvents # <<>>
    /\ destroyEvents' = Tail(destroyEvents)
    /\ finished' = finished \cup {Head(destroyEvents).impl}
    /\ pc' = IF Head(destroyEvents).impl \in cancelled THEN "destroy" ELSE "destroyHandler"
    /\ UNCHANGED <<listVars, clockVars, contextVars, impls, issued, cancelled, stop>>

DestroyHandlerReturns ==
    /\ pc = "destroyHandler"
    /\ pc' = "destroy"
    /\ UNCHANGED <<listVars, clockVars, contextVars, historyVars, destroyEvents, cancelled, stop>>

DestroyReturns ==
    /\ pc = "destroy"
    /\ destroyEvents = <<>>
    /\ pc' = "destroyed"
    /\ UNCHANGED <<listVars, clockVars, contextVars, historyVars, destroyEvents, cancelled, stop>>

-----------------------------------------------------------------------------
(* ScheduleWithContext called by another thread.                           *)

\* The mutex is taken and the event appended.
Post(t, delay) ==
    /\ pc # "destroyed"
    /\ impls < MaxEvents
    /\ mutex = NoThread
    /\ mutex' = t
    /\ withContext' = Append(withContext, [delay |-> delay, impl |-> impls + 1])
    /\ impls' = impls + 1
    /\ UNCHANGED <<withContextEmpty, batch, listVars, clockVars, issued, finished,
                   destroyEvents, cancelled, stop, pc>>

\* The flag is cleared and the mutex released.
Posted(t) ==
    /\ mutex = t
    /\ withContextEmpty' = FALSE
    /\ mutex' = NoThread
    /\ UNCHANGED <<withContext, batch, listVars, clockVars, historyVars, destroyEvents,
                   cancelled, stop, pc>>

Next ==
    \/ \E delay \in Delays : Schedule(delay) \/ ScheduleWithContext(delay)
    \/ ScheduleDestroy \/ Stop
    \/ \E id \in issued : Cancel(id) \/ RemoveEvent(id) \/ RemoveDestroyEvent(id)
    \/ Run \/ ProcessOneEvent \/ HandlerReturns \/ RunReturns
    \/ SeesNoContext \/ SeesContext \/ SwapQueues \/ InsertFromContext \/ ContextProcessed
    \/ Destroy \/ DestroyOne \/ DestroyHandlerReturns \/ DestroyReturns
    \/ \E t \in Threads : Posted(t) \/ \E delay \in Delays : Post(t, delay)

Spec == Init /\ [][Next]_vars

-----------------------------------------------------------------------------
(* Properties *)

\* Events are run in the order of their keys, across the calls of Run: neither
\* an operation of a handler nor an event of another thread ever inserts one
\* before the event that ran last ("NS_ASSERT (next.key.m_ts >= m_currentTs)").
RunsInOrder ==
    [][clockVars' # clockVars =>
          Before([ts |-> now, uid |-> currentUid], [ts |-> now', uid |-> currentUid'])]_vars

\* IsExpired compares an EventId with the clock and never looks at the event
\* list: it is true exactly of the events that are no longer in a list or were
\* cancelled, in handlers, between them and between the calls of Run.
ExpiredIsGone ==
    \A id \in issued :
        IsExpired(id) <=>
            id.impl \in cancelled \/ id \notin events \cup Range(destroyEvents)

\* "We didn't lose any events along the way": m_unscheduledEvents is the number
\* of events in the list, the cancelled ones included and the removed ones not.
UnscheduledIsPending == unscheduled = Cardinality(events)

\* The EventImpls of the events in the queues.
ImplsOf(s) == [i \in 1..Len(s) |-> s[i].impl]

\* Every event created is exactly once in the event list, in the list of destroy
\* events, on its way from another thread, or taken off a list.
EachEventOnce ==
    LET queued == ImplsOf(destroyEvents) \o ImplsOf(batch) \o ImplsOf(withContext)
    IN  \A impl \in 1..impls :
            Cardinality({ev \in events : ev.impl = impl})
            + Cardinality({i \in DOMAIN queued : queued[i] = impl})
            + (IF impl \in finished THEN 1 ELSE 0) = 1

\* m_eventsWithContextEmpty hides no event of another thread: while it is set
\* the queue is empty, or the thread that appended to it is about to clear it.
PostedIsFlagged == withContextEmpty /\ mutex = NoThread => withContext = <<>>
==============================================================================

-------------------------- MODULE RealtimeSimulator --------------------------
(***************************************************************************)
(* ns3::RealtimeSimulatorImpl (realtime-simulator-impl.cc in               *)
(* src/core/model) with WallClockSynchronizer (wall-clock-synchronizer.cc) *)
(* and the condition it waits on (unix-system-condition.cc): the main      *)
(* thread waits for the wall clock to reach the time of the first event,   *)
(* while other threads insert events that may come before it.              *)
(*                                                                         *)
(* realtime is the wall clock since SetOrigin.  A critical section of the  *)
(* main thread is one step; one of another thread is several, because its  *)
(* last part, Signal, touches what the main thread reads without m_mutex.  *)
(***************************************************************************)
EXTENDS Integers, FiniteSets

CONSTANTS
    Threads,    \* the threads that are not the main thread
    NoThread,   \* the owner of a free m_mutex
    Delays,     \* the delays that events are scheduled with
    Jiffy,      \* m_jiffy: the quantum of a sleep
    Second,     \* NS_PER_SEC
    Origin,     \* what the wall clock shows beyond a whole second at SetOrigin
    IdleDelay,  \* what Run waits for when there is no event: one second
    HardLimit,  \* m_hardLimit
    MaxEvents,  \* bound: the number of events
    Horizon     \* bound: the wall clock and the times of events

ASSUME RealtimeAssumption ==
    /\ NoThread \notin Threads
    /\ Delays \subseteq Nat /\ IdleDelay \in Nat /\ HardLimit \in Nat
    /\ Jiffy \in Nat \ {0} /\ Second \in Nat \ {0} /\ Origin \in 0..(Second - 1)
    /\ MaxEvents \in Nat /\ Horizon \in Nat

VARIABLES
    realtime,    \* GetNormalizedRealtime (): zero until SetOrigin
    events,      \* m_events, as a set: its order is that of the keys
    uid,         \* m_uid
    currentTs,   \* m_currentTs
    currentUid,  \* m_currentUid
    stop,        \* m_stop
    running,     \* m_running
    hardMode,    \* m_synchronizationMode = SYNC_HARD_LIMIT
    mutex,       \* the owner of m_mutex
    posting,     \* how far the owner is in Signal
    condition,   \* m_condition of the SystemCondition
    signalled,   \* m_cond was signalled while the main thread waited on it
    target,      \* the time Synchronize waits for: tsCurrent + tsDelay
    idle,        \* Synchronize was called by Run, not by ProcessOneEvent
    deadline,    \* the end of the sleep in TimedWait, or NoDeadline
    pc           \* where the main thread is

clockVars == <<currentTs, currentUid>>
listVars == <<events, uid>>
waitVars == <<target, idle, deadline>>
signalVars == <<condition, signalled>>
lockVars == <<mutex, posting>>
runVars == <<stop, running, hardMode>>
vars == <<realtime, clockVars, listVars, waitVars, signalVars, lockVars, runVars, pc>>

FirstUid == 4

Init ==
    /\ realtime = 0
    /\ events = {} /\ uid = FirstUid /\ currentTs = 0 /\ currentUid = 0
    /\ stop = FALSE /\ running = FALSE /\ hardMode \in BOOLEAN
    /\ mutex = NoThread /\ posting = "no"
    /\ condition = FALSE /\ signalled = FALSE
    /\ target = 0 /\ idle = FALSE /\ deadline = 0
    /\ pc = "program"

-----------------------------------------------------------------------------
(* The list of events. *)

\* operator < of Scheduler::EventKey
Before(a, b) == a.ts < b.ts \/ (a.ts = b.ts /\ a.uid < b.uid)

IsFirst(e) == \A f \in events \ {e} : Before(e, f)

\* The insertion at time ts; an event with an EventId can be removed.
Insert(ts, hasId) ==
    /\ uid < FirstUid + MaxEvents
    /\ ts <= Horizon
    /\ events' = events \cup {[ts |-> ts, uid |-> uid, hasId |-> hasId]}
    /\ uid' = uid + 1

IsExpired(e) == e.ts < currentTs \/ (e.ts = currentTs /\ e.uid <= currentUid)

-----------------------------------------------------------------------------
(* What the program and the handlers of events call in the main thread.    *)
(* Its own Signal finds nobody waiting and only sets the condition.        *)

InProgram == pc \in {"program", "handler"}

\* The critical section of the Schedule methods.
ScheduleAt(ts, hasId) ==
    /\ InProgram
    /\ mutex = NoThread
    /\ Insert(ts, hasId)
    /\ condition' = TRUE
    /\ UNCHANGED <<realtime, clockVars, waitVars, signalled, lockVars, runVars, pc>>

\* ScheduleNow is a delay of zero.
Schedule(delay) == ScheduleAt(currentTs + delay, TRUE)

ScheduleWithContext(delay) == ScheduleAt(currentTs + delay, FALSE)

\* What the threads and ScheduleRealtimeNow take for the present.
Present == IF running THEN realtime ELSE currentTs

ScheduleRealtimeNow == ScheduleAt(Present, FALSE)

\* The clock has no origin before Run.
ScheduleRealtime(delay) == running /\ ScheduleAt(realtime + delay, FALSE)

Remove(e) ==
    /\ InProgram
    /\ mutex = NoThread
    /\ e.hasId
    /\ ~IsExpired(e)
    /\ events' = events \ {e}
    /\ UNCHANGED <<realtime, uid, clockVars, waitVars, signalVars, lockVars, runVars, pc>>

\* Stop; Stop (delay) schedules an event whose handler calls it.
Stop ==
    /\ pc = "handler"
    /\ ~stop
    /\ stop' = TRUE
    /\ UNCHANGED <<realtime, clockVars, listVars, waitVars, signalVars, lockVars,
                   running, hardMode, pc>>

HandlerReturns ==
    /\ pc = "handler"
    /\ pc' = "loop"
    /\ UNCHANGED <<realtime, clockVars, listVars, waitVars, signalVars, lockVars, runVars>>

-----------------------------------------------------------------------------
(* Run and ProcessOneEvent. *)

Run ==
    /\ pc = "program"
    /\ stop' = FALSE
    /\ running' = TRUE
    /\ pc' = "loop"
    /\ UNCHANGED <<realtime, clockVars, listVars, waitVars, signalVars, lockVars, hardMode>>

RunReturns ==
    /\ pc = "loop"
    /\ stop
    /\ mutex = NoThread
    /\ running' = FALSE
    /\ pc' = "ended"
    /\ UNCHANGED <<realtime, clockVars, listVars, waitVars, signalVars, lockVars, stop, hardMode>>

\* The list is empty: Run waits for a signal or for a second.
WaitIdle ==
    /\ pc = "loop"
    /\ ~stop
    /\ mutex = NoThread
    /\ events = {}
    /\ target' = realtime + IdleDelay
    /\ idle' = TRUE
    /\ pc' = "synchronize"
    /\ UNCHANGED <<realtime, clockVars, listVars, deadline, signalVars, lockVars, runVars>>

EnterProcessOneEvent ==
    /\ pc = "loop"
    /\ ~stop
    /\ mutex = NoThread
    /\ events # {}
    /\ pc' = "next"
    /\ UNCHANGED <<realtime, clockVars, listVars, waitVars, signalVars, lockVars, runVars>>

\* The time to wait for: tsNow + tsDelay.
DueTime(e) == IF e.ts <= realtime THEN realtime ELSE e.ts

WaitForFirst ==
    /\ pc = "next"
    /\ mutex = NoThread
    /\ \E e \in events : IsFirst(e) /\ target' = DueTime(e)
    /\ idle' = FALSE
    /\ condition' = FALSE
    /\ pc' = "synchronize"
    /\ UNCHANGED <<realtime, clockVars, listVars, deadline, signalled, lockVars, runVars>>

\* In SYNC_HARD_LIMIT an event that is off by more than the limit ends the program.
OverHardLimit(ts) ==
    hardMode /\ (IF realtime >= ts THEN realtime - ts ELSE ts - realtime) > HardLimit

\* The first event, which need not be the one that was waited for.
RunFirst ==
    /\ pc = "due"
    /\ mutex = NoThread
    /\ \E e \in events :
          /\ IsFirst(e)
          /\ events' = events \ {e}
          /\ currentTs' = e.ts
          /\ currentUid' = e.uid
          /\ pc' = IF OverHardLimit(e.ts) THEN "fatal" ELSE "handler"
    /\ UNCHANGED <<realtime, uid, waitVars, signalVars, lockVars, runVars>>

-----------------------------------------------------------------------------
(* WallClockSynchronizer::DoSynchronize and SystemCondition::TimedWait. *)

Goto(place) ==
    /\ pc' = place
    /\ UNCHANGED <<realtime, clockVars, listVars, target, idle, signalVars, lockVars, runVars>>

\* DoSynchronize returns true, which Run ignores.
Synchronized ==
    /\ deadline' = 0
    /\ Goto(IF idle THEN "loop" ELSE "due")

\* A slip: an interrupted wait counts as a completed one.
InterruptedIsDone == Synchronized

\* DoSynchronize returns false: the caller looks at the list again.
Interrupted ==
    /\ deadline' = 0
    /\ Goto(IF idle THEN "loop" ELSE "next")

\* DriftCorrect: the part of the delay that has not passed yet.
Remaining == IF realtime <= target THEN target - realtime ELSE 0

\* The sleep ends three jiffies early; less than four are waited for by spinning.
Margin == 3
Jiffies == Remaining \div Jiffy

NoDeadline == -1

\* The end of a sleep.  The nanoseconds of the wall clock and of the sleep are carried
\* into the seconds only when they are more than one: a whole second is an invalid time.
EndOfSleep(length) ==
    IF ((Origin + realtime) % Second) + (length % Second) = Second
    THEN NoDeadline
    ELSE realtime + length

StartSleep ==
    /\ pc = "synchronize"
    /\ Jiffies > Margin
    /\ deadline' = EndOfSleep((Jiffies - Margin) * Jiffy)
    /\ Goto("timedWait")

SkipSleep ==
    /\ pc = "synchronize"
    /\ Jiffies <= Margin
    /\ deadline' = 0
    /\ Goto("spin")

\* pthread_cond_timedwait gives up the mutex of the condition and waits in one step.  It
\* refuses an invalid deadline at once, and the test of the condition is repeated.
Sleep ==
    /\ pc = "timedWait"
    /\ ~condition
    /\ deadline # NoDeadline
    /\ UNCHANGED deadline
    /\ Goto("asleep")

SleepInterrupted ==
    /\ pc = "timedWait"
    /\ condition
    /\ Interrupted

\* The test of the condition is repeated.
Wake ==
    /\ pc = "asleep"
    /\ signalled
    /\ signalled' = FALSE
    /\ pc' = "timedWait"
    /\ UNCHANGED <<realtime, clockVars, listVars, waitVars, condition, lockVars, runVars>>

\* pthread_cond_timedwait may return early for no reason, but not for ever.
SpuriousWake ==
    /\ pc = "asleep"
    /\ ~signalled
    /\ realtime < deadline
    /\ UNCHANGED deadline
    /\ Goto("timedWait")

\* A slip: the sleep is taken for the whole wait.
SleepIsEnough ==
    /\ pc = "asleep"
    /\ realtime >= deadline
    /\ signalled' = FALSE
    /\ deadline' = 0
    /\ pc' = IF idle THEN "loop" ELSE "due"
    /\ UNCHANGED <<realtime, clockVars, listVars, target, idle, condition, lockVars, runVars>>

SleepTimedOut ==
    /\ pc = "asleep"
    /\ realtime >= deadline
    /\ signalled' = FALSE
    /\ deadline' = 0
    /\ pc' = "spin"
    /\ UNCHANGED <<realtime, clockVars, listVars, target, idle, condition, lockVars, runVars>>

\* The test of the drift, and that of each round of SpinWait.
TargetReached ==
    /\ pc = "spin"
    /\ realtime >= target
    /\ Synchronized

TargetAhead ==
    /\ pc = "spin"
    /\ realtime < target
    /\ UNCHANGED deadline
    /\ Goto("spinCondition")

SpinInterrupted ==
    /\ pc = "spinCondition"
    /\ condition
    /\ Interrupted

SpinOn ==
    /\ pc = "spinCondition"
    /\ ~condition
    /\ UNCHANGED deadline
    /\ Goto("spin")

-----------------------------------------------------------------------------
(* The other threads.  They are started by the handler of an event.        *)

\* ScheduleWithContext, ScheduleRealtime and ScheduleRealtimeNow up to Signal.
Post(t, ts) ==
    /\ mutex = NoThread
    /\ currentUid > 0 /\ pc # "fatal"
    /\ Insert(ts, FALSE)
    /\ mutex' = t
    /\ posting' = "inserted"
    /\ UNCHANGED <<realtime, clockVars, waitVars, signalVars, runVars, pc>>

\* A slip: the condition is set after the signal.
SignalFirst(t) ==
    /\ mutex = t
    /\ \/ /\ posting = "inserted"
          /\ posting' = "set"
          /\ signalled' = (signalled \/ pc = "asleep")
          /\ UNCHANGED <<condition, mutex>>
       \/ /\ posting = "set"
          /\ condition' = TRUE
          /\ mutex' = NoThread /\ posting' = "no"
          /\ UNCHANGED signalled
    /\ UNCHANGED <<realtime, clockVars, listVars, waitVars, runVars, pc>>

\* A slip: the condition is set, and the sleeping thread is not woken.
SetOnly(t) ==
    /\ mutex = t
    /\ condition' = TRUE
    /\ mutex' = NoThread /\ posting' = "no"
    /\ UNCHANGED <<realtime, signalled, clockVars, listVars, waitVars, runVars, pc>>

\* DoSignal: SetCondition without a lock, then Signal, and the release of m_mutex.
DoSignal(t) ==
    /\ mutex = t
    /\ \/ /\ posting = "inserted"
          /\ posting' = "set"
          /\ condition' = TRUE
          /\ UNCHANGED <<signalled, mutex>>
       \/ /\ posting = "set"
          /\ signalled' = (signalled \/ pc = "asleep")
          /\ mutex' = NoThread /\ posting' = "no"
          /\ UNCHANGED condition
    /\ UNCHANGED <<realtime, clockVars, listVars, waitVars, runVars, pc>>

\* The wall clock advances.
Tick ==
    /\ pc \notin {"program", "ended", "fatal"}
    /\ realtime < Horizon
    /\ realtime' = realtime + 1
    /\ UNCHANGED <<clockVars, listVars, waitVars, signalVars, lockVars, runVars, pc>>

-----------------------------------------------------------------------------
Synchronize ==
    \/ StartSleep \/ SkipSleep \/ Sleep \/ SleepInterrupted \/ Wake \/ SleepTimedOut
    \/ TargetReached \/ TargetAhead \/ SpinInterrupted \/ SpinOn

\* What the main thread does by itself once Run is entered.
MainThread ==
    \/ HandlerReturns \/ RunReturns
    \/ WaitIdle \/ EnterProcessOneEvent \/ WaitForFirst \/ RunFirst
    \/ Synchronize

Program ==
    \/ Run \/ Stop \/ ScheduleRealtimeNow
    \/ \E delay \in Delays :
          Schedule(delay) \/ ScheduleWithContext(delay) \/ ScheduleRealtime(delay)
    \/ \E e \in events : Remove(e)

Posts(t) ==
    \/ Post(t, Present)
    \/ \E delay \in Delays : Post(t, Present + delay) \/ Post(t, realtime + delay)

Next ==
    \/ Program
    \/ MainThread \/ SpuriousWake
    \/ \E t \in Threads : Posts(t) \/ DoSignal(t)
    \/ Tick

\* The main thread and a thread in its critical section are not stopped for ever, and
\* the wall clock does not stand still before the horizon.
Spec ==
    /\ Init /\ [][Next]_vars
    /\ WF_vars(MainThread)
    /\ \A t \in Threads : WF_vars(DoSignal(t))
    /\ WF_vars(Tick)

-----------------------------------------------------------------------------
\* Nothing in the list is before the event that runs, whatever the clock was when a
\* thread read it: the assertions of ProcessOneEvent and of the Schedule methods.
NoneInThePast == \A e \in events : currentTs <= e.ts

\* No event runs before the wall clock has reached its time, although the event that
\* runs need not be the one ProcessOneEvent waited for.
RunsWhenDue == pc = "handler" => currentTs <= realtime

\* While no thread is between its insertion and the end of its signal, a main thread
\* that sleeps and was not signalled, or spins and does not see the condition, waits for
\* nothing later than the first event: no signal is lost between the critical section
\* that chose the target and the wait.
NoSleepPastFirst ==
    /\ mutex = NoThread
    /\ \/ pc = "asleep" /\ ~signalled
       \/ pc \in {"spin", "spinCondition"} /\ ~condition
    => \A e \in events : target <= e.ts \/ target <= realtime

\* While Run runs, an event that is due is run without waiting for the clock, even one
\* inserted during a sleep for a later event or for none at all.
DueIsRun ==
    \A n \in FirstUid..(FirstUid + MaxEvents - 1) :
        (running /\ \E e \in events : e.uid = n /\ e.ts <= realtime)
            ~> (~running \/ pc = "fatal" \/ \A e \in events : e.uid # n)
=============================================================================

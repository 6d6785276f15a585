----------------------- MODULE RealtimeSimulator_proofs -----------------------
(***************************************************************************)
(* What holds of RealtimeSimulator for any threads, delays, quantum of a   *)
(* sleep and hard limit: nothing runs early or is inserted in the past,    *)
(* and no signal is lost before a wait.                                    *)
(***************************************************************************)
EXTENDS RealtimeSimulator, TLAPS

Events == [ts : Nat, uid : Nat, hasId : BOOLEAN]

\* Where the main thread waits, for an event or for none.
Waits == {"synchronize", "timedWait", "asleep", "spin", "spinCondition"}

Types ==
    /\ events \subseteq Events
    /\ realtime \in Nat /\ currentTs \in Nat /\ uid \in Nat /\ target \in Nat
    /\ idle \in BOOLEAN

\* The clock is not behind the simulation, and the event that is waited for, or one
\* before it, is still there when the wait is over.
Paced ==
    /\ currentTs <= realtime
    /\ NoneInThePast
    /\ pc \in Waits /\ ~idle => \E e \in events : e.ts <= target
    /\ pc = "due" => \E e \in events : e.ts <= realtime

\* Nothing in the list is earlier than what is waited for.
Covered == \A e \in events : target <= e.ts \/ target <= realtime

\* A signal under way is seen: a waiting thread either waits for the right time, or
\* will find the condition set, or will be woken to look at it.
Signalled ==
    /\ posting \in {"no", "inserted", "set"}
    /\ mutex = NoThread <=> posting = "no"
    /\ signalled => pc = "asleep"
    /\ signalled \/ posting = "set" => condition
    /\ pc = "asleep" => Covered \/ signalled \/ mutex # NoThread
    /\ pc \in Waits \ {"asleep"} => Covered \/ condition \/ posting = "inserted"

Inv == Types /\ Paced /\ Signalled

-----------------------------------------------------------------------------
(* Lemmas *)

LEMMA Initially == Init => Inv
<1>1. Init => Types
  <2>1. Init => idle \in BOOLEAN
    BY Zenon DEF Init
  <2>2. QED
    BY <2>1 DEF Init, Types, FirstUid
<1>2. Init => Paced
  BY DEF Init, Paced, NoneInThePast, Waits
<1>3. Init => Signalled
  <2>1. Init => pc \notin Waits /\ pc # "asleep" /\ posting \in {"no", "inserted", "set"} /\ posting # "set"
    BY DEF Init, Waits
  <2>2. QED
    BY <2>1, Zenon DEF Init, Signalled
<1>4. QED
  BY <1>1, <1>2, <1>3 DEF Inv

\* What an insertion does to the list.
LEMMA Insertion ==
    ASSUME Types, NEW ts \in Nat, NEW hasId \in BOOLEAN, Insert(ts, hasId)
    PROVE  /\ events' \subseteq Events /\ uid' \in Nat
           /\ events \subseteq events'
           /\ \A e \in events' : e \in events \/ e.ts = ts
  BY DEF Insert, Types, Events

\* An insertion by the program or a handler, at the present or later.
LEMMA ScheduleAtPreserves ==
    ASSUME Inv, NEW ts \in Nat, currentTs <= ts, NEW hasId \in BOOLEAN, ScheduleAt(ts, hasId)
    PROVE  Inv'
<1>1. /\ events' \subseteq Events /\ uid' \in Nat
      /\ \A e \in events' : e \in events \/ e.ts = ts
  BY Insertion DEF ScheduleAt, Inv
<1>2. Types'
  BY <1>1 DEF ScheduleAt, Inv, Types, clockVars, waitVars
<1>3. Paced'
  BY <1>1 DEF ScheduleAt, InProgram, Inv, Types, Paced, NoneInThePast, Waits, clockVars, waitVars
<1>4. Signalled'
  BY DEF ScheduleAt, InProgram, Inv, Signalled, Waits, lockVars
<1>5. QED
  BY <1>2, <1>3, <1>4 DEF Inv

\* An insertion by another thread.
LEMMA PostPreserves ==
    ASSUME Inv, NEW t \in Threads, NEW ts \in Nat, currentTs <= ts, Post(t, ts)
    PROVE  Inv'
<1>1. /\ events' \subseteq Events /\ uid' \in Nat
      /\ events \subseteq events'
      /\ \A e \in events' : e \in events \/ e.ts = ts
  BY Insertion DEF Post, Inv
<1>2. Types'
  BY <1>1 DEF Post, Inv, Types, clockVars, waitVars
<1>3. Paced'
  BY <1>1 DEF Post, Inv, Types, Paced, NoneInThePast, clockVars, waitVars
<1>4. Signalled'
  BY RealtimeAssumption DEF Post, Inv, Signalled, signalVars
<1>5. QED
  BY <1>2, <1>3, <1>4 DEF Inv

\* A step that leaves the list, the clocks and the target alone, and enters a wait for an
\* event or finds an event due only where one was waited for.
LEMMA PaceKept ==
    ASSUME Inv, UNCHANGED <<clockVars, events, target, idle>>,
           realtime' \in Nat, realtime <= realtime',
           pc' \in Waits => pc \in Waits,
           pc' = "due" => pc = "due" \/ (pc \in Waits /\ ~idle /\ target <= realtime)
    PROVE  Paced'
<1>1. currentTs' <= realtime' /\ NoneInThePast'
  BY DEF Inv, Types, Paced, NoneInThePast, clockVars
<1>2. pc' \in Waits /\ ~idle' => \E e \in events' : e.ts <= target'
  BY DEF Inv, Paced
<1>3. pc' = "due" => \E e \in events' : e.ts <= realtime'
  <2>1. CASE pc = "due"
    <3>1. PICK e \in events : e.ts <= realtime
      BY <2>1 DEF Inv, Paced
    <3>2. e.ts \in Nat /\ e.ts <= realtime' /\ e \in events'
      BY <3>1 DEF Inv, Types, Events
    <3>3. QED
      BY <3>2
  <2>2. CASE pc \in Waits /\ ~idle /\ target <= realtime
    <3>1. PICK e \in events : e.ts <= target
      BY <2>2 DEF Inv, Paced
    <3>2. e.ts \in Nat /\ e.ts <= realtime' /\ e \in events'
      BY <2>2, <3>1 DEF Inv, Types, Events
    <3>3. QED
      BY <3>2
  <2>3. QED
    BY <2>1, <2>2
<1>4. QED
  BY <1>1, <1>2, <1>3 DEF Paced

\* A step outside the waits that leaves the signals and the mutex alone.
LEMMA SignalsKept ==
    ASSUME Inv, UNCHANGED <<lockVars, signalVars>>, pc # "asleep", pc' \notin Waits
    PROVE  Signalled'
<1>1. posting' = posting /\ mutex' = mutex /\ signalled' = signalled /\ condition' = condition
  BY DEF lockVars, signalVars
<1>2. pc' # "asleep"
  BY DEF Waits
<1>3. ~signalled
  BY DEF Inv, Signalled
<1>4. QED
  BY <1>1, <1>2, <1>3, Zenon DEF Inv, Signalled

\* What a step that leaves the mutex and the condition alone must show.
LEMMA SignalsCarried ==
    ASSUME Inv, posting' = posting /\ mutex' = mutex /\ condition' = condition,
           signalled' => signalled /\ pc' = "asleep",
           pc' = "asleep" => Covered' \/ signalled' \/ mutex # NoThread,
           pc' # "asleep" => Covered' \/ condition \/ posting = "inserted"
    PROVE  Signalled'
<1>1. posting \in {"no", "inserted", "set"} /\ (mutex = NoThread <=> posting = "no")
  BY DEF Inv, Signalled
<1>2. signalled \/ posting = "set" => condition
  BY DEF Inv, Signalled
<1>3. pc' \in Waits \ {"asleep"} => pc' # "asleep"
  BY DEF Waits
<1>4. QED
  BY <1>1, <1>2, <1>3, Zenon DEF Signalled

\* A step of Synchronize keeps the list and the clocks.
LEMMA SynchronizePreserves == Inv /\ (Synchronize \/ SpuriousWake) => Inv'
<1> SUFFICES ASSUME Inv, Synchronize \/ SpuriousWake PROVE Inv'
  OBVIOUS
<1> USE DEF Goto
<1>1. /\ UNCHANGED <<realtime, clockVars, listVars, target, idle, condition, lockVars>>
      /\ pc \in Waits
      /\ pc' \in Waits \cup {"due", "loop", "next"}
      /\ pc' = "due" => ~idle /\ target <= realtime
  <2>1. CASE StartSleep \/ SkipSleep \/ Sleep \/ TargetAhead \/ SpinOn \/ SpuriousWake
    BY <2>1 DEF StartSleep, SkipSleep, Sleep, TargetAhead, SpinOn, SpuriousWake, Waits,
                signalVars
  <2>2. CASE SleepInterrupted \/ SpinInterrupted
    BY <2>2 DEF SleepInterrupted, SpinInterrupted, Interrupted, Waits, signalVars
  <2>3. CASE Wake \/ SleepTimedOut
    BY <2>3 DEF Wake, SleepTimedOut, Waits, waitVars
  <2>4. CASE TargetReached
    BY <2>4 DEF TargetReached, Synchronized, Waits, signalVars, Inv, Types
  <2>5. QED
    BY <2>1, <2>2, <2>3, <2>4 DEF Synchronize
<1>2. Types'
  BY <1>1 DEF Inv, Types, clockVars, listVars
<1>3. Paced'
  BY <1>1, PaceKept DEF listVars, Inv, Types
<1>4. Covered' <=> Covered
  BY <1>1 DEF Covered, listVars
<1>5. posting' = posting /\ mutex' = mutex /\ condition' = condition
  BY <1>1 DEF lockVars
<1>6. Signalled'
  <2>1. CASE StartSleep \/ SkipSleep \/ TargetAhead \/ SpinOn
    <3>1. pc # "asleep" /\ pc' # "asleep" /\ signalled' = signalled
      BY <2>1 DEF StartSleep, SkipSleep, TargetAhead, SpinOn, signalVars
    <3>2. ~signalled /\ (Covered \/ condition \/ posting = "inserted")
      BY <1>1, <3>1 DEF Inv, Signalled
    <3>3. QED
      BY <1>4, <1>5, <3>1, <3>2, SignalsCarried
  <2>2. CASE Sleep
    <3>1. pc = "timedWait" /\ pc' = "asleep" /\ ~condition /\ signalled' = signalled
      BY <2>2 DEF Sleep, signalVars
    <3>2. ~signalled /\ (Covered \/ mutex # NoThread)
      BY <3>1 DEF Inv, Signalled, Waits
    <3>3. QED
      BY <1>4, <1>5, <3>1, <3>2, SignalsCarried DEF Waits
  <2>3. CASE SpuriousWake \/ Wake \/ SleepTimedOut
    <3>1. pc = "asleep" /\ pc' # "asleep"
      BY <2>3 DEF SpuriousWake, Wake, SleepTimedOut
    <3>2. ~signalled'
      <4>1. CASE SpuriousWake
        BY <4>1 DEF SpuriousWake, signalVars
      <4>2. CASE Wake \/ SleepTimedOut
        BY <4>2, Zenon DEF Wake, SleepTimedOut
      <4>3. QED
        BY <2>3, <4>1, <4>2
    <3>3. Covered \/ condition \/ posting = "inserted"
      BY <3>1 DEF Inv, Signalled
    <3>4. QED
      BY <1>4, <1>5, <3>1, <3>2, <3>3, SignalsCarried
  <2>4. CASE SleepInterrupted \/ SpinInterrupted \/ TargetReached
    <3>1. pc # "asleep" /\ pc' \notin Waits /\ signalled' = signalled
      BY <2>4 DEF SleepInterrupted, SpinInterrupted, TargetReached, Interrupted, Synchronized,
                  Waits, signalVars
    <3>2. QED
      BY <1>1, <3>1, SignalsKept DEF signalVars
  <2>5. QED
    BY <2>1, <2>2, <2>3, <2>4 DEF Synchronize
<1>7. QED
  BY <1>2, <1>3, <1>6 DEF Inv

\* The two halves of a signal.
LEMMA DoSignalPreserves == ASSUME Inv, NEW t \in Threads, DoSignal(t) PROVE Inv'
<1>1. UNCHANGED <<realtime, clockVars, listVars, waitVars, pc>>
  BY DEF DoSignal
<1>2. Types'
  BY <1>1 DEF Inv, Types, clockVars, listVars, waitVars
<1>3. Paced'
  BY <1>1, PaceKept DEF listVars, waitVars, Inv, Types
<1>4. t # NoThread /\ mutex = t
  BY RealtimeAssumption DEF DoSignal
<1>5. pc' = pc /\ (Covered' <=> Covered)
  BY <1>1 DEF Covered, listVars, waitVars
<1>6. Signalled'
  <2>1. CASE posting = "inserted"
    <3>1. posting' = "set" /\ condition' = TRUE /\ signalled' = signalled /\ mutex' = mutex
      BY <2>1 DEF DoSignal
    <3>2. signalled => pc = "asleep"
      BY DEF Inv, Signalled
    <3>3. posting' \in {"no", "inserted", "set"} /\ posting' # "no"
      BY <3>1
    <3>4. QED
      BY <1>4, <1>5, <3>1, <3>2, <3>3, Zenon DEF Signalled
  <2>2. CASE posting = "set"
    <3>1. posting' = "no" /\ condition' = condition /\ mutex' = NoThread
      BY <2>2 DEF DoSignal
    <3>2. signalled' <=> pc = "asleep"
      BY <2>2 DEF DoSignal, Inv, Signalled
    <3>3. condition
      BY <2>2 DEF Inv, Signalled
    <3>4. posting' \in {"no", "inserted", "set"}
      BY <3>1
    <3>5. QED
      BY <1>5, <3>1, <3>2, <3>3, <3>4, Zenon DEF Signalled
  <2>3. QED
    BY <2>1, <2>2 DEF DoSignal
<1>7. QED
  BY <1>2, <1>3, <1>6 DEF Inv

\* Time passes.
LEMMA TickPreserves == Inv /\ Tick => Inv'
<1> SUFFICES ASSUME Inv, Tick PROVE Inv'
  OBVIOUS
<1>1. /\ realtime' = realtime + 1
      /\ UNCHANGED <<clockVars, listVars, waitVars, signalVars, lockVars, pc>>
  BY DEF Tick
<1>2. Types'
  BY <1>1 DEF Inv, Types, clockVars, listVars, waitVars
<1>3. Paced'
  BY <1>1, PaceKept DEF listVars, waitVars, Inv, Types
<1>4. Covered => Covered'
  BY <1>1 DEF Covered, listVars, waitVars, Inv, Types, Events
<1>5. /\ posting' = posting /\ mutex' = mutex /\ condition' = condition
      /\ signalled' = signalled /\ pc' = pc
  BY <1>1 DEF signalVars, lockVars
<1>6. /\ signalled => pc = "asleep"
      /\ pc = "asleep" => Covered \/ signalled \/ mutex # NoThread
  BY DEF Inv, Signalled
<1>7. Signalled'
  BY <1>4, <1>5, <1>6, Zenon DEF Inv, Signalled
<1>8. QED
  BY <1>2, <1>3, <1>7 DEF Inv

\* What the main thread and the program do outside of a wait.
LEMMA RemovePreserves == ASSUME Inv, NEW e \in events, Remove(e) PROVE Inv'
<1>1. Types'
  BY DEF Remove, Inv, Types, clockVars, waitVars
<1>2. Paced'
  BY DEF Remove, InProgram, Inv, Types, Paced, NoneInThePast, Waits, clockVars
<1>3. Signalled'
  BY SignalsKept DEF Remove, InProgram, Waits
<1>4. QED
  BY <1>1, <1>2, <1>3 DEF Inv

LEMMA QuietPreserves ==
    Inv /\ (Run \/ Stop \/ HandlerReturns \/ RunReturns \/ EnterProcessOneEvent) => Inv'
<1> SUFFICES ASSUME Inv, Run \/ Stop \/ HandlerReturns \/ RunReturns \/ EnterProcessOneEvent
             PROVE  Inv'
  OBVIOUS
<1>1. /\ UNCHANGED <<realtime, clockVars, listVars, waitVars, signalVars, lockVars>>
      /\ pc # "asleep" /\ pc' \notin Waits /\ pc' # "due"
  BY DEF Run, Stop, HandlerReturns, RunReturns, EnterProcessOneEvent, Waits
<1>2. Types'
  BY <1>1 DEF Inv, Types, clockVars, listVars, waitVars
<1>3. Paced'
  BY <1>1, PaceKept DEF listVars, waitVars, Inv, Types
<1>4. Signalled'
  BY <1>1, SignalsKept
<1>5. QED
  BY <1>2, <1>3, <1>4 DEF Inv

\* The two steps that choose what to wait for.
LEMMA WaitIdlePreserves == Inv /\ WaitIdle => Inv'
<1> SUFFICES ASSUME Inv, WaitIdle PROVE Inv'
  OBVIOUS
<1>1. /\ UNCHANGED <<realtime, clockVars, listVars, signalVars, lockVars>>
      /\ events = {} /\ idle' = TRUE /\ target' = realtime + IdleDelay
      /\ pc = "loop" /\ pc' = "synchronize"
  BY DEF WaitIdle
<1>2. Types'
  <2>1. idle' \in BOOLEAN
    BY <1>1, Zenon
  <2>2. QED
    BY <1>1, <2>1, RealtimeAssumption DEF Inv, Types, clockVars, listVars
<1>3. Paced'
  <2>1. ~(~idle')
    BY <1>1, Zenon
  <2>2. QED
    BY <1>1, <2>1 DEF Inv, Paced, NoneInThePast, clockVars, listVars
<1>4. Signalled'
  <2>1. Covered'
    BY <1>1 DEF Covered, listVars
  <2>2. ~signalled /\ signalled' = signalled
    BY <1>1 DEF Inv, Signalled, signalVars
  <2>3. QED
    BY <1>1, <2>1, <2>2, SignalsCarried DEF signalVars, lockVars
<1>5. QED
  BY <1>2, <1>3, <1>4 DEF Inv

LEMMA WaitForFirstPreserves == Inv /\ WaitForFirst => Inv'
<1> SUFFICES ASSUME Inv, WaitForFirst PROVE Inv'
  OBVIOUS
<1>1. PICK e \in events : IsFirst(e) /\ target' = DueTime(e)
  BY DEF WaitForFirst
<1>2. /\ UNCHANGED <<realtime, clockVars, listVars, signalled, lockVars>>
      /\ mutex = NoThread /\ idle' = FALSE /\ condition' = FALSE
      /\ pc = "next" /\ pc' = "synchronize"
  BY DEF WaitForFirst
<1>3. e.ts \in Nat /\ target' \in Nat /\ e.ts <= target'
  BY <1>1 DEF DueTime, Inv, Types, Events
<1>4. Types'
  <2>1. idle' \in BOOLEAN
    BY <1>2, Zenon
  <2>2. QED
    BY <1>2, <1>3, <2>1 DEF Inv, Types, clockVars, listVars
<1>5. Paced'
  BY <1>2, <1>3 DEF Inv, Paced, NoneInThePast, clockVars, listVars
<1>6. Covered'
  BY <1>1, <1>2 DEF Covered, IsFirst, Before, DueTime, listVars, Inv, Types, Events
<1>7. Signalled'
  <2>1. posting = "no" /\ ~signalled
    BY <1>2 DEF Inv, Signalled
  <2>2. /\ posting' = "no" /\ mutex' = NoThread /\ ~signalled' /\ pc' # "asleep"
        /\ posting' \in {"no", "inserted", "set"} /\ posting' # "set"
    BY <1>2, <2>1 DEF lockVars
  <2>3. QED
    BY <1>6, <2>2, Zenon DEF Signalled
<1>8. QED
  BY <1>4, <1>5, <1>7 DEF Inv

\* The first event is due, because the one that was waited for is.
LEMMA RunFirstPreserves == Inv /\ RunFirst => Inv'
<1> SUFFICES ASSUME Inv, RunFirst PROVE Inv'
  OBVIOUS
<1>1. PICK e \in events : /\ IsFirst(e) /\ events' = events \ {e} /\ currentTs' = e.ts
                          /\ pc' = IF OverHardLimit(e.ts) THEN "fatal" ELSE "handler"
  BY DEF RunFirst
<1>2. UNCHANGED <<realtime, uid, waitVars, signalVars, lockVars>> /\ pc = "due"
  BY DEF RunFirst
<1>3. PICK due \in events : due.ts <= realtime
  BY <1>2 DEF Inv, Paced
<1>4. \A f \in events : e.ts <= f.ts
  BY <1>1 DEF IsFirst, Before, Inv, Types, Events
<1>5. e.ts \in Nat /\ e.ts <= realtime
  BY <1>3, <1>4 DEF Inv, Types, Events
<1>6. Types'
  BY <1>1, <1>2, <1>5 DEF Inv, Types, waitVars
<1>7. Paced'
  BY <1>1, <1>2, <1>4, <1>5 DEF Paced, NoneInThePast, Waits
<1>8. Signalled'
  BY <1>1, <1>2, SignalsKept DEF Waits
<1>9. QED
  BY <1>6, <1>7, <1>8 DEF Inv

-----------------------------------------------------------------------------
(* The invariant and the properties *)

LEMMA Preserved == Inv /\ [Next]_vars => Inv'
<1> SUFFICES ASSUME Inv, [Next]_vars PROVE Inv'
  OBVIOUS
<1>1. Present \in Nat /\ currentTs <= Present
  BY DEF Present, Inv, Types, Paced
<1>2. CASE Program
  <2>1. CASE Run \/ Stop
    BY <2>1, QuietPreserves
  <2>2. CASE ScheduleRealtimeNow
    BY <1>1, <2>2, ScheduleAtPreserves DEF ScheduleRealtimeNow
  <2>3. ASSUME NEW delay \in Delays,
               Schedule(delay) \/ ScheduleWithContext(delay) \/ ScheduleRealtime(delay)
        PROVE  Inv'
    <3>1. /\ currentTs + delay \in Nat /\ currentTs <= currentTs + delay
          /\ realtime + delay \in Nat /\ currentTs <= realtime + delay
      BY RealtimeAssumption DEF Inv, Types, Paced
    <3>2. QED
      BY <2>3, <3>1, ScheduleAtPreserves DEF Schedule, ScheduleWithContext, ScheduleRealtime
  <2>4. ASSUME NEW e \in events, Remove(e) PROVE Inv'
    BY <2>4, RemovePreserves
  <2>5. QED
    BY <1>2, <2>1, <2>2, <2>3, <2>4 DEF Program
<1>3. CASE MainThread \/ SpuriousWake
  BY <1>3, QuietPreserves, WaitIdlePreserves, WaitForFirstPreserves, RunFirstPreserves,
     SynchronizePreserves DEF MainThread
<1>4. ASSUME NEW t \in Threads, Posts(t) PROVE Inv'
  <2>1. CASE Post(t, Present)
    BY <1>1, <2>1, PostPreserves
  <2>2. ASSUME NEW delay \in Delays, Post(t, Present + delay) \/ Post(t, realtime + delay)
        PROVE  Inv'
    <3>1. /\ Present + delay \in Nat /\ currentTs <= Present + delay
          /\ realtime + delay \in Nat /\ currentTs <= realtime + delay
      BY <1>1, RealtimeAssumption DEF Inv, Types, Paced
    <3>2. QED
      BY <2>2, <3>1, PostPreserves
  <2>3. QED
    BY <1>4, <2>1, <2>2 DEF Posts
<1>5. ASSUME NEW t \in Threads, DoSignal(t) PROVE Inv'
  BY <1>5, DoSignalPreserves
<1>6. CASE Tick
  BY <1>6, TickPreserves
<1>7. CASE UNCHANGED vars
  BY <1>7 DEF vars, clockVars, listVars, waitVars, signalVars, lockVars, Inv, Types, Paced,
              NoneInThePast, Signalled, Covered
<1>8. QED
  BY <1>2, <1>3, <1>4, <1>5, <1>6, <1>7 DEF Next

\* The invariant holds in every reachable state.
THEOREM Invariant == Spec => []Inv
  BY Initially, Preserved, PTL DEF Spec

\* The assertions of ProcessOneEvent and of the Schedule methods hold: no event in the
\* list is before the one that runs.
THEOREM NoneInThePastHolds == Spec => []NoneInThePast
<1>1. Inv => NoneInThePast
  BY DEF Inv, Paced
<1>2. QED
  BY <1>1, Invariant, PTL

\* An event runs when the wall clock has reached its time, and not before, whichever
\* event ProcessOneEvent waited for.
THEOREM RunsWhenDueHolds == Spec => []RunsWhenDue
<1>1. Inv => RunsWhenDue
  BY DEF Inv, Paced, RunsWhenDue
<1>2. QED
  BY <1>1, Invariant, PTL

\* A main thread that waits and has no signal to see waits for nothing later than the
\* first event.
THEOREM NoSleepPastFirstHolds == Spec => []NoSleepPastFirst
<1>1. ASSUME Inv PROVE NoSleepPastFirst
  <2> SUFFICES ASSUME mutex = NoThread,
                      \/ pc = "asleep" /\ ~signalled
                      \/ pc \in {"spin", "spinCondition"} /\ ~condition
               PROVE  Covered
    BY DEF NoSleepPastFirst, Covered
  <2>1. posting # "inserted"
    BY <1>1 DEF Inv, Signalled
  <2>2. CASE pc = "asleep" /\ ~signalled
    BY <1>1, <2>2 DEF Inv, Signalled
  <2>3. CASE pc \in {"spin", "spinCondition"} /\ ~condition
    BY <1>1, <2>1, <2>3 DEF Inv, Signalled, Waits
  <2>4. QED
    BY <2>2, <2>3
<1>2. QED
  BY <1>1, Invariant, PTL
==============================================================================

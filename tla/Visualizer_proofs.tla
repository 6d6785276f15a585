--------------------------- MODULE Visualizer_proofs ---------------------------
(* Theorems about the visualizer: how far the simulation is ahead of the view,  *)
(* what becomes of the messages of PyViz::Pause, and the timer of a pressed     *)
(* play button, for any sample periods and any number of clicks and pauses.     *)
EXTENDS Visualizer, SequenceTheorems, TLAPS

--------------------------------------------------------------------------------
(* How far the simulation is ahead. *)

\* The target is a period, or zero before the view has set the first.
TargetIsAPeriod ==
  /\ now \in Nat /\ target_time \in Periods \cup {0} /\ sample_period \in Periods
  /\ AheadAtMostOnePeriod

LEMMA TargetInit == Init => TargetIsAPeriod
  BY PeriodsAssumption DEF Init, TargetIsAPeriod, AheadAtMostOnePeriod

LEMMA TargetPreserved == TargetIsAPeriod /\ [Next]_vars => TargetIsAPeriod'
<1> SUFFICES ASSUME TargetIsAPeriod, [Next]_vars PROVE TargetIsAPeriod'
  OBVIOUS
<1>1. CASE RunUntil
  <2>1. UNCHANGED <<target_time, sample_period>>
    BY <1>1 DEF RunUntil, guiVars
  <2>2. CASE now' = now
    BY <2>1, <2>2 DEF TargetIsAPeriod, AheadAtMostOnePeriod
  <2>3. CASE now < target_time /\ now' \in now..target_time
    <3>1. target_time \in Periods /\ target_time \in Nat
      BY <2>3, PeriodsAssumption DEF TargetIsAPeriod
    <3>2. now' \in Nat /\ now' <= target_time
      BY <2>3, <3>1 DEF TargetIsAPeriod
    <3>3. QED
      BY <2>1, <3>1, <3>2 DEF TargetIsAPeriod, AheadAtMostOnePeriod
  <2>4. QED
    BY <1>1, <2>2, <2>3 DEF RunUntil
<1>2. CASE AcquireSucceeds
  <2>1. now' = 0 /\ target_time' = sample_period /\ sample_period' = sample_period
    BY <1>2 DEF AcquireSucceeds, NextTarget
  <2>2. QED
    BY <2>1, PeriodsAssumption DEF TargetIsAPeriod, AheadAtMostOnePeriod
<1>3. CASE _speed_changed
  <2>1. now' = now /\ target_time' = target_time /\ sample_period' \in Periods
    BY <1>3 DEF _speed_changed, simVars
  <2>2. QED
    BY <2>1 DEF TargetIsAPeriod, AheadAtMostOnePeriod
<1>4. CASE UNCHANGED <<now, target_time, sample_period>>
  BY <1>4 DEF TargetIsAPeriod, AheadAtMostOnePeriod
<1>5. QED
  BY <1>1, <1>2, <1>3, <1>4
     DEF Next, SimulationThread, GuiGoesOn, LoopTest, GoWait, GoClear, CheckQuit, AcquireLock,
         update_model, AcquireFails, NoEventsPending, Finish, SetGo, Join,
         _on_play_button_toggled, SetQuit, TimerFires, vars, simVars, guiVars

\* Whatever signals the view sets and however late the simulation thread sees them, the
\* simulation stops at a target that is one sample period after what the view shows.
THEOREM AheadAtMostOnePeriodHolds == Spec => []AheadAtMostOnePeriod
<1>1. TargetIsAPeriod => AheadAtMostOnePeriod
  BY DEF TargetIsAPeriod
<1>2. QED
  BY TargetInit, TargetPreserved, <1>1, PTL DEF Spec

--------------------------------------------------------------------------------
(* The timer of the play button. *)

\* A pressed button keeps a timer through clicks, handlers that nest and pauses: a timer is
\* removed only when a new one is started or the button is not pressed.
THEOREM PlayingHasTimerHolds == Spec => []PlayingHasTimer
<1>1. Init => PlayingHasTimer
  BY DEF Init, PlayingHasTimer
<1>2. PlayingHasTimer /\ [Next]_vars => PlayingHasTimer'
  <2> SUFFICES ASSUME PlayingHasTimer, [Next]_vars PROVE PlayingHasTimer'
    OBVIOUS
  <2>1. CASE _on_play_button_toggled
    BY <2>1 DEF _on_play_button_toggled, _start_update_timer, PlayingHasTimer
  <2>2. CASE _speed_changed
    BY <2>2 DEF _speed_changed, _start_update_timer, PlayingHasTimer
  <2>3. CASE Finish
    BY <2>3 DEF Finish, PlayingHasTimer, timerVars
  <2>4. CASE SetQuit \/ SetGo \/ Join
    BY <2>4 DEF SetQuit, SetGo, Join, PlayingHasTimer
  <2>5. CASE UNCHANGED <<active, timers, gui>>
    BY <2>5 DEF PlayingHasTimer
  <2>6. QED
    BY <2>1, <2>2, <2>3, <2>4, <2>5
       DEF Next, SimulationThread, GuiGoesOn, LoopTest, GoWait, GoClear, CheckQuit, AcquireLock,
           RunUntil, update_model, AcquireFails, NoEventsPending, AcquireSucceeds, TimerFires,
           vars, simVars, guiVars, timerVars
<1>3. QED
  BY <1>1, <1>2, PTL DEF Spec

--------------------------------------------------------------------------------
(* The messages of PyViz::Pause. *)

IsExecution(e) ==
  /\ e = [id |-> e.id, phase |-> e.phase, messages |-> e.messages]
  /\ e.messages \in Seq(Nat)
  /\ e.phase # "shown" => e.messages = <<>>

\* A timer handler under another one is in the event loop, and has taken no messages.
Executing(s) ==
  /\ s \in Seq(Range(s))
  /\ \A i \in 1..Len(s) : IsExecution(s[i]) /\ (i < Len(s) => s[i].phase = "events")

Taken == IF stack = <<>> THEN <<>> ELSE Last(stack).messages

UpTo(n) == [i \in 1..n |-> i]

Messages ==
  /\ shown \in Seq(Nat) /\ pause_messages \in Seq(Nat) /\ paused \in Nat
  /\ Executing(stack)
  /\ shown \o Taken \o pause_messages = UpTo(paused)

LEMMA TopOf ==
  ASSUME NEW s, Executing(s), s # <<>>
  PROVE  /\ Len(s) \in Nat \ {0} /\ Last(s) = s[Len(s)]
         /\ IsExecution(Last(s))
<1>1. Len(s) \in Nat \ {0}
  BY EmptySeq DEF Executing
<1>2. Len(s) \in 1..Len(s)
  BY <1>1
<1>3. QED
  BY <1>1, <1>2 DEF Executing, Last

\* An execution goes on, and one shows messages.
LEMMA GoesOn ==
  ASSUME NEW r, IsExecution(r), r.messages = <<>>, NEW phase
  PROVE  LET e == [r EXCEPT !.phase = phase]
         IN  IsExecution(e) /\ e.messages = <<>>
<1> DEFINE q == [id |-> r.id, phase |-> r.phase, messages |-> r.messages]
<1>1. [q EXCEPT !.phase = phase] = [id |-> r.id, phase |-> phase, messages |-> r.messages]
  OBVIOUS
<1>2. r = q
  BY DEF IsExecution
<1> HIDE DEF q
<1>3. [r EXCEPT !.phase = phase] = [id |-> r.id, phase |-> phase, messages |-> r.messages]
  BY <1>1, <1>2
<1>4. QED
  BY <1>3, EmptySeq DEF IsExecution

LEMMA Shows ==
  ASSUME NEW r, IsExecution(r), NEW messages \in Seq(Nat)
  PROVE  LET e == [r EXCEPT !.phase = "shown", !.messages = messages]
         IN  IsExecution(e) /\ e.messages = messages
<1> DEFINE q == [id |-> r.id, phase |-> r.phase, messages |-> r.messages]
<1>1. [q EXCEPT !.phase = "shown", !.messages = messages]
      = [id |-> r.id, phase |-> "shown", messages |-> messages]
  <2>1. [q EXCEPT !.phase = "shown", !.messages = messages]
        = [[q EXCEPT !.phase = "shown"] EXCEPT !.messages = messages]
    OBVIOUS
  <2>2. [q EXCEPT !.phase = "shown"]
        = [id |-> r.id, phase |-> "shown", messages |-> r.messages]
    OBVIOUS
  <2>3. [[id |-> r.id, phase |-> "shown", messages |-> r.messages] EXCEPT !.messages = messages]
        = [id |-> r.id, phase |-> "shown", messages |-> messages]
    OBVIOUS
  <2>4. QED
    BY <2>1, <2>2, <2>3
<1>2. r = q
  BY DEF IsExecution
<1> HIDE DEF q
<1>3. [r EXCEPT !.phase = "shown", !.messages = messages]
      = [id |-> r.id, phase |-> "shown", messages |-> messages]
  BY <1>1, <1>2
<1>4. QED
  BY <1>3 DEF IsExecution

\* The three ways the stack changes: a handler starts, goes on, and ends.
LEMMA Pushed ==
  ASSUME NEW s, Executing(s), s # <<>> => Last(s).phase = "events",
         NEW e, IsExecution(e), NEW t, t = Append(s, e)
  PROVE  Executing(t) /\ t # <<>> /\ Last(t) = e
<1> DEFINE S == Range(s) \cup {e}
<1>1. s \in Seq(S) /\ Len(s) \in Nat
  BY SeqMonotonic, LenProperties DEF Executing
<1>2. /\ t \in Seq(S) /\ t # <<>> /\ Len(t) = Len(s) + 1
      /\ \A i \in 1..Len(s) : t[i] = s[i]
      /\ t[Len(s) + 1] = e
  BY <1>1, AppendProperties
<1>3. t \in Seq(Range(t))
  BY <1>2, SeqOfRange
<1>4. ASSUME NEW i \in 1..Len(t)
      PROVE IsExecution(t[i]) /\ (i < Len(t) => t[i].phase = "events")
  <2>1. CASE i = Len(s) + 1
    BY <1>1, <1>2, <2>1
  <2>2. CASE i \in 1..Len(s) /\ i < Len(s)
    BY <1>1, <1>2, <2>2 DEF Executing
  <2>3. CASE i \in 1..Len(s) /\ i = Len(s)
    <3>1. s # <<>>
      BY <1>1, <2>3, EmptySeq
    <3>2. QED
      BY <1>1, <1>2, <2>3, <3>1 DEF Executing, Last
  <2>4. QED
    BY <1>1, <1>2, <2>1, <2>2, <2>3
<1>5. QED
  BY <1>1, <1>2, <1>3, <1>4 DEF Executing, Last

LEMMA Popped ==
  ASSUME NEW s, Executing(s), s # <<>>, NEW t, t = Front(s)
  PROVE  /\ Executing(t)
         /\ \A i \in 1..Len(t) : t[i].phase = "events"
         /\ t # <<>> => Last(t).messages = <<>>
<1>1. Len(s) \in Nat \ {0} /\ \A i \in 1..Len(s) : s[i] \in Range(s)
  BY TopOf, ElementOfSeq DEF Executing
<1>2. /\ t \in Seq(Range(s)) /\ Len(t) = Len(s) - 1
      /\ \A i \in 1..Len(s) - 1 : t[i] = s[i]
  <2>1. PICK n \in Nat : n = Len(s) - 1
    BY <1>1
  <2>2. t = SubSeq(s, 1, n)
    BY <2>1 DEF Front
  <2>3. \A i \in 1..n : s[i] \in Range(s)
    BY <1>1, <2>1
  <2>4. /\ SubSeq(s, 1, n) \in Seq(Range(s)) /\ Len(SubSeq(s, 1, n)) = n
        /\ \A i \in 1..n : SubSeq(s, 1, n)[i] = s[i]
    BY <2>3, SubSeqProperties
  <2>5. QED
    BY <2>1, <2>2, <2>4
<1>3. t \in Seq(Range(t))
  BY <1>2, SeqOfRange
<1>4. \A i \in 1..Len(t) : IsExecution(t[i]) /\ t[i].phase = "events"
  BY <1>1, <1>2 DEF Executing
<1>5. Executing(t)
  BY <1>3, <1>4 DEF Executing
<1>6. ASSUME t # <<>> PROVE Last(t).messages = <<>>
  <2>1. Len(t) \in 1..Len(t) /\ Last(t) = t[Len(t)]
    BY <1>5, <1>6, TopOf
  <2>2. QED
    BY <1>4, <2>1 DEF IsExecution
<1>7. QED
  BY <1>4, <1>5, <1>6

LEMMA Replaced ==
  ASSUME NEW s, Executing(s), s # <<>>, NEW e, IsExecution(e),
         NEW t, t = Front(s) \o <<e>>
  PROVE  Executing(t) /\ t # <<>> /\ Last(t) = e
<1> DEFINE u == Front(s)
           S == Range(u) \cup {e}
<1>1. Executing(u) /\ \A i \in 1..Len(u) : u[i].phase = "events"
  BY Popped
<1>2. u # <<>> => Last(u).phase = "events"
  <2>1. u # <<>> => Len(u) \in 1..Len(u) /\ Last(u) = u[Len(u)]
    BY <1>1, TopOf
  <2>2. QED
    BY <1>1, <2>1
<1>3. u \in Seq(S)
  BY <1>1, SeqMonotonic DEF Executing
<1>4. t = Append(u, e)
  BY <1>3, AppendIsConcat
<1> HIDE DEF u
<1>5. QED
  BY <1>1, <1>2, <1>4, Pushed

\* The k numbers behind n.
Behind(n, k) == [i \in 1..k |-> n + i]

LEMMA BehindUpTo ==
  ASSUME NEW n \in Nat, NEW k \in Nat
  PROVE  Behind(n, k) \in Seq(Nat) /\ UpTo(n) \o Behind(n, k) = UpTo(n + k)
<1>1. PICK m \in Nat : m = n + k
  OBVIOUS
<1>2. PICK e : e = Behind(n, k)
  OBVIOUS
<1>3. e = [i \in 1..k |-> n + i] /\ \A i \in 1..k : n + i \in Nat
  BY <1>2 DEF Behind
<1>4. e \in Seq(Nat) /\ Len(e) = k /\ \A i \in 1..k : e[i] = n + i
  BY <1>3
<1>5. \A l \in Nat : /\ UpTo(l) \in Seq(Nat) /\ Len(UpTo(l)) = l
                     /\ \A i \in 1..l : UpTo(l)[i] = i
  BY DEF UpTo
<1>6. PICK v \in Seq(Nat) : v = UpTo(n) /\ Len(v) = n /\ \A i \in 1..n : v[i] = i
  BY <1>5
<1>7. PICK x \in Seq(Nat) : x = UpTo(m) /\ Len(x) = m /\ \A i \in 1..m : x[i] = i
  BY <1>5
<1>8. PICK w : w = v \o e
  OBVIOUS
<1>9. /\ w \in Seq(Nat) /\ Len(w) = Len(v) + Len(e)
      /\ \A i \in 1..Len(v) + Len(e) : w[i] = IF i <= Len(v) THEN v[i] ELSE e[i - Len(v)]
  BY <1>4, <1>8, ConcatProperties
<1>10. /\ Len(w) = m
       /\ \A i \in 1..m : w[i] = IF i <= n THEN v[i] ELSE e[i - n]
  BY <1>1, <1>4, <1>6, <1>9
<1>11. \A i \in 1..m : w[i] = x[i]
  <2> SUFFICES ASSUME NEW i \in 1..m PROVE w[i] = i
    BY <1>7
  <2>1. CASE i <= n
    BY <1>6, <1>10, <2>1
  <2>2. CASE i > n
    <3>1. PICK j \in 1..k : j = i - n /\ n + j = i
      BY <1>1, <2>2
    <3>2. w[i] = e[j]
      BY <1>10, <2>2, <3>1
    <3>3. QED
      BY <1>4, <3>1, <3>2
  <2>3. QED
    BY <2>1, <2>2
<1>12. w = x
  BY <1>7, <1>9, <1>10, <1>11, SeqEqual
<1>13. QED
  BY <1>1, <1>2, <1>4, <1>6, <1>7, <1>8, <1>12

LEMMA MessagesInit == Init => Messages
<1> SUFFICES ASSUME Init PROVE Messages
  OBVIOUS
<1>1. shown = <<>> /\ stack = <<>> /\ pause_messages = <<>> /\ paused = 0
  BY DEF Init
<1>2. <<>> \in Seq(Nat) /\ <<>> \in Seq(Range(<<>>)) /\ Len(<<>>) = 0
  BY EmptySeq
<1>3. Executing(<<>>)
  BY <1>2 DEF Executing
<1>4. <<>> \o <<>> \o <<>> = <<>>
  BY <1>2, ConcatEmptySeq
<1>5. UpTo(0) = <<>>
  BY DEF UpTo
<1>6. QED
  BY <1>1, <1>2, <1>3, <1>4, <1>5 DEF Messages, Taken

LEMMA TakenIsASequence == Messages => Taken \in Seq(Nat)
  BY TopOf, EmptySeq DEF Messages, Taken, IsExecution

\* What the two threads do to the messages.
LEMMA MessagesPreserved == Messages /\ [Next]_vars => Messages'
<1> SUFFICES ASSUME Messages, [Next]_vars PROVE Messages'
  OBVIOUS
<1>0. /\ shown \in Seq(Nat) /\ pause_messages \in Seq(Nat) /\ Taken \in Seq(Nat)
      /\ paused \in Nat /\ Executing(stack)
  BY TakenIsASequence DEF Messages
<1>1. ASSUME UNCHANGED <<shown, pause_messages, paused>>, Executing(stack'),
             Taken' = Taken
      PROVE  Messages'
  BY <1>1 DEF Messages
<1>2. CASE UNCHANGED <<shown, pause_messages, paused, stack>>
  BY <1>0, <1>1, <1>2 DEF Taken
<1>3. CASE RunUntil
  <2>1. UNCHANGED <<shown, stack>> /\ Taken' = Taken
    BY <1>3 DEF RunUntil, guiVars, Taken
  <2>2. CASE UNCHANGED <<pause_messages, paused>>
    BY <1>2, <2>1, <2>2
  <2>3. CASE /\ paused' \in paused + 1..MaxPauses
             /\ pause_messages' = pause_messages \o [i \in 1..paused' - paused |-> paused + i]
    <3>1. /\ paused' - paused \in Nat /\ paused' \in Nat
          /\ paused' = paused + (paused' - paused)
      <4>1. paused \in Nat /\ MaxPauses \in Nat /\ paused' \in paused + 1..MaxPauses
        BY <1>0, <2>3, MaxPausesAssumption
      <4>2. \A i, j \in Nat : \A l \in i + 1..j : l - i \in Nat /\ l \in Nat /\ l = i + (l - i)
        OBVIOUS
      <4>3. QED
        BY <4>1, <4>2, Zenon
    <3>2. PICK k \in Nat, d \in Seq(Nat) :
            /\ k = paused' - paused /\ d = Behind(paused, k) /\ UpTo(paused) \o d = UpTo(paused + k)
      BY <1>0, <3>1, BehindUpTo
    <3>3. pause_messages' = pause_messages \o d
      BY <2>3, <3>2 DEF Behind
    <3>4. /\ pause_messages \o d \in Seq(Nat)
          /\ shown \o Taken \o (pause_messages \o d) = (shown \o Taken \o pause_messages) \o d
      <4>1. PICK u \in Seq(Nat) : u = shown \o Taken
        BY <1>0, ConcatProperties
      <4>2. PICK c \in Seq(Nat) : c = pause_messages
        BY <1>0
      <4>3. c \o d \in Seq(Nat)
        BY ConcatProperties
      <4>4. (u \o c) \o d = u \o (c \o d)
        BY ConcatAssociative, SMTT(60)
      <4>5. QED
        BY <4>1, <4>2, <4>3, <4>4
    <3>5. shown \o Taken \o pause_messages' = UpTo(paused')
      BY <3>1, <3>2, <3>3, <3>4 DEF Messages
    <3>6. QED
      BY <1>0, <2>1, <3>1, <3>3, <3>4, <3>5 DEF Messages
  <2>4. QED
    BY <1>3, <2>2, <2>3 DEF RunUntil, Extended
<1>4. ASSUME NEW t \in timers, TimerFires(t) PROVE Messages'
  <2> DEFINE e == [id |-> t, phase |-> "try", messages |-> <<>>]
  <2>1. /\ UNCHANGED <<shown, pause_messages, paused>> /\ stack' = Append(stack, e)
        /\ stack # <<>> => Last(stack).phase = "events"
    BY <1>4 DEF TimerFires, Dispatches, simVars
  <2>2. IsExecution(e) /\ e.messages = <<>>
    BY EmptySeq DEF IsExecution
  <2> HIDE DEF e
  <2>3. Executing(stack') /\ stack' # <<>> /\ Last(stack') = e
    BY <1>0, <2>1, <2>2, Pushed
  <2>4. Taken = <<>> /\ Taken' = <<>>
    BY <1>0, <2>1, <2>2, <2>3, TopOf DEF Taken, IsExecution
  <2>5. QED
    BY <1>1, <2>1, <2>3, <2>4
<1>5. ASSUME NEW phase \in {"events", "try"}, NEW from \in {"events", "try"}, InTop(from),
             Top([Last(stack) EXCEPT !.phase = phase]),
             UNCHANGED <<shown, pause_messages, paused>>
      PROVE  Messages'
  <2> DEFINE e == [Last(stack) EXCEPT !.phase = phase]
  <2>1. stack # <<>> /\ Last(stack).phase = from
    BY <1>5 DEF InTop
  <2>2. IsExecution(Last(stack)) /\ Last(stack).messages = <<>>
    BY <1>0, <2>1, TopOf DEF IsExecution
  <2>3. IsExecution(e) /\ e.messages = <<>>
    BY <2>2, GoesOn
  <2>4. stack' = Front(stack) \o <<e>>
    BY <1>5 DEF Top
  <2> HIDE DEF e
  <2>5. Executing(stack') /\ stack' # <<>> /\ Last(stack') = e
    BY <1>0, <2>1, <2>3, <2>4, Replaced
  <2>6. Taken = <<>> /\ Taken' = <<>>
    BY <2>1, <2>2, <2>3, <2>5 DEF Taken
  <2>7. QED
    BY <1>1, <1>5, <2>5, <2>6
<1>6. CASE AcquireFails \/ NoEventsPending
  BY <1>5, <1>6 DEF AcquireFails, NoEventsPending, simVars
<1>7. CASE AcquireSucceeds
  <2> DEFINE e == [Last(stack) EXCEPT !.phase = "shown", !.messages = pause_messages]
  <2>1. /\ stack # <<>> /\ Last(stack).phase = "try" /\ stack' = Front(stack) \o <<e>>
        /\ pause_messages' = <<>> /\ UNCHANGED <<shown, paused>>
    BY <1>7 DEF AcquireSucceeds, InTop, Top
  <2>2. IsExecution(Last(stack)) /\ Last(stack).messages = <<>>
    BY <1>0, <2>1, TopOf DEF IsExecution
  <2>3. IsExecution(e) /\ e.messages = pause_messages
    BY <1>0, <2>2, Shows
  <2> HIDE DEF e
  <2>4. Executing(stack') /\ stack' # <<>> /\ Last(stack') = e
    BY <1>0, <2>1, <2>2, <2>3, Replaced
  <2>5. Taken = <<>> /\ Taken' = pause_messages
    BY <2>1, <2>2, <2>3, <2>4 DEF Taken
  <2>6. shown \o <<>> \o pause_messages = shown \o pause_messages \o <<>>
    <3>1. shown \o <<>> = shown
      BY <1>0, ConcatEmptySeq
    <3>2. shown \o pause_messages \in Seq(Nat)
      BY <1>0, ConcatProperties
    <3>3. (shown \o pause_messages) \o <<>> = shown \o pause_messages
      BY <3>2, ConcatEmptySeq
    <3>4. QED
      BY <3>1, <3>3
  <2>7. <<>> \in Seq(Nat)
    BY EmptySeq
  <2>8. QED
    BY <1>0, <2>1, <2>4, <2>5, <2>6, <2>7 DEF Messages
<1>8. CASE Finish
  <2>1. /\ stack # <<>> /\ stack' = Front(stack) /\ shown' = shown \o Last(stack).messages
        /\ UNCHANGED <<pause_messages, paused>>
    BY <1>8 DEF Finish, InTop, simVars
  <2>2. Executing(stack') /\ Taken' = <<>>
    BY <1>0, <2>1, Popped DEF Taken
  <2>3. Taken = Last(stack).messages
    BY <2>1 DEF Taken
  <2>4. shown' = shown \o Taken /\ shown' \in Seq(Nat)
    BY <1>0, <2>1, <2>3, ConcatProperties
  <2>5. shown' \o <<>> = shown'
    BY <2>4, ConcatEmptySeq
  <2>6. QED
    BY <1>0, <2>1, <2>2, <2>4, <2>5 DEF Messages
<1>9. QED
  BY <1>2, <1>3, <1>4, <1>6, <1>7, <1>8
     DEF Next, SimulationThread, GuiGoesOn, LoopTest, GoWait, GoClear, CheckQuit, AcquireLock,
         update_model, SetGo, Join, _on_play_button_toggled, _speed_changed, SetQuit, vars,
         simVars, guiVars

\* Every message of PyViz::Pause reaches the user once and in order, however often timer
\* handlers start inside a waiting one and wherever the simulation is paused meanwhile.
THEOREM MessagesOnceInOrderHolds == Spec => []MessagesOnceInOrder
<1>1. Messages => MessagesOnceInOrder
  BY DEF Messages, MessagesOnceInOrder, Taken, UpTo
<1>2. QED
  BY MessagesInit, MessagesPreserved, <1>1, PTL DEF Spec

================================================================================

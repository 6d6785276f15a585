------------------------------- MODULE Visualizer -------------------------------
(* The two threads of the PyViz visualizer (visualizer/core.py). SimulationThread *)
(* runs the simulation one period at a time, each time the view sets the event    *)
(* go. The main thread runs the event loop of GTK: the clicks of the user, the    *)
(* timer that updates the view and lets the next period run, and the idle call    *)
(* update_model that the simulation thread posts after each period. The lock of   *)
(* SimulationThread keeps the threads apart.                                      *)
(*                                                                                *)
(* While the view's timer waits for the lock it runs the event loop itself: other *)
(* events, another timer among them, are handled inside its handler. stack holds  *)
(* the timer handlers that are being executed, the innermost at its end.          *)
(*                                                                                *)
(* now and target_time are counted from the time the view showed last.            *)
EXTENDS Naturals, SequencesExt

CONSTANTS
  Periods,     \* the sample periods the speed button can ask for
  MaxClicks,   \* bound: what the user does to the play and speed buttons
  MaxPauses,   \* bound: the messages of PyViz::Pause
  None         \* no timer

ASSUME MaxPausesAssumption == MaxPauses \in Nat
ASSUME PeriodsAssumption == Periods \subseteq Nat \ {0} /\ Periods # {} /\ 1 \in Periods

VARIABLES
  sim,                \* where SimulationThread.run is
  lock,               \* whether the simulation thread holds the lock
  go, quit, target_time,
  pause_messages,     \* the members of SimulationThread
  now,                \* Simulator::Now
  paused,             \* how often PyViz::Pause has been called
  idle,               \* the idle calls of update_model that are pending
  timers,             \* the timers of update_view_timeout installed in GTK
  _update_timeout_id,
  active,             \* play_button.get_active
  sample_period,
  stack,              \* the executions of update_view_timeout
  shown,              \* history: the pause messages shown in a dialog
  gui,                \* the main thread: its loop, or a step of _quit
  clicks

simVars == <<sim, lock, now, pause_messages, paused>>
timerVars == <<timers, _update_timeout_id>>
vars == <<simVars, go, quit, target_time, idle, timerVars, active, sample_period, stack, shown,
          gui, clicks>>

\* create_gui sets the speed, which starts the timer of an inactive play button.
Init ==
  /\ sim = "test" /\ lock = FALSE /\ now = 0 /\ pause_messages = <<>> /\ paused = 0
  /\ go = FALSE /\ quit = FALSE /\ target_time = 0
  /\ idle = 0
  /\ timers = {1} /\ _update_timeout_id = 1
  /\ active = FALSE /\ sample_period = 1
  /\ stack = <<>> /\ shown = <<>>
  /\ gui = "loop" /\ clicks = 0

--------------------------------------------------------------------------------
(* SimulationThread.run *)

guiVars == <<quit, target_time, timerVars, active, sample_period, stack, shown, gui, clicks>>

Moves(from, to) == sim = from /\ sim' = to
LoopTest ==
  /\ Moves("test", IF quit THEN "ended" ELSE "wait")
  /\ UNCHANGED <<lock, now, pause_messages, paused, go, idle, guiVars>>
GoWait ==
  /\ go
  /\ Moves("wait", "clear")
  /\ UNCHANGED <<lock, now, pause_messages, paused, go, idle, guiVars>>
GoClear ==
  /\ Moves("clear", "check")
  /\ go' = FALSE
  /\ UNCHANGED <<lock, now, pause_messages, paused, idle, guiVars>>
CheckQuit ==
  /\ Moves("check", IF quit THEN "ended" ELSE "acquire")
  /\ UNCHANGED <<lock, now, pause_messages, paused, go, idle, guiVars>>
AcquireLock ==
  /\ ~lock
  /\ Moves("acquire", "running")
  /\ lock' = TRUE
  /\ UNCHANGED <<now, pause_messages, paused, go, idle, guiVars>>

\* A slip: the messages of the last period replace those the view has not taken.
Assigned(messages) == messages
Extended(messages) == pause_messages \o messages

\* A slip: the lock is not released when there was nothing to run.
HeldIfReached == now >= target_time
HeldAfterRun == FALSE

\* SimulatorRunUntil returns at once when the time has been reached, else at that time or
\* where the simulation stopped; Pause may be called on the way, more than once by the event
\* that is the last one then. The messages are numbered. Then update_model is posted.
RunUntil ==
  /\ Moves("running", "test")
  /\ \/ now >= target_time /\ UNCHANGED <<now, pause_messages, paused>>
     \/ now < target_time /\ now' \in now..target_time /\ UNCHANGED <<pause_messages, paused>>
     \/ /\ now < target_time /\ now' \in now..target_time
        /\ paused' \in paused + 1..MaxPauses
        /\ pause_messages' = Extended([i \in 1..paused' - paused |-> paused + i])
  /\ idle' = idle + 1
  /\ lock' = HeldAfterRun
  /\ UNCHANGED <<go, guiVars>>

SimulationThread == LoopTest \/ GoWait \/ GoClear \/ CheckQuit \/ AcquireLock \/ RunUntil

--------------------------------------------------------------------------------
(* The main thread: events. *)

\* GTK dispatches an event from its loop, or from the loop in a waiting timer handler. The
\* priority of update_model is above that of clicks, and that of the view's timer below.
Dispatches == gui = "loop" /\ (stack # <<>> => Last(stack).phase = "events")

\* The main thread waits for the lock, and holds it for the length of the handler.
update_model ==
  /\ Dispatches
  /\ idle > 0
  /\ ~lock
  /\ idle' = idle - 1
  /\ UNCHANGED <<simVars, go, guiVars>>

Clicked == Dispatches /\ idle = 0 /\ clicks < MaxClicks /\ clicks' = clicks + 1

\* A source of GTK that is not in use.
Used == timers \cup {e.id : e \in Range(stack)}
NewTimer == Min((1..Cardinality(Used) + 1) \ Used)

\* A slip: a timer is started only when none is known.
StartFirstTimer ==
  IF _update_timeout_id # None THEN UNCHANGED timerVars
  ELSE timers' = timers \cup {NewTimer} /\ _update_timeout_id' = NewTimer
_start_update_timer ==
  /\ timers' = (timers \ {_update_timeout_id}) \cup {NewTimer}
  /\ _update_timeout_id' = NewTimer

\* The play button is pressed again: the timer is removed, its id is kept.
StopTimer == timers' = timers \ {_update_timeout_id} /\ UNCHANGED _update_timeout_id

_on_play_button_toggled ==
  /\ Clicked
  /\ active' = ~active
  /\ IF active' THEN _start_update_timer ELSE StopTimer
  /\ UNCHANGED <<simVars, go, quit, target_time, idle, sample_period, stack, shown, gui>>

_speed_changed ==
  /\ Clicked
  /\ sample_period' \in Periods
  /\ _start_update_timer
  /\ UNCHANGED <<simVars, go, quit, target_time, idle, active, stack, shown, gui>>

--------------------------------------------------------------------------------
(* The main thread: update_view_timeout. *)

InTop(phase) == gui = "loop" /\ stack # <<>> /\ Last(stack).phase = phase
Top(execution) == stack' = Front(stack) \o <<execution>>

TimerFires(t) ==
  /\ Dispatches
  /\ idle = 0
  /\ t \in timers \ {e.id : e \in Range(stack)}
  /\ stack' = Append(stack, [id |-> t, phase |-> "try", messages |-> <<>>])
  /\ UNCHANGED <<simVars, go, quit, target_time, idle, timerVars, active, sample_period, shown,
                 gui, clicks>>

\* The lock is taken: the events that are pending are handled first.
AcquireFails ==
  /\ InTop("try") /\ lock
  /\ Top([Last(stack) EXCEPT !.phase = "events"])
  /\ UNCHANGED <<simVars, go, quit, target_time, idle, timerVars, active, sample_period, shown,
                 gui, clicks>>
NoEventsPending ==
  /\ InTop("events") /\ idle = 0
  /\ Top([Last(stack) EXCEPT !.phase = "try"])
  /\ UNCHANGED <<simVars, go, quit, target_time, idle, timerVars, active, sample_period, shown,
                 gui, clicks>>

\* A slip: the target is moved on by a period, wherever the simulation is.
TargetMovesOn == (target_time - now) + sample_period
NextTarget == sample_period

\* With the lock: the messages are taken, the view is updated and shows Now, and the
\* next target is set.
AcquireSucceeds ==
  /\ InTop("try") /\ ~lock
  /\ Top([Last(stack) EXCEPT !.phase = "shown", !.messages = pause_messages])
  /\ pause_messages' = <<>>
  /\ now' = 0
  /\ target_time' = NextTarget
  /\ UNCHANGED <<sim, lock, paused, go, quit, idle, timerVars, active, sample_period, shown, gui,
                 clicks>>

\* Without the lock: the dialog, which presses the play button out, then the end of the
\* timer when the button is not active, or the signal for the next period.
Finish ==
  LET top == Last(stack) IN
  /\ InTop("shown")
  /\ shown' = shown \o top.messages
  /\ active' = (active /\ top.messages = <<>>)
  /\ IF active'
     THEN go' = TRUE /\ UNCHANGED timerVars
     ELSE /\ timers' = timers \ ({top.id} \cup IF active THEN {_update_timeout_id} ELSE {})
          /\ _update_timeout_id' = None
          /\ UNCHANGED go
  /\ stack' = Front(stack)
  /\ UNCHANGED <<simVars, quit, target_time, idle, sample_period, gui, clicks>>

--------------------------------------------------------------------------------
(* The main thread: _quit. *)

SetQuit ==
  /\ Dispatches /\ idle = 0
  /\ gui' = "quitting"
  /\ quit' = TRUE
  /\ timers' = timers \ {_update_timeout_id} /\ _update_timeout_id' = None
  /\ UNCHANGED <<simVars, go, target_time, idle, active, sample_period, stack, shown, clicks>>

\* A slip: the simulation thread is not woken.
JoinAtOnce ==
  /\ gui = "quitting"
  /\ gui' = "joining"
  /\ UNCHANGED <<simVars, go, quit, target_time, idle, timerVars, active, sample_period, stack,
                 shown, clicks>>
SetGo ==
  /\ gui = "quitting"
  /\ gui' = "joining"
  /\ go' = TRUE
  /\ UNCHANGED <<simVars, quit, target_time, idle, timerVars, active, sample_period, stack,
                 shown, clicks>>

Join ==
  /\ gui = "joining" /\ sim = "ended"
  /\ gui' = "quit"
  /\ UNCHANGED <<simVars, go, quit, target_time, idle, timerVars, active, sample_period, stack,
                 shown, clicks>>

GuiGoesOn ==
  \/ update_model \/ AcquireFails \/ NoEventsPending \/ AcquireSucceeds \/ Finish \/ SetGo \/ Join

Next ==
  \/ SimulationThread
  \/ GuiGoesOn
  \/ _on_play_button_toggled \/ _speed_changed \/ SetQuit
  \/ \E t \in timers : TimerFires(t)

\* Both threads run, SimulatorRunUntil returns, and GTK dispatches its timers.
Fairness ==
  /\ WF_vars(SimulationThread)
  /\ WF_vars(GuiGoesOn)
  /\ WF_vars(\E t \in timers : TimerFires(t))

Spec == Init /\ [][Next]_vars /\ Fairness

--------------------------------------------------------------------------------
(* What the visualizer promises. *)

\* The simulation is never more than one period ahead of the view, although signals for
\* the next period may be set again before the last one is seen, and be seen too late.
AheadAtMostOnePeriod == \E period \in Periods : now <= period

\* Every message of PyViz::Pause is shown, is about to be shown or waits for the view,
\* once and in order, although timer handlers nest and messages come while one waits.
MessagesOnceInOrder ==
  LET taken == IF stack = <<>> THEN <<>> ELSE Last(stack).messages
  IN  shown \o taken \o pause_messages = [i \in 1..paused |-> i]

\* While the play button is pressed a timer is installed: no order of clicks, nested
\* handlers and pauses leaves the button pressed and the simulation standing still.
PlayingHasTimer == active /\ gui = "loop" => timers # {}

\* A visualizer that is left playing runs the simulation again and again.
PlayingSimulates == <>[](active /\ gui = "loop") => []<>(sim = "running")

\* Closing the window ends the program: the simulation thread sees quit or go in whatever
\* step it is, and never waits for the thread that waits for it.
QuitEnds == gui = "quitting" ~> gui = "quit"
================================================================================

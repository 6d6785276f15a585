SPECIFICATION Spec
CONSTANTS
  Periods = {1, 2}
  MaxClicks = 4
  MaxPauses = 2
  None = None
INVARIANTS AheadAtMostOnePeriod MessagesOnceInOrder PlayingHasTimer
PROPERTIES PlayingSimulates QuitEnds
\* The program ends.
CHECK_DEADLOCK FALSE

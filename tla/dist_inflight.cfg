SPECIFICATION Spec
CONSTANTS
  Ranks <- MCRanks
  Delay <- MCDelay
  MaxLookAhead <- MCMaxLookAhead
  Starts <- MCStarts
  TxTimes = {0, 1}
  Delays = {0, 2}
  Infinity = 63
  TwoTo32 = 8
  MaxEvents = 4
INVARIANTS NoMessageLost
\* The simulation ends.
CHECK_DEADLOCK FALSE

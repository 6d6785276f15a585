SPECIFICATION Spec
CONSTANTS
  Ranks = {"a", "b"}
  Devices = {"a-b", "b-a", "a=b", "b=a"}
  RankOf <- MCRankOf
  RemoteOf <- MCRemoteOf
  DelayOf <- MCDelayOf
  TxTimeOf <- MCTxTimeOf
  SchedulerTune = 100
  Delays = {0, 1}
  Starts <- MCStarts
  StopTime <- MCStopTime
  MaxEvents = 3
INVARIANTS GuaranteeKept
\* The simulation ends.
CHECK_DEADLOCK FALSE

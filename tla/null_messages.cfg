SPECIFICATION Spec
CONSTANTS
  Ranks = {"a", "b", "c"}
  Devices = {"a-b", "b-a", "b-c", "c-b"}
  RankOf <- MCRankOf
  RemoteOf <- MCRemoteOf
  DelayOf <- MCDelayOf
  TxTimeOf <- MCTxTimeOf
  SchedulerTune = 100
  Delays = {0, 1}
  Starts <- MCStarts
  StopTime <- MCStopTime
  MaxEvents = 2
INVARIANTS GuaranteeKept NoneInThePast OneNullEvent
PROPERTIES AllReturn
\* The simulation ends.
CHECK_DEADLOCK FALSE

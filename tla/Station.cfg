SPECIFICATION StationSpec
CONSTANTS
  Worker = w
  Loop = w
  Relay = w
  Callers = {w, x}
  None = None
  MaxDuration = 2
  MaxGen = 5
  Faults = {"refused"}
  Clients = {host, monitor}
  Host = host
  IdInterval = 2
  SignoffIdle = 1
  MaxBusy = 3
  IdFaults = {"Assert", "Transmit"}
  FullDuplex = {TRUE, FALSE}
  QueueCap = 1
  MaxSenseFaults = 2
  m1 = m1
  m2 = m2
  m3 = m3
  m4 = m4
  TopLevel = 4
  Levels = {1, 2, 4}
  InitialLevel = 1
  NackThreshold = 3
  AckClimbThreshold = 3
  CounterMax = 5
  Floor <- MCFloor
  Ceiling <- MCCeiling
  Readings = {None, 0, 3, 6}
  FailReadings = {None, 0, 2, 5}
  MaxRetries = 3
  MaxSilentWindows = 2
  NackBudget = 3
  LinkReadings = {None, 3, 6}
  Messages = {m1, m2, m3, m4}
  SegmentKey <- MCSegmentKey
  FragmentTotal <- MCFragmentTotal
  MaxCandidates = 2
  MaxPending = 2
  SarTimeout = 2
  DataClients = {host, peer}
  Lengths = {1, 2}
  DataCap = 1
  MaxSent = 1
  MaxCommands = 2
  ArqTimeout = 1
  AdaptiveArq = {TRUE, FALSE}
INVARIANTS
  StationTypeOK KeyedIsArmed HolderIffArmed
  GoneHostHoldsNoKey
  RepeaterComesBackUnkeyed ToldMeansRunning
  LevelsUsable SenderHasEvidence
  BufferIsExact TotalIsExact UndisturbedIsReturned
PROPERTIES
  DeadlineMovedByHolder EdgesAreTransitions WatchdogBoundsKey
  KeyEndsByRight
  RelayIsCurrent EventLoopReturns
  FramesAreIdentified
  HysteresisCounts QueueDrains
CHECK_DEADLOCK FALSE

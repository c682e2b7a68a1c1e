SPECIFICATION LinkSpec
CONSTANTS
  TopLevel = 4
  Levels = {1, 2, 4}
  InitialLevel = 2
  NackThreshold = 3
  AckClimbThreshold = 3
  CounterMax = 5
  Floor <- MCFloor
  Ceiling <- MCCeiling
  None = None
  MaxRetries = 3
  MaxSilentWindows = 2
  NackBudget = 3
  LinkReadings = {None}
INVARIANTS DeliveredIsGot

SPECIFICATION DiscFairSpec
CONSTANTS
  None = None
  OperatorFreqs = {"f", "g"}
  Calling = "js8"
  Working = "ch"
  Grace = 1
  Dwell = 2
  SwitchSlots = 1
  Interval = 2
  Frames = 2
  TxMode = "RxOnly"
  CatFaults = {{}}
PROPERTIES DisableReturnsHome
CHECK_DEADLOCK FALSE

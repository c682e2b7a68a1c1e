SPECIFICATION HsFairSpec
CONSTANTS
  a = a
  b = b
  None = None
  Daemons = {a, b}
  Contacts <- BothWays
  AirLoses = FALSE
  TxFails = FALSE
  HsTimeout = 1
  MaxDials = 2
  MaxRecoveries = 4
  MaxArqRetries = 6
INVARIANTS KeysAgree
CHECK_DEADLOCK FALSE

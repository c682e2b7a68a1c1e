SPECIFICATION TncSpec
CONSTANTS
  None = None
  DataClients = {host}
  Lengths = {1}
  DataCap = 1
  MaxSent = 1
  MaxCommands = 2
  ArqTimeout = 2
  AdaptiveArq = {TRUE}
PROPERTIES TimeoutSparesNew
CHECK_DEADLOCK FALSE

SPECIFICATION ArdopSpec
CONSTANTS
  Worker = w
  Callers = {w}
  None = None
  MaxDuration = 1
  MaxGen = 4
  Faults = {}
  Clients = {host, monitor}
  Host = host
PROPERTIES DisconnectSparesWorker

SPECIFICATION MeshFairSpec
CONSTANTS
  None = None
  a = a
  b = b
  c = c
  Nodes = {a, b, c}
  Links <- Line
  HopLimit <- TwoHops
  Denied <- NoneDenied
  Strict = {}
  QueryCap = 2
  SeenCap = 2
  Sessions = {1}
  MaxTtl = 2
  Plans <- OneDiscovery
  MaxMishaps = 0
PROPERTIES DiscoveryCompletes
CHECK_DEADLOCK FALSE

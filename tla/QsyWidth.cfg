SPECIFICATION QsyFairSpec
CONSTANTS
  a = a
  b = b
  None = None
  Stations <- MCStations
  Candidates <- MCCandidates
  InSegment = {"f", "g", "x"}
  Home = "h"
  Aware = TRUE
  EnforceWidth = TRUE
  Declines = {FALSE}
  Lossy = FALSE
  RigFails = {FALSE}
  TimelyAir = TRUE
  Ttl = 1
  MaxOpened = 1
PROPERTIES NegotiationMoves
CHECK_DEADLOCK FALSE

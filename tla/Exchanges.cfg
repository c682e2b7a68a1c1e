SPECIFICATION ExchangeSpec
CONSTANTS
  a = a
  b = b
  c = c
  None = None
  Stations <- MCStations
  Candidates <- MCCandidates
  InSegment = {"f", "g"}
  Home = "h"
  Aware = TRUE
  EnforceWidth = FALSE
  Declines = {TRUE, FALSE}
  Lossy = TRUE
  RigFails = {TRUE, FALSE}
  TimelyAir = FALSE
  Ttl = 1
  MaxOpened = 2
  OperatorFreqs = {"f", "g"}
  Calling = "js8"
  Working = "ch"
  Grace = 1
  Dwell = 4
  SwitchSlots = 1
  Interval = 2
  Frames = 2
  TxMode = "Full"
  CatFaults = {{}, {"refused"}}
  Proposers = {a}
  Responders = {b}
  ChannelTables <- MCTables
  RdvTokens = {"t", "u"}
  OverLen = 2
  RdvSwitchSlots = 2
  Timeout = 6
  Cooldown = 6
  BusyChannel = FALSE
  MaxProposals = 2
  MaxLeaves = 1
  Daemons = {a, b, c}
  Contacts <- MCContacts
  AirLoses = TRUE
  TxFails = TRUE
  HsTimeout = 1
  MaxDials = 3
  MaxRecoveries = 4
  MaxArqRetries = 6
  Nodes = {a, b, c}
  Links <- InLine
  HopLimit <- MCHopLimit
  Denied <- MCDenied
  Strict = {a}
  QueryCap = 1
  SeenCap = 2
  Sessions = {1}
  MaxTtl = 2
  Plans <- MCPlans
  MaxMishaps = 1
  Senders = {a}
  Files = {"file1", "file2"}
  BlockCount = 2
  MaxBlockRetries = 4
  OfferTicks = 1
  StallTicks = 1
  VerifyTicks = 1
  Decisions = {"AutoAccept", "Prompt", "Reject"}
  Signed = {TRUE, FALSE}
  Persists = {"written", "refused", "truncated"}
  Writes = {TRUE, FALSE}
  FxTimelyAir = FALSE
  MaxTransfers = 2
  MaxFaults = 1
  Batches <- MCBatches
  MaxBatch = 2
  MaxFrames = 4
  MaxDecompressed = 2
  MaxLinkFaults = 2
  Requests = {"r1", "r2", "r3"}
  Loads <- MCLoads
  Published = {"old", "new"}
  PoolSize = 2
INVARIANTS
  ExchangeTypeOK SessionDelivers ExactlyOneCurrent RepliedIsStored
  ApartMeansUnfollowed DialReturns DiallersKeyIsShared RecoveriesBounded
  RoutesLeadThere SentIsDelivered
  AssembledIsOffered ReceiptIsEarned
PROPERTIES
  PartialsSurvive
  ImplementsAgreement
  InitiatorNeverAlone
  ExchangesEnd
  FloodsEnd
CHECK_DEADLOCK FALSE

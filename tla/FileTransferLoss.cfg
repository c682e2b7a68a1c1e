SPECIFICATION FxSpec
CONSTANTS
  Stations = {a, b}
  Senders = {a}
  Files = {f, g}
  BlockCount = 2
  MaxBlockRetries = 4
  OfferTicks = 1
  StallTicks = 1
  VerifyTicks = 1
  Decisions = {"AutoAccept", "Prompt", "Reject"}
  Signed = {TRUE}
  Persists = {"written"}
  Writes = {TRUE}
  FxTimelyAir = TRUE
  MaxTransfers = 1
  MaxFaults = 1
  None = None
PROPERTIES StallAfterRetries
CHECK_DEADLOCK FALSE

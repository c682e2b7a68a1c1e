SPECIFICATION DaemonSpec
CONSTANTS
  Loop = loop
  Callers = {loop}
  None = None
  MaxDuration = 2
  MaxGen = 5
  Faults = {"refused", "reply_lost"}
INVARIANTS KeyedIsArmed

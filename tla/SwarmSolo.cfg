\* One conversation, every quirk and fault.
CONSTANTS
  p1 = p1
  p2 = p2
  Peers = {p1}
  MaxThreads = 5
  NumPieces = 3
  NumBlocks = 2
  Advertises <- AnyBitfields
  Faults = {"refuse", "drop"}
  Quirks = {"have", "choke", "keepalive", "again", "brief", "bare", "corrupt", "short", "split"}
  MaxChatter = 1
SPECIFICATION SwarmSpec
INVARIANTS SwarmTypeOK StoredIsGenuine ExitsSatisfied
PROPERTIES RefinesOrchestrator
CHECK_DEADLOCK FALSE

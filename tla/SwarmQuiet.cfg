\* Peers that answer, may send a keep-alive and may spoil a block.
CONSTANTS
  p1 = p1
  p2 = p2
  Peers = {p1, p2}
  MaxThreads = 5
  NumPieces = 2
  NumBlocks = 2
  Advertises <- CompleteBitfields
  Faults = {}
  Quirks = {"keepalive", "corrupt"}
  MaxChatter = 1
SPECIFICATION SwarmLiveSpec
INVARIANTS InStep ClaimedOnce
PROPERTIES SwarmCompletes
CHECK_DEADLOCK FALSE

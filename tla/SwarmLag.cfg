\* A peer that has every piece and answers, but once chokes for a while.
CONSTANTS
  p1 = p1
  p2 = p2
  Peers = {p1}
  MaxThreads = 5
  NumPieces = 2
  NumBlocks = 2
  Advertises <- CompleteBitfields
  Faults = {}
  Quirks = {"choke"}
  MaxChatter = 1
SPECIFICATION SwarmLiveSpec
PROPERTIES SwarmCompletes
CHECK_DEADLOCK FALSE

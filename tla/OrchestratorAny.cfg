\* Two threads out of three peers, any bitfields, every fault.
CONSTANTS
  p1 = p1
  p2 = p2
  p3 = p3
  Peers = {p1, p2, p3}
  MaxThreads = 2
  NumPieces = 2
  Advertises <- AnyBitfields
  Faults = {"refuse", "drop", "block"}
SPECIFICATION LiveSpec
INVARIANTS TypeOK NoPieceLost MissingIsQueued EntryBound
PROPERTIES SurvivorsEnd HealthyCompletes

\* Two threads grab the same piece.
CONSTANTS
  p1 = p1
  p2 = p2
  p3 = p3
  Peers = {p1, p2, p3}
  MaxThreads = 3
  NumPieces = 1
  Advertises <- AnyBitfields
  Faults = {}
SYMMETRY AnyOrder
SPECIFICATION Spec
INVARIANTS ClaimedOnce

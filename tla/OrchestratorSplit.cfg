\* Two peers that between them have every piece.
CONSTANTS
  p1 = p1
  p2 = p2
  p3 = p3
  Peers = {p1, p2}
  MaxThreads = 2
  NumPieces = 2
  Advertises <- SplitBitfields
  Faults = {}
SPECIFICATION AnsweredSpec
PROPERTIES Completes

\* A peer that answers and stays; the stream is cut anywhere.
CONSTANTS
  BlockSize = 2
  Word = 8
  MaxTotal = 12
  MaxPiece = 6
  MaxPieces = 12
  Unsolicited = {}
  MaxUnsolicited = 0
SPECIFICATION TransferSpec
INVARIANTS ClosedOnlyByPeer
CHECK_DEADLOCK FALSE

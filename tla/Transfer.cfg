\* Files longer than a word, streams cut at every byte, and messages that are
\* not asked for.
CONSTANTS
  BlockSize = 2
  Word = 8
  MaxTotal = 12
  MaxPiece = 6
  MaxPieces = 12
  Unsolicited <- KeepAliveOrChoke
  MaxUnsolicited = 1
SPECIFICATION TransferSpec
INVARIANTS LengthIsTrue BufferIsFilled PieceIsTheFiles RejectsOnlyOthers
CHECK_DEADLOCK FALSE

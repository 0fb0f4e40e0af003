\* A short last piece, a stream that may keep less than a piece.  Crashes,
\* failures and second runs.
CONSTANTS
  TotalLength = 8
  PieceSize = 3
  Arguments = {"none", "torrent", "broken", "magnet"}
  Replies = {"peers", "empty", "down"}
  StreamBuffer = 2
  Room = {0, 2, 3, 5, 7, 8}
  MaxRuns = 2
SPECIFICATION Spec
INVARIANTS FileIsPrefix SavedOnSuccess
CHECK_DEADLOCK FALSE

\* Torrents and replies whose contents look like syntax, whole and cut short.
CONSTANTS
  Bytes <- ModelBytes
  encode <- Encode
  decode <- DecodeText
  Authored <- Torrents
  PeerLists <- SomePeers
  HashSize = 3
  PeerSize = 3
SPECIFICATION Spec
INVARIANTS CodecInverts TorrentIsTheFiles TruncatedRejected PeersAreTheTrackers HashForEveryPiece
CHECK_DEADLOCK FALSE

--------------------------- MODULE PieceGeometry ---------------------------
(***************************************************************************)
(* The arithmetic of one piece: the length peer_worker computes for it and *)
(* the loop in which download_piece asks for its blocks and copies them    *)
(* into its buffer.  Lengths and offsets are uint32_t, so their arithmetic *)
(* is modulo Word; total_length is 64 bits wide and does not wrap.  The    *)
(* number of pieces is that of the torrent's hashes: nothing in the code   *)
(* compares it with the length.                                            *)
(***************************************************************************)
EXTENDS Integers, FiniteSets

CONSTANTS
    BlockSize,  \* 16384 in the code
    Word,       \* 2^32 in the code
    MaxTotal,   \* bound: the longest file
    MaxPiece,   \* bound: the longest piece
    MaxPieces   \* bound: the most hashes

ASSUME GeometryAssumption ==
    /\ BlockSize \in Nat \ {0}
    /\ Word \in Nat
    /\ MaxTotal \in Nat
    /\ MaxPiece \in 1 .. Word - 1
    /\ MaxPieces \in Nat \ {0}

VARIABLES
    total_length,  \* metadata.total_length
    piece_size,    \* metadata.piece_length
    num_pieces,    \* metadata.num_pieces
    piece_index,   \* the piece
    piece_length,  \* the local variable of peer_worker
    i,             \* the loop counter of download_piece
    copied,        \* the bytes of the buffer that blocks were copied to
    received,      \* how many bytes were copied in all
    pc             \* "length", "blocks" or "hash"

geometry == <<total_length, piece_size, num_pieces, piece_index>>
geometryVars == <<geometry, piece_length, i, copied, received, pc>>

Least(a, b) == IF a <= b THEN a ELSE b

Init ==
    /\ total_length \in 0 .. MaxTotal
    /\ piece_size \in 1 .. MaxPiece
    /\ num_pieces \in 1 .. MaxPieces
    /\ piece_index \in 0 .. num_pieces - 1
    /\ piece_length = 0
    /\ i = 0
    /\ copied = {}
    /\ received = 0
    /\ pc = "length"

\* Mutant: every piece is taken to be of the full length.
ComputeLengthFull ==
    /\ pc = "length"
    /\ piece_length' = piece_size
    /\ pc' = "blocks"
    /\ UNCHANGED <<geometry, i, copied, received>>

\* The product wraps at 32 bits, the difference at 64, and the result is cut
\* to 32 bits again.
ComputeLength ==
    /\ pc = "length"
    /\ piece_length' =
           IF piece_index = num_pieces - 1
           THEN (total_length - ((piece_index * piece_size) % Word)) % Word
           ELSE piece_size
    /\ pc' = "blocks"
    /\ UNCHANGED <<geometry, i, copied, received>>

num_blocks == ((piece_length + BlockSize - 1) % Word) \div BlockSize

Offset == (i * BlockSize) % Word

\* Mutant: the last block is asked for in full length.
BlockLengthFull == BlockSize

BlockLength == Least(BlockSize, (piece_length - Offset) % Word)

RequestBlock ==
    /\ pc = "blocks"
    /\ i < num_blocks
    /\ copied' = copied \cup (Offset .. Offset + BlockLength - 1)
    /\ received' = received + BlockLength
    /\ i' = i + 1
    /\ UNCHANGED <<geometry, piece_length, pc>>

EndBlocks ==
    /\ pc = "blocks"
    /\ i >= num_blocks
    /\ pc' = "hash"
    /\ UNCHANGED <<geometry, piece_length, i, copied, received>>

Hashed == pc = "hash" /\ UNCHANGED geometryVars

Next == ComputeLength \/ RequestBlock \/ EndBlocks \/ Hashed

Spec == Init /\ [][Next]_geometryVars

-----------------------------------------------------------------------------
(* Properties *)

\* What a torrent that is well formed has: a hash for every piece begun.
Agrees == num_pieces = (total_length + piece_size - 1) \div piece_size

\* The bytes of the file that belong to the piece.
TrueLength == Least(piece_size, total_length - piece_index * piece_size)

\* The wrapping product and the truncation cancel out: when hashes and length
\* agree, the length is right even for a file longer than 32 bits can count.
LengthIsTrue == pc # "length" /\ Agrees => piece_length = TrueLength

\* The sum in num_blocks does not wrap.
Countable == piece_length + BlockSize <= Word

\* When the buffer is hashed every byte of it was copied from a block once,
\* and no block was copied past its end, whatever length was computed.
BufferIsFilled ==
    pc = "hash" /\ Countable
        => copied = 0 .. piece_length - 1 /\ received = piece_length
=============================================================================

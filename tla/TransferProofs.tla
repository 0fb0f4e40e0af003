--------------------------- MODULE TransferProofs ---------------------------
(***************************************************************************)
(* The byte stream of download_piece, for every file, piece and block size *)
(* and every word that four bytes hold, whatever is sent unasked and       *)
(* however the stream is cut.                                              *)
(*                                                                         *)
(* The client has no marks to go by: it stays aligned with the messages    *)
(* only because it reads each to its end.  So the invariant names the      *)
(* places where messages begin in the unread bytes (Framed), says that the *)
(* client stands on one of them whenever it reads a length, and that at    *)
(* most one answer is under way, which is the one awaited.  The last       *)
(* message may lack its end; what would follow is then a place beyond the  *)
(* unread bytes.                                                           *)
(*                                                                         *)
(* The arithmetic of one piece comes first: products of variables are      *)
(* named, and only their bounds and the laws stated here are used.         *)
(***************************************************************************)
EXTENDS Transfer, SequenceTheorems, TLAPS

-----------------------------------------------------------------------------
(* Division and remainder *)

LEMMA Quotient ==
    ASSUME NEW a \in Int, NEW b \in Nat \ {0}
    PROVE  /\ a \div b \in Int
           /\ b * (a \div b) <= a
           /\ a < b * (a \div b) + b
  OBVIOUS

LEMMA Remainder ==
    ASSUME NEW a \in Int, NEW b \in Nat \ {0}
    PROVE  /\ a % b \in 0 .. b - 1
           /\ a = b * (a \div b) + (a % b)
  OBVIOUS

\* A quotient rounded up: the last multiple begun is below a.
LEMMA RoundedUp ==
    ASSUME NEW a \in Nat, NEW b \in Nat \ {0}
    PROVE  LET q == (a + b - 1) \div b
           IN /\ q \in Nat
              /\ b * q >= a
              /\ b * q - b < a
  <1> DEFINE q == (a + b - 1) \div b
  <1>1. /\ q \in Int
        /\ b * q <= a + b - 1
        /\ a + b - 1 < b * q + b
    BY Quotient
  <1>2. q >= 0
    <2>1. SUFFICES ASSUME q <= -1 PROVE FALSE
      BY <1>1
    <2>2. b * q <= -b
      BY <1>1, <2>1
    <2> QED BY <1>1, <2>2
  <1> QED BY <1>1, <1>2

LEMMA SmallRemainder ==
    ASSUME NEW b \in Nat \ {0}, NEW a \in 0 .. b - 1
    PROVE  a % b = a
  OBVIOUS

\* Two numbers below b that differ by a multiple of b are equal.
LEMMA SameRemainder ==
    ASSUME NEW b \in Nat \ {0}, NEW x \in 0 .. b - 1, NEW y \in 0 .. b - 1,
           NEW k \in Int, x = y + b * k
    PROVE  x = y
  <1>1. CASE k >= 1
    <2>1. b * k >= b
      BY <1>1
    <2> QED BY <2>1
  <1>2. CASE k <= -1
    <2>1. b * k <= -b
      BY <1>2
    <2> QED BY <2>1
  <1>3. CASE k = 0
    BY <1>3
  <1> QED BY <1>1, <1>2, <1>3

\* A difference may be taken of a wrapped product, if it is wrapped itself
\* and fits.
LEMMA WrappedDifference ==
    ASSUME NEW b \in Nat \ {0}, NEW t \in Int, NEW x \in Int,
           t - x \in 0 .. b - 1
    PROVE  (t - (x % b)) % b = t - x
  <1> DEFINE r == x % b
             k == x \div b
             s == (t - r) % b
             m == (t - r) \div b
             y == t - x
             j == k - m
  <1>1. r \in Int /\ k \in Int /\ x = b * k + r
    BY Remainder, Quotient
  <1>2. s \in 0 .. b - 1 /\ m \in Int /\ t - r = b * m + s
    BY <1>1, Remainder, Quotient
  <1>3. s = y + b * j
    <2>1. b * (k - m) = b * k - b * m
      BY <1>1, <1>2
    <2> HIDE DEF r, k, s, m
    <2> QED BY <1>1, <1>2, <2>1
  <1>4. j \in Int /\ y \in 0 .. b - 1
    BY <1>1, <1>2
  <1> HIDE DEF s, y, j
  <1>5. s = y
    BY <1>2, <1>3, <1>4, SameRemainder
  <1> QED BY <1>5 DEF s, y

-----------------------------------------------------------------------------
(* The length of a piece *)

Shape == /\ total_length \in Nat
         /\ piece_size \in 1 .. MaxPiece
         /\ num_pieces \in Nat \ {0}
         /\ piece_index \in 0 .. num_pieces - 1

\* When hashes and length agree, the last piece begins before the end of the
\* file and reaches it; every other piece ends before it.
LEMMA PieceWithinFile ==
    ASSUME Shape, Agrees
    PROVE  /\ piece_index \in Nat
           /\ piece_index * piece_size \in Nat
           /\ piece_index = num_pieces - 1
                  => total_length - piece_index * piece_size \in 1 .. piece_size
           /\ piece_index # num_pieces - 1
                  => total_length - piece_index * piece_size > piece_size
  <1> USE DEF Shape
  <1>1. piece_size \in Nat \ {0}
    BY GeometryAssumption
  <1>2. /\ piece_size * num_pieces >= total_length
        /\ piece_size * num_pieces - piece_size < total_length
    BY <1>1, RoundedUp DEF Agrees
  <1>3. piece_index \in Nat /\ piece_index <= num_pieces - 1
    OBVIOUS
  <1>4. piece_index * piece_size \in Nat
    BY <1>1, <1>3
  <1>5. ASSUME piece_index = num_pieces - 1
        PROVE  piece_index * piece_size = piece_size * num_pieces - piece_size
    BY <1>1, <1>2, <1>5
  <1>6. ASSUME piece_index # num_pieces - 1
        PROVE  piece_index * piece_size + piece_size
                   <= piece_size * num_pieces - piece_size
    <2>1. piece_index + 2 <= num_pieces
      BY <1>2, <1>3, <1>6
    <2>2. piece_size * (piece_index + 2) <= piece_size * num_pieces
      BY <1>1, <1>2, <1>3, <2>1
    <2> QED BY <1>1, <1>2, <1>3, <2>2
  <1>7. piece_size * num_pieces \in Nat
    BY <1>1, <1>2
  <1> QED BY <1>1, <1>2, <1>3, <1>4, <1>5, <1>6, <1>7

LEMMA TrueLengthType ==
    ASSUME Shape, Agrees
    PROVE  TrueLength \in 1 .. piece_size /\ TrueLength \in 1 .. MaxPiece
  BY PieceWithinFile, GeometryAssumption DEF Shape, TrueLength, Least

LEMMA LengthComputed ==
    ASSUME Shape, Agrees, ComputeLength
    PROVE  piece_length' = TrueLength
  <1>1. CASE piece_index = num_pieces - 1
    <2> DEFINE x == piece_index * piece_size
    <2>1. /\ x \in Nat
          /\ total_length - x \in 1 .. piece_size
          /\ piece_size \in 1 .. MaxPiece
          /\ total_length \in Nat
      BY <1>1, PieceWithinFile DEF Shape
    <2>2. TrueLength = total_length - x
      BY <2>1, GeometryAssumption DEF TrueLength, Least
    <2>3. piece_length' = (total_length - (x % Word)) % Word
      BY <1>1 DEF ComputeLength
    <2>4. Word \in Nat \ {0} /\ MaxPiece < Word /\ MaxPiece \in Nat
      BY GeometryAssumption
    <2> HIDE DEF x
    <2>5. total_length - x \in 0 .. Word - 1 /\ x \in Int /\ total_length \in Int
      BY <2>1, <2>4
    <2>6. (total_length - (x % Word)) % Word = total_length - x
      BY <2>4, <2>5, WrappedDifference
    <2> QED BY <2>2, <2>3, <2>6
  <1>2. CASE piece_index # num_pieces - 1
    BY <1>2, PieceWithinFile, GeometryAssumption
    DEF Shape, ComputeLength, TrueLength, Least
  <1> QED BY <1>1, <1>2

\* Whether they agree or not, a uint32_t is computed.
LEMMA LengthType ==
    ASSUME Shape, ComputeLength
    PROVE  piece_length' \in 0 .. Word - 1
  <1> DEFINE x == piece_index * piece_size
             r == x % Word
             d == total_length - r
  <1>1. Word \in Nat \ {0} /\ piece_size \in 0 .. Word - 1 /\ total_length \in Int
    BY GeometryAssumption DEF Shape
  <1>2. x \in Int
    BY GeometryAssumption DEF Shape
  <1>3. piece_length' = IF piece_index = num_pieces - 1 THEN d % Word ELSE piece_size
    BY DEF ComputeLength
  <1> HIDE DEF x
  <1>4. r \in Int
    BY <1>1, <1>2, Remainder
  <1> HIDE DEF r
  <1>5. d \in Int
    BY <1>1, <1>4
  <1> HIDE DEF d
  <1>6. d % Word \in 0 .. Word - 1
    BY <1>1, <1>5, Remainder
  <1> QED BY <1>1, <1>3, <1>6

-----------------------------------------------------------------------------
(* The blocks *)

\* At the head of the block loop the blocks so far are a beginning of the piece.
BlocksAreBeginning ==
    /\ copied = 0 .. Least(i * BlockSize, piece_length) - 1
    /\ received = Least(i * BlockSize, piece_length)

GeometryInv ==
    /\ Shape
    /\ i \in Nat
    /\ pc \in {"length", "blocks", "hash"}
    /\ pc = "length" => i = 0 /\ copied = {} /\ received = 0
    /\ piece_length \in 0 .. Word - 1
    /\ LengthIsTrue
    /\ pc = "blocks" /\ Countable => BlocksAreBeginning
    /\ BufferIsFilled

\* The sum in num_blocks does not wrap, and the blocks cover the piece.
LEMMA BlocksCover ==
    ASSUME piece_length \in Nat, Countable
    PROVE  /\ num_blocks \in Nat
           /\ BlockSize * num_blocks >= piece_length
           /\ BlockSize * num_blocks - BlockSize < piece_length
  <1>1. BlockSize \in Nat \ {0} /\ Word \in Nat
    BY GeometryAssumption
  <1>2. (piece_length + BlockSize - 1) % Word = piece_length + BlockSize - 1
    <2>1. /\ piece_length + BlockSize - 1 \in 0 .. Word - 1
          /\ Word \in Nat \ {0}
      BY <1>1 DEF Countable
    <2> QED BY <2>1, SmallRemainder
  <1>3. num_blocks = (piece_length + BlockSize - 1) \div BlockSize
    BY <1>2 DEF num_blocks
  <1> HIDE DEF num_blocks
  <1> QED BY <1>1, <1>3, RoundedUp

\* A block that the loop asks for starts inside the piece.
LEMMA BlockInside ==
    ASSUME piece_length \in Nat, Countable, i \in Nat, i < num_blocks
    PROVE  /\ i * BlockSize \in 0 .. piece_length - 1
           /\ (i + 1) * BlockSize = i * BlockSize + BlockSize
           /\ Offset = i * BlockSize
           /\ BlockLength = Least(BlockSize, piece_length - i * BlockSize)
  <1> DEFINE x == i * BlockSize
  <1>1. /\ BlockSize \in Nat \ {0}
        /\ Word \in Nat \ {0}
        /\ piece_length < Word
    BY GeometryAssumption DEF Countable
  <1>2. x \in 0 .. piece_length - 1
    <2>1. /\ num_blocks \in Nat
          /\ BlockSize * num_blocks - BlockSize < piece_length
      BY BlocksCover
    <2>2. BlockSize * (i + 1) <= BlockSize * num_blocks
      BY <1>1, <2>1
    <2>3. BlockSize * (i + 1) = x + BlockSize /\ x \in Nat
      BY <1>1
    <2>4. BlockSize * num_blocks \in Nat
      BY <1>1, <2>1
    <2> HIDE DEF x
    <2> QED BY <1>1, <2>1, <2>2, <2>3, <2>4
  <1>3. (i + 1) * BlockSize = x + BlockSize
    BY <1>1
  <1> HIDE DEF x
  <1>4. x % Word = x
    BY <1>1, <1>2, SmallRemainder
  <1>5. (piece_length - x) % Word = piece_length - x
    <2>1. piece_length - x \in 0 .. Word - 1
      BY <1>1, <1>2
    <2> QED BY <1>1, <2>1, SmallRemainder
  <1>6. Offset = x
    BY <1>4 DEF Offset, x
  <1>7. BlockLength = Least(BlockSize, piece_length - x)
    BY <1>5, <1>6 DEF BlockLength
  <1> QED BY <1>2, <1>3, <1>6, <1>7 DEF x

LEMMA GeometryInit == Init => GeometryInv
  BY GeometryAssumption
  DEF Init, GeometryInv, Shape, LengthIsTrue, BufferIsFilled

LEMMA GeometryNext ==
    ASSUME GeometryInv, [Next]_geometryVars
    PROVE  GeometryInv'
  <1> USE DEF GeometryInv
  <1>1. ASSUME UNCHANGED geometry
        PROVE  Shape' /\ TrueLength' = TrueLength /\ Agrees' = Agrees
    BY <1>1 DEF geometry, Shape, TrueLength, Agrees
  <1>2. BlockSize \in Nat \ {0} /\ Word \in Nat
    BY GeometryAssumption
  <1>3. CASE ComputeLength
    <2>1. Shape' /\ TrueLength' = TrueLength /\ Agrees' = Agrees
      BY <1>1, <1>3 DEF ComputeLength
    <2>2. Agrees => piece_length' = TrueLength
      BY <1>3, LengthComputed
    <2>3. i' = 0 /\ copied' = {} /\ received' = 0 /\ pc' = "blocks"
      BY <1>3 DEF ComputeLength
    <2>4. piece_length' \in 0 .. Word - 1
      BY <1>3, LengthType
    <2>5. Least(i' * BlockSize, piece_length') = 0
      BY <1>2, <2>3, <2>4 DEF Least
    <2> QED
      BY <2>1, <2>2, <2>3, <2>4, <2>5
      DEF LengthIsTrue, BlocksAreBeginning, BufferIsFilled
  <1>4. CASE RequestBlock
    <2>1. Shape' /\ TrueLength' = TrueLength /\ Agrees' = Agrees
      BY <1>1, <1>4 DEF RequestBlock
    <2>2. i < num_blocks /\ pc = "blocks" /\ piece_length' = piece_length /\ pc' = pc
      BY <1>4 DEF RequestBlock
    <2>3. Countable => BlocksAreBeginning'
      <3> SUFFICES ASSUME Countable PROVE BlocksAreBeginning'
        OBVIOUS
      <3>1. /\ i * BlockSize \in 0 .. piece_length - 1
            /\ (i + 1) * BlockSize = i * BlockSize + BlockSize
            /\ Offset = i * BlockSize
            /\ BlockLength = Least(BlockSize, piece_length - i * BlockSize)
        BY <2>2, BlockInside
      <3> DEFINE x == i * BlockSize
      <3>2. copied = 0 .. x - 1 /\ received = x
        BY <1>2, <2>2, <3>1 DEF BlocksAreBeginning, Least
      <3>3. i' * BlockSize = x + BlockSize
        BY <1>4, <3>1 DEF RequestBlock
      <3>4. /\ copied' = copied \cup (x .. x + BlockLength - 1)
            /\ received' = received + BlockLength
        BY <1>4, <3>1 DEF RequestBlock
      <3> HIDE DEF x
      <3>5. Least(x + BlockSize, piece_length) = x + BlockLength
        BY <1>2, <3>1 DEF Least, x
      <3>6. /\ copied' = 0 .. x + BlockLength - 1
            /\ received' = x + BlockLength
        BY <1>2, <3>1, <3>2, <3>4 DEF Least, x
      <3>7. Least(i' * BlockSize, piece_length') = x + BlockLength
        BY <2>2, <3>3, <3>5
      <3>8. x \in Int /\ BlockLength \in Int
        BY <1>2, <3>1 DEF x, Least
      <3> QED BY <3>6, <3>7, <3>8 DEF BlocksAreBeginning, Least
    <2>4. Countable' = Countable
      BY <2>2 DEF Countable
    <2>5. i' \in Nat
      BY <1>4 DEF RequestBlock
    <2> QED BY <2>1, <2>2, <2>3, <2>4, <2>5 DEF LengthIsTrue, BufferIsFilled
  <1>5. CASE EndBlocks
    <2>1. Shape' /\ TrueLength' = TrueLength /\ Agrees' = Agrees
      BY <1>1, <1>5 DEF EndBlocks
    <2>2. /\ i >= num_blocks /\ pc = "blocks" /\ pc' = "hash"
          /\ UNCHANGED <<piece_length, i, copied, received>>
      BY <1>5 DEF EndBlocks
    <2>3. Countable => copied = 0 .. piece_length - 1 /\ received = piece_length
      <3> SUFFICES ASSUME Countable
                   PROVE  copied = 0 .. piece_length - 1 /\ received = piece_length
        OBVIOUS
      <3>1. num_blocks \in Nat /\ BlockSize * num_blocks >= piece_length
        BY BlocksCover
      <3>2. i * BlockSize \in Nat /\ i * BlockSize >= piece_length
        <4>1. BlockSize * i >= BlockSize * num_blocks
          BY <1>2, <2>2, <3>1
        <4>2. BlockSize * i = i * BlockSize /\ i * BlockSize \in Nat
          BY <1>2
        <4>3. BlockSize * num_blocks \in Nat
          BY <1>2, <3>1
        <4> QED BY <1>2, <3>1, <4>1, <4>2, <4>3
      <3>3. Least(i * BlockSize, piece_length) = piece_length
        BY <1>2, <3>2 DEF Least
      <3> QED BY <2>2, <3>3 DEF BlocksAreBeginning
    <2>4. Countable' = Countable
      BY <2>2 DEF Countable
    <2> QED BY <2>1, <2>2, <2>3, <2>4 DEF LengthIsTrue, BufferIsFilled
  <1>6. CASE UNCHANGED geometryVars
    <2>1. Shape' /\ TrueLength' = TrueLength /\ Agrees' = Agrees
      BY <1>1, <1>6 DEF geometryVars
    <2>2. Countable' = Countable
      BY <1>6 DEF geometryVars, Countable
    <2> QED
      BY <1>6, <2>1, <2>2
      DEF geometryVars, LengthIsTrue, BlocksAreBeginning, BufferIsFilled
  <1> QED BY <1>3, <1>4, <1>5, <1>6 DEF Next, Hashed

LEMMA GeometryHolds == Spec => []GeometryInv
  BY GeometryInit, GeometryNext, PTL DEF Spec

\* The length peer_worker computes is that of the piece, however far the
\* product of index and piece length wraps, for every torrent whose hashes
\* agree with its length.
THEOREM LengthsTrue == Spec => []LengthIsTrue
  BY GeometryHolds, PTL DEF GeometryInv

\* When download_piece hashes its buffer, the blocks have filled it exactly,
\* whatever length peer_worker computed, as long as num_blocks does not wrap.
THEOREM BuffersFilled == Spec => []BufferIsFilled
  BY GeometryHolds, PTL DEF GeometryInv

-----------------------------------------------------------------------------
(* Numbers and frames *)

\* ntohl undoes htonl.
LEMMA NtohlOfBigEndian ==
    ASSUME NEW n \in Nat, FourBytes(n)
    PROVE  /\ BigEndian(n) \in Seq(Byte)
           /\ Len(BigEndian(n)) = 4
           /\ Ntohl(BigEndian(n)) = n
  <1> DEFINE a == n \div 16777216
             b == n \div 65536
             c == n \div 256
  <1>1. /\ a \in Byte /\ b \in Nat /\ c \in Nat
        /\ b % 256 \in Byte /\ c % 256 \in Byte /\ n % 256 \in Byte
    BY DEF FourBytes, Byte
  <1>2. a % 256 = a
    BY <1>1 DEF Byte
  <1>3. n = 256 * c + (n % 256) /\ c = 256 * b + (c % 256)
        /\ b = 256 * a + (b % 256)
    OBVIOUS
  <1> HIDE DEF a, b, c
  <1>4. 16777216 * a + 65536 * (b % 256) + 256 * (c % 256) + (n % 256) = n
    BY <1>1, <1>3 DEF Byte
  <1>5. BigEndian(n) = <<a, b % 256, c % 256, n % 256>>
    BY <1>2 DEF BigEndian, a, b, c
  <1> QED BY <1>1, <1>4, <1>5 DEF Ntohl

\* A number below one of four bytes has four bytes.
LEMMA FewerBytes ==
    ASSUME NEW m \in Nat, FourBytes(m), NEW n \in 0 .. m
    PROVE  FourBytes(n)
  BY DEF FourBytes, Byte

\* Four bytes that are those of a number are read as the number.
LEMMA LengthRead ==
    ASSUME NEW n \in Nat, FourBytes(n), NEW s,
           \A k \in 1 .. 4 : s[k] = BigEndian(n)[k]
    PROVE  Ntohl(s) = n
  BY NtohlOfBigEndian DEF Ntohl

\* Where the elements of a concatenation come from.
LEMMA Joined ==
    ASSUME NEW s \in Seq(Byte), NEW t \in Seq(Byte)
    PROVE  /\ s \o t \in Seq(Byte)
           /\ Len(s \o t) = Len(s) + Len(t)
           /\ \A k \in 1 .. Len(s) : (s \o t)[k] = s[k]
           /\ \A k \in 1 .. Len(t) : (s \o t)[Len(s) + k] = t[k]
  <1>1. /\ s \o t \in Seq(Byte)
        /\ Len(s) \in Nat /\ Len(t) \in Nat
        /\ Len(s \o t) = Len(s) + Len(t)
        /\ \A k \in 1 .. Len(s) + Len(t) :
               (s \o t)[k] = IF k <= Len(s) THEN s[k] ELSE t[k - Len(s)]
    BY ConcatProperties
  <1>2. ASSUME NEW k \in 1 .. Len(t) PROVE (s \o t)[Len(s) + k] = t[k]
    <2>1. /\ Len(s) + k \in 1 .. Len(s) + Len(t)
          /\ ~(Len(s) + k <= Len(s)) /\ Len(s) + k - Len(s) = k
      BY <1>1
    <2> QED BY <1>1, <2>1
  <1> QED BY <1>1, <1>2

LEMMA FrameShape ==
    ASSUME NEW m \in Seq(Byte), FourBytes(Len(m))
    PROVE  /\ Frame(m) \in Seq(Byte)
           /\ Len(Frame(m)) = 4 + Len(m)
           /\ \A k \in 1 .. 4 : Frame(m)[k] = BigEndian(Len(m))[k]
           /\ \A k \in 1 .. Len(m) : Frame(m)[4 + k] = m[k]
  <1>1. /\ BigEndian(Len(m)) \in Seq(Byte)
        /\ Len(BigEndian(Len(m))) = 4
        /\ Len(m) \in Nat
    BY NtohlOfBigEndian
  <1> DEFINE h == BigEndian(Len(m))
             f == Frame(m)
  <1>2. f = h \o m
    BY DEF Frame
  <1>3. h \in Seq(Byte) /\ Len(h) = 4
    BY <1>1
  <1> HIDE DEF h, f
  <1>4. /\ f \in Seq(Byte)
        /\ Len(f) = Len(h) + Len(m)
        /\ \A k \in 1 .. Len(h) : f[k] = h[k]
        /\ \A k \in 1 .. Len(m) : f[Len(h) + k] = m[k]
    BY <1>2, <1>3, Joined
  <1> QED BY <1>3, <1>4 DEF h, f

\* The fields of an answer, for whatever block is current.
LEMMA AnswerShape ==
    ASSUME piece_index \in Nat, FourBytes(piece_index), Offset \in 0 .. Word - 1,
           BlockLength \in 0 .. BlockSize, piece_size \in Nat
    PROVE  /\ PieceBody \in Seq(Byte)
           /\ Len(PieceBody) = 9 + BlockLength
           /\ FourBytes(Len(PieceBody))
           /\ PieceBody[1] = 7
           /\ \A k \in 1 .. 4 : PieceBody[1 + k] = BigEndian(piece_index)[k]
           /\ \A k \in 1 .. 4 : PieceBody[5 + k] = BigEndian(Offset)[k]
           /\ \A k \in 1 .. BlockLength :
                  PieceBody[9 + k] =
                      FileByte(piece_index * piece_size + Offset + k - 1)
  <1> DEFINE x    == BigEndian(piece_index)
             y    == BigEndian(Offset)
             base == piece_index * piece_size + Offset
             n    == BlockLength
             d    == [k \in 1 .. n |-> FileByte(base + k - 1)]
             i7   == <<7>>
             ix   == i7 \o x
             xy   == ix \o y
             all  == xy \o d
  <1>1. Word \in Nat /\ BlockSize \in Nat /\ n \in Nat /\ n <= BlockSize
    BY GeometryAssumption
  <1>2. x \in Seq(Byte) /\ Len(x) = 4
    BY NtohlOfBigEndian
  <1>3. y \in Seq(Byte) /\ Len(y) = 4
    <2>1. Offset \in Nat /\ Word - 1 \in Nat
      BY <1>1
    <2>2. FourBytes(Offset)
      BY <2>1, FewerBytes, TransferAssumption
    <2> QED BY <2>1, <2>2, NtohlOfBigEndian
  <1>4. base \in Int
    <2>1. piece_index * piece_size \in Int
      OBVIOUS
    <2> QED BY <1>1, <2>1
  <1>5. d \in Seq(Byte) /\ Len(d) = n
    <2>1. \A k \in 1 .. n : FileByte(base + k - 1) \in Byte
      <3> HIDE DEF base, n
      <3> QED BY <1>1, <1>4 DEF FileByte, Byte
    <2> HIDE DEF base, n
    <2>2. d \in [1 .. n -> Byte]
      BY <2>1
    <2> QED BY <1>1, <2>2
  <1>6. PieceBody = all
    BY DEF PieceBody
  <1>7. i7 \in Seq(Byte) /\ Len(i7) = 1 /\ i7[1] = 7
    BY DEF Byte
  <1> HIDE DEF x, y, d, n, i7, ix, xy, all
  <1>8. /\ ix \in Seq(Byte) /\ Len(ix) = 5
        /\ ix[1] = 7
        /\ \A k \in 1 .. 4 : ix[1 + k] = x[k]
    <2>1. ix = i7 \o x
      BY DEF ix
    <2>2. /\ ix \in Seq(Byte)
          /\ Len(ix) = Len(i7) + Len(x)
          /\ \A k \in 1 .. Len(i7) : ix[k] = i7[k]
          /\ \A k \in 1 .. Len(x) : ix[Len(i7) + k] = x[k]
      BY <1>2, <1>7, <2>1, Joined
    <2> QED BY <1>2, <1>7, <2>2
  <1>9. /\ xy \in Seq(Byte) /\ Len(xy) = 9
        /\ \A k \in 1 .. 5 : xy[k] = ix[k]
        /\ \A k \in 1 .. 4 : xy[5 + k] = y[k]
    <2>1. xy = ix \o y
      BY DEF xy
    <2>2. /\ xy \in Seq(Byte)
          /\ Len(xy) = Len(ix) + Len(y)
          /\ \A k \in 1 .. Len(ix) : xy[k] = ix[k]
          /\ \A k \in 1 .. Len(y) : xy[Len(ix) + k] = y[k]
      BY <1>3, <1>8, <2>1, Joined
    <2> QED BY <1>3, <1>8, <2>2
  <1>10. /\ all \in Seq(Byte) /\ Len(all) = 9 + n
         /\ \A k \in 1 .. 9 : all[k] = xy[k]
         /\ \A k \in 1 .. n : all[9 + k] = d[k]
    <2>1. all = xy \o d
      BY DEF all
    <2>2. /\ all \in Seq(Byte)
          /\ Len(all) = Len(xy) + Len(d)
          /\ \A k \in 1 .. Len(xy) : all[k] = xy[k]
          /\ \A k \in 1 .. Len(d) : all[Len(xy) + k] = d[k]
      BY ZenonT(30), <1>5, <1>9, <2>1, Joined
    <2> QED BY <1>5, <1>9, <2>2
  <1>11. FourBytes(9 + n)
    <2>1. 9 + BlockSize \in Nat /\ 9 + n \in 0 .. 9 + BlockSize
      BY <1>1
    <2>2. FourBytes(9 + BlockSize)
      BY TransferAssumption
    <2> QED BY <2>1, <2>2, FewerBytes
  <1>12. \A k \in 1 .. n : d[k] = FileByte(base + k - 1)
    BY DEF d
  <1>13. /\ all[1] = 7
         /\ \A k \in 1 .. 4 : all[1 + k] = x[k]
         /\ \A k \in 1 .. 4 : all[5 + k] = y[k]
    <2>1. \A k \in 1 .. 4 : 1 + k \in 1 .. 5 /\ 1 + k \in 1 .. 9 /\ 5 + k \in 1 .. 9
      OBVIOUS
    <2> QED BY <1>8, <1>9, <1>10, <2>1
  <1> QED BY <1>6, <1>10, <1>11, <1>12, <1>13 DEF x, y, n, base

-----------------------------------------------------------------------------
(* Where messages begin *)

Message(m) == m \in Seq(Byte) /\ FourBytes(Len(m))

\* Bytes of q from place b on are those of the frame of m, as far as q goes.
FrameAt(q, b, m) ==
    \A k \in 1 .. 4 + Len(m) : b + k <= Len(q) => q[b + k] = Frame(m)[k]

\* A message begins at each place of B that is in q and after it at another:
\* the answer at place r, one of the messages of others at the rest.  Places
\* count from 0; those already read are negative.
Framed(q, B, r, answer, others) ==
    \A b \in B : 0 <= b /\ b < Len(q) =>
        \E m : /\ Message(m)
               /\ IF b = r THEN m = answer ELSE m \in others
               /\ FrameAt(q, b, m)
               /\ b + 4 + Len(m) \in B

\* The last message is whole: the next one will begin at the end of q.
Complete(q, B, r) == Len(q) \in B /\ (\A b \in B : b <= Len(q)) /\ r < Len(q)

\* The bytes after the first n.
LEMMA Rest ==
    ASSUME NEW q \in Seq(Byte), NEW n \in 0 .. Len(q)
    PROVE  /\ SubSeq(q, n + 1, Len(q)) \in Seq(Byte)
           /\ Len(SubSeq(q, n + 1, Len(q))) = Len(q) - n
           /\ \A k \in 1 .. Len(q) - n : SubSeq(q, n + 1, Len(q))[k] = q[n + k]
  <1>1. Len(q) \in Nat /\ n \in Nat
    OBVIOUS
  <1>2. \A k \in n + 1 .. Len(q) : q[k] \in Byte
    BY <1>1, ElementOfSeq
  <1>3. /\ SubSeq(q, n + 1, Len(q)) \in Seq(Byte)
        /\ Len(SubSeq(q, n + 1, Len(q))) =
               IF n + 1 <= Len(q) THEN Len(q) - (n + 1) + 1 ELSE 0
        /\ \A k \in 1 .. Len(q) - (n + 1) + 1 :
               SubSeq(q, n + 1, Len(q))[k] = q[n + 1 + k - 1]
    BY <1>1, <1>2, SubSeqProperties
  <1> QED BY <1>1, <1>3

LEMMA Beginning ==
    ASSUME NEW q \in Seq(Byte), NEW n \in 0 .. Len(q)
    PROVE  /\ SubSeq(q, 1, n) \in Seq(Byte)
           /\ Len(SubSeq(q, 1, n)) = n
           /\ \A k \in 1 .. n : SubSeq(q, 1, n)[k] = q[k]
  <1>1. Len(q) \in Nat /\ n \in Nat
    OBVIOUS
  <1>2. \A k \in 1 .. n : q[k] \in Byte
    BY <1>1, ElementOfSeq
  <1>3. /\ SubSeq(q, 1, n) \in Seq(Byte)
        /\ Len(SubSeq(q, 1, n)) = IF 1 <= n THEN n - 1 + 1 ELSE 0
        /\ \A k \in 1 .. n - 1 + 1 : SubSeq(q, 1, n)[k] = q[1 + k - 1]
    BY <1>1, <1>2, SubSeqProperties
  <1> QED BY <1>1, <1>3

\* Reading n bytes moves every place.
LEMMA FramedRest ==
    ASSUME NEW q \in Seq(Byte), NEW n \in 0 .. Len(q), NEW t \in Seq(Byte),
           Len(t) = Len(q) - n, \A k \in 1 .. Len(q) - n : t[k] = q[n + k],
           NEW B \in SUBSET Int, NEW r \in Int, NEW answer, NEW others,
           Framed(q, B, r, answer, others)
    PROVE  /\ {b - n : b \in B} \in SUBSET Int
           /\ Framed(t, {b - n : b \in B}, r - n, answer, others)
           /\ Complete(q, B, r) => Complete(t, {b - n : b \in B}, r - n)
  <1> DEFINE C == {b - n : b \in B}
  <1>1. Len(q) \in Nat /\ n \in Nat /\ Len(t) \in Nat
    OBVIOUS
  <1>2. ASSUME NEW c \in C, 0 <= c, c < Len(t)
        PROVE  \E m : /\ Message(m)
                      /\ IF c = r - n THEN m = answer ELSE m \in others
                      /\ FrameAt(t, c, m)
                      /\ c + 4 + Len(m) \in C
    <2>1. PICK b \in B : c = b - n
      OBVIOUS
    <2>2. 0 <= b /\ b < Len(q) /\ b \in Int
      BY <1>1, <1>2, <2>1
    <2>3. PICK m : /\ Message(m)
                   /\ IF b = r THEN m = answer ELSE m \in others
                   /\ FrameAt(q, b, m)
                   /\ b + 4 + Len(m) \in B
      BY <2>2 DEF Framed
    <2>4. Len(m) \in Nat
      BY <2>3 DEF Message
    <2>5. c + 4 + Len(m) \in C
      <3>1. c + 4 + Len(m) = (b + 4 + Len(m)) - n
        BY <1>1, <2>1, <2>2, <2>4
      <3> QED BY <2>3, <3>1
    <2>6. ASSUME NEW k \in 1 .. 4 + Len(m), c + k <= Len(t)
          PROVE  t[c + k] = Frame(m)[k]
      <3>1. c + k \in 1 .. Len(q) - n /\ n + (c + k) = b + k /\ b + k <= Len(q)
        BY <1>1, <1>2, <2>1, <2>2, <2>4, <2>6
      <3>2. q[b + k] = Frame(m)[k]
        BY <2>3, <3>1 DEF FrameAt
      <3> QED BY <3>1, <3>2
    <2>7. FrameAt(t, c, m)
      BY <2>6 DEF FrameAt
    <2>8. c = r - n <=> b = r
      BY <1>1, <2>1, <2>2
    <2> QED BY <2>3, <2>5, <2>7, <2>8
  <1>3. Complete(q, B, r) => Complete(t, C, r - n)
    <2>1. ASSUME NEW b \in B, b <= Len(q) PROVE b - n <= Len(t)
      BY <1>1, <2>1
    <2>2. Len(t) = Len(q) - n /\ (r < Len(q) => r - n < Len(t))
      BY <1>1
    <2>3. Len(q) \in B => Len(t) \in C
      BY <2>2
    <2>4. (\A b \in B : b <= Len(q)) => \A c \in C : c <= Len(t)
      BY <2>1
    <2> QED BY <2>2, <2>3, <2>4 DEF Complete
  <1>4. C \in SUBSET Int
    BY <1>1
  <1> QED BY <1>2, <1>3, <1>4 DEF Framed

\* Losing an end of the bytes moves no place.
LEMMA FramedBeginning ==
    ASSUME NEW q \in Seq(Byte), NEW n \in 0 .. Len(q), NEW t \in Seq(Byte),
           Len(t) = n, \A k \in 1 .. n : t[k] = q[k],
           NEW B \in SUBSET Int, NEW r \in Int, NEW answer, NEW others,
           Framed(q, B, r, answer, others)
    PROVE  Framed(t, B, r, answer, others)
  <1>1. Len(q) \in Nat /\ n \in Nat
    OBVIOUS
  <1> SUFFICES ASSUME NEW b \in B, 0 <= b, b < n
               PROVE  \E m : /\ Message(m)
                             /\ IF b = r THEN m = answer ELSE m \in others
                             /\ FrameAt(t, b, m)
                             /\ b + 4 + Len(m) \in B
    BY DEF Framed
  <1>2. PICK m : /\ Message(m)
                 /\ IF b = r THEN m = answer ELSE m \in others
                 /\ FrameAt(q, b, m)
                 /\ b + 4 + Len(m) \in B
    BY <1>1 DEF Framed
  <1>3. FrameAt(t, b, m)
    <2>1. ASSUME NEW k \in 1 .. 4 + Len(m), b + k <= Len(t)
          PROVE  t[b + k] = Frame(m)[k]
      <3>0. b \in Int
        OBVIOUS
      <3>1. Len(m) \in Nat
        BY <1>2 DEF Message
      <3>2. b + k \in 1 .. n /\ b + k <= Len(q)
        BY <1>1, <2>1, <3>0, <3>1
      <3>3. q[b + k] = Frame(m)[k]
        BY <1>2, <3>2 DEF FrameAt
      <3> QED BY <3>2, <3>3
    <2> QED BY <2>1 DEF FrameAt
  <1> QED BY <1>2, <1>3

\* A message is sent after the last: the answer, if none is under way, or
\* another.
LEMMA FramedMore ==
    ASSUME NEW q \in Seq(Byte), NEW B \in SUBSET Int, NEW r \in Int,
           NEW answer, NEW others, NEW m, Message(m),
           Framed(q, B, r, answer, others), Complete(q, B, r),
           NEW s \in Int, \/ m = answer /\ r < 0 /\ s = Len(q)
                          \/ m \in others /\ s = r
    PROVE  LET t == q \o Frame(m)
               C == B \cup {Len(q) + 4 + Len(m)}
           IN /\ C \in SUBSET Int
              /\ Framed(t, C, s, answer, others)
              /\ Complete(t, C, s)
  <1> DEFINE f == Frame(m)
             t == q \o f
             e == Len(q) + 4 + Len(m)
             C == B \cup {e}
  <1>1. Len(q) \in Nat /\ Len(m) \in Nat
    BY DEF Message
  <1>2. f \in Seq(Byte) /\ Len(f) = 4 + Len(m)
    BY FrameShape DEF Message
  <1> HIDE DEF f
  <1>3. /\ t \in Seq(Byte)
        /\ Len(t) = Len(q) + Len(f)
        /\ \A k \in 1 .. Len(q) : t[k] = q[k]
        /\ \A k \in 1 .. Len(f) : t[Len(q) + k] = f[k]
    BY <1>2, Joined
  <1> HIDE DEF t
  <1>4. Len(t) = e
    BY <1>1, <1>2, <1>3
  <1>5. ASSUME NEW b \in C, 0 <= b, b < Len(t)
        PROVE  \E n : /\ Message(n)
                      /\ IF b = s THEN n = answer ELSE n \in others
                      /\ FrameAt(t, b, n)
                      /\ b + 4 + Len(n) \in C
    <2>1. b \in B /\ b <= Len(q)
      BY <1>4, <1>5 DEF Complete
    <2>2. CASE b = Len(q)
      <3>1. IF b = s THEN m = answer ELSE m \in others
        BY <1>1, <2>2 DEF Complete
      <3>2. FrameAt(t, b, m)
        BY <1>2, <1>3, <2>2 DEF FrameAt, f
      <3> QED BY <2>2, <3>1, <3>2
    <2>3. CASE b # Len(q)
      <3>1. b < Len(q) /\ b \in Int
        BY <1>1, <2>1, <2>3
      <3>2. PICK n : /\ Message(n)
                     /\ IF b = r THEN n = answer ELSE n \in others
                     /\ FrameAt(q, b, n)
                     /\ b + 4 + Len(n) \in B
        BY <1>5, <2>1, <3>1 DEF Framed
      <3>3. IF b = s THEN n = answer ELSE n \in others
        BY <1>1, <1>5, <3>1, <3>2
      <3>4. ASSUME NEW k \in 1 .. 4 + Len(n)
            PROVE  t[b + k] = Frame(n)[k]
        <4>1. Len(n) \in Nat /\ b + 4 + Len(n) <= Len(q)
          BY <3>2 DEF Message, Complete
        <4>2. b + k \in 1 .. Len(q) /\ b + k <= Len(q)
          BY <1>1, <1>5, <3>1, <4>1
        <4>3. q[b + k] = Frame(n)[k]
          BY <3>2, <4>2 DEF FrameAt
        <4> QED BY <1>3, <4>2, <4>3
      <3>5. FrameAt(t, b, n)
        BY <3>4 DEF FrameAt
      <3> QED BY <3>2, <3>3, <3>5
    <2> QED BY <2>2, <2>3
  <1>6. Complete(t, C, s)
    <2>1. ASSUME NEW b \in C PROVE b <= Len(t)
      BY <1>1, <1>4, <2>1 DEF Complete
    <2>2. s < Len(t)
      BY <1>1, <1>4 DEF Complete
    <2> QED BY <1>4, <2>1, <2>2 DEF Complete
  <1>7. C \in SUBSET Int
    <2>1. e \in Int
      BY <1>1
    <2> HIDE DEF e
    <2> QED BY <2>1
  <1>8. Framed(t, C, s, answer, others)
    BY <1>5 DEF Framed
  <1> QED BY <1>3, <1>6, <1>7, <1>8 DEF t, f

\* More that may be sent, or another answer while none is under way, changes
\* nothing.
LEMMA FramedWider ==
    ASSUME NEW q, NEW B \in SUBSET Int, NEW r \in Int, NEW answer, NEW others,
           Framed(q, B, r, answer, others), NEW a, NEW o,
           others \subseteq o, a = answer \/ r < 0
    PROVE  Framed(q, B, r, a, o)
  <1>1. ASSUME NEW b \in B, 0 <= b, NEW m,
               IF b = r THEN m = answer ELSE m \in others
        PROVE  IF b = r THEN m = a ELSE m \in o
    <2>1. b \in Int
      OBVIOUS
    <2> QED BY <1>1, <2>1
  <1> SUFFICES ASSUME NEW b \in B, 0 <= b, b < Len(q)
               PROVE  \E m : /\ Message(m)
                             /\ IF b = r THEN m = a ELSE m \in o
                             /\ FrameAt(q, b, m)
                             /\ b + 4 + Len(m) \in B
    BY DEF Framed
  <1>2. PICK m : /\ Message(m)
                 /\ IF b = r THEN m = answer ELSE m \in others
                 /\ FrameAt(q, b, m)
                 /\ b + 4 + Len(m) \in B
    BY DEF Framed
  <1>3. IF b = r THEN m = a ELSE m \in o
    BY <1>1, <1>2
  <1> QED BY <1>2, <1>3

-----------------------------------------------------------------------------
(* The invariant *)

Said == {said[k] : k \in DOMAIN said}

StreamType ==
    /\ wire \in Seq(Byte) /\ buffer \in Seq(Byte)
    /\ said \in Seq(Unsolicited)
    /\ owed \in BOOLEAN /\ connected \in BOOLEAN
    /\ owed => connected
    /\ piece_length \in Int
    /\ FourBytes(piece_index)

\* The unread bytes, with the answer at r if it is among them.
Aligned(B, r) ==
    /\ Framed(wire, B, r, PieceBody, Said)
    /\ connected => Complete(wire, B, r)
    /\ owed => r < 0

\* The message that is being read or has been read: what is in the buffer is its
\* beginning, and its rest comes next.
Current(m, B, r) ==
    /\ Message(m)
    /\ (m = PieceBody /\ r < 0 /\ ~owed) \/ m \in Said
    /\ expected = Len(m) /\ Len(m) > 0
    /\ IF at = "body" THEN Len(buffer) < Len(m) ELSE Len(buffer) = Len(m)
    /\ \A k \in 1 .. Len(buffer) : buffer[k] = m[k]
    /\ \A k \in 1 .. Len(m) - Len(buffer) :
           k <= Len(wire) => wire[k] = m[Len(buffer) + k]
    /\ Len(m) - Len(buffer) \in B

\* Where the client stands in the stream.
Standing(B, r) ==
    /\ at = "handshake" => 68 \in B /\ r < 0 /\ ~owed
    /\ at = "idle" => 0 \in B /\ r < 0 /\ ~owed
    /\ at = "length" => 0 \in B
    /\ at \in {"body", "reply"} => \E m : Current(m, B, r)

InStream == at \notin {"closed", "failed"} =>
    \E B \in SUBSET Int, r \in Int : Aligned(B, r) /\ Standing(B, r)

\* The bytes copied so far are those of the file.
Assembled ==
    pc # "length" =>
        /\ piece_data = [k \in 0 .. piece_length - 1 |-> piece_data[k]]
        /\ \A k \in copied \cap DOMAIN piece_data :
               piece_data[k] = FileByte(piece_index * piece_size + k)

\* The hashes agree with the length, and the blocks of a piece can be counted.
WellFormed == Agrees /\ piece_size + BlockSize <= Word

StreamInv == /\ GeometryInv
             /\ WellFormed
             /\ StreamType
             /\ InStream
             /\ Assembled
             /\ RejectsOnlyOthers

LEMMA SameAnswer ==
    ASSUME UNCHANGED <<geometry, piece_length, i>>
    PROVE  PieceBody' = PieceBody
  <1>1. Offset' = Offset
    BY DEF Offset
  <1>2. BlockLength' = BlockLength
    BY <1>1 DEF BlockLength
  <1> QED BY <1>1, <1>2 DEF PieceBody, geometry

LEMMA AnswerTypes ==
    ASSUME GeometryInv, StreamType
    PROVE  /\ piece_index \in Nat /\ FourBytes(piece_index)
           /\ Offset \in 0 .. Word - 1 /\ FourBytes(Offset)
           /\ BlockLength \in 0 .. BlockSize
           /\ piece_size \in Nat
  <1>1. BlockSize \in Nat \ {0} /\ Word \in Nat \ {0} /\ MaxPiece \in Nat
    BY GeometryAssumption
  <1>2. /\ i * BlockSize \in Int
        /\ piece_index \in Nat /\ piece_size \in Nat
    BY <1>1 DEF GeometryInv, Shape
  <1>3. Offset \in 0 .. Word - 1
    BY <1>1, <1>2, Remainder DEF Offset
  <1>4. FourBytes(Offset)
    <2>1. Word - 1 \in Nat /\ FourBytes(Word - 1)
      BY <1>1, TransferAssumption
    <2> QED BY <1>3, <2>1, FewerBytes
  <1>5. BlockLength \in 0 .. BlockSize
    <2> DEFINE x == piece_length - Offset
    <2>1. x \in Int
      BY <1>1, <1>3 DEF StreamType
    <2> HIDE DEF x
    <2>2. x % Word \in 0 .. Word - 1
      BY <1>1, <2>1, Remainder
    <2>3. BlockLength = Least(BlockSize, x % Word)
      BY DEF BlockLength, x
    <2> QED BY <1>1, <2>2, <2>3 DEF Least
  <1> QED BY <1>2, <1>3, <1>4, <1>5 DEF StreamType

LEMMA AnswerIsMessage ==
    ASSUME GeometryInv, StreamType
    PROVE  Message(PieceBody)
  BY AnswerTypes, AnswerShape DEF Message

LEMMA OthersAreMessages ==
    ASSUME NEW m \in Unsolicited
    PROVE  Message(m) /\ (m # <<>> => m[1] # 7)
  BY TransferAssumption DEF Message

\* What was said is a message that need not be asked for.
LEMMA SaidUnsolicited ==
    ASSUME StreamType
    PROVE  Said \subseteq Unsolicited
  BY ElementOfSeq DEF StreamType, Said

-----------------------------------------------------------------------------
(* What the peer does *)

\* The client is where it was, and r may be another place only if nothing
\* awaited is under way.
LEMMA StandsStill ==
    ASSUME UNCHANGED <<geometryVars, at, expected, buffer>>,
           NEW B \in SUBSET Int, NEW r \in Int, Standing(B, r),
           NEW C \in SUBSET Int, B \subseteq C, NEW s \in Int,
           (r < 0 /\ ~owed) => (s < 0 /\ ~owed'),
           Said \subseteq Said',
           StreamType, StreamType',
           \A b \in B, k \in 1 .. Len(wire') :
               k <= b => k <= Len(wire) /\ wire'[k] = wire[k]
    PROVE  Standing(C, s)'
  <1>1. CASE at \notin {"body", "reply"}
    BY <1>1 DEF Standing
  <1>2. CASE at \in {"body", "reply"}
    <2>1. PICK m : Current(m, B, r)
      BY <1>2 DEF Standing
    <2>2. PieceBody' = PieceBody
      BY SameAnswer DEF geometryVars
    <2>3. (m = PieceBody' /\ s < 0 /\ ~owed') \/ m \in Said'
      BY <2>1, <2>2 DEF Current
    <2>4. /\ Len(m) \in Nat /\ Len(buffer) \in Nat
          /\ Len(wire) \in Nat /\ Len(wire') \in Nat
      BY <2>1 DEF Current, Message, StreamType
    <2>5. ASSUME NEW k \in 1 .. Len(m) - Len(buffer), k <= Len(wire')
          PROVE  wire'[k] = m[Len(buffer) + k]
      <3>1. Len(m) - Len(buffer) \in B
        BY <2>1 DEF Current
      <3>2. k \in 1 .. Len(wire') /\ k <= Len(m) - Len(buffer)
        BY <2>4, <2>5
      <3>3. k <= Len(wire) /\ wire'[k] = wire[k]
        BY <3>1, <3>2
      <3> QED BY <2>1, <3>3 DEF Current
    <2>6. Current(m, C, s)'
      BY <2>1, <2>3, <2>5 DEF Current
    <2> QED BY <1>2, <2>6 DEF Standing
  <1> QED BY <1>1, <1>2

\* A message goes out: the answer to what is owed, or another.
LEMMA SentInStream ==
    ASSUME GeometryInv, StreamType, StreamType', InStream, connected,
           UNCHANGED <<geometryVars, at, expected, buffer, connected>>,
           NEW m, Message(m), wire' = wire \o Frame(m),
           Said \subseteq Said',
           \/ owed /\ ~owed' /\ m = PieceBody
           \/ owed' = owed /\ m \in Said'
    PROVE  InStream'
  <1> SUFFICES ASSUME at \notin {"closed", "failed"}
               PROVE  \E C \in SUBSET Int, s \in Int : Aligned(C, s)' /\ Standing(C, s)'
    BY DEF InStream
  <1>1. PICK B \in SUBSET Int, r \in Int : Aligned(B, r) /\ Standing(B, r)
    BY DEF InStream
  <1>2. PieceBody' = PieceBody
    BY SameAnswer DEF geometryVars
  <1>3. wire \in Seq(Byte) /\ Len(wire) \in Nat /\ Len(m) \in Nat
    BY DEF StreamType, Message
  <1>4. Framed(wire, B, r, PieceBody, Said')
    BY <1>1, FramedWider DEF Aligned
  <1>5. Complete(wire, B, r)
    BY <1>1 DEF Aligned
  <1>6. PICK s \in Int : /\ \/ m = PieceBody /\ r < 0 /\ s = Len(wire)
                            \/ m \in Said' /\ s = r
                         /\ (r < 0 /\ ~owed) => (s < 0 /\ ~owed')
                         /\ owed' => s < 0
    <2>1. CASE owed /\ ~owed' /\ m = PieceBody
      BY <1>1, <1>3, <2>1 DEF Aligned
    <2>2. CASE owed' = owed /\ m \in Said'
      BY <1>1, <2>2 DEF Aligned
    <2> QED BY <2>1, <2>2
  <1>7. PICK C \in SUBSET Int : /\ B \subseteq C
                                /\ Framed(wire', C, s, PieceBody, Said')
                                /\ Complete(wire', C, s)
    <2> DEFINE D == B \cup {Len(wire) + 4 + Len(m)}
    <2>1. /\ D \in SUBSET Int
          /\ Framed(wire \o Frame(m), D, s, PieceBody, Said')
          /\ Complete(wire \o Frame(m), D, s)
      BY <1>3, <1>4, <1>5, <1>6, FramedMore
    <2> HIDE DEF D
    <2>2. B \subseteq D
      BY DEF D
    <2> QED BY <2>1, <2>2
  <1>8. ASSUME NEW b \in B, NEW k \in 1 .. Len(wire'), k <= b
        PROVE  k <= Len(wire) /\ wire'[k] = wire[k]
    <2>1. b \in Int /\ b <= Len(wire)
      BY <1>5 DEF Complete
    <2>2. k \in 1 .. Len(wire)
      BY <1>3, <1>8, <2>1
    <2>3. Frame(m) \in Seq(Byte)
      BY FrameShape DEF Message
    <2>4. (wire \o Frame(m))[k] = wire[k]
      BY <1>3, <2>2, <2>3, Joined
    <2> QED BY <1>3, <2>2, <2>4
  <1>9. Aligned(C, s)'
    BY <1>2, <1>6, <1>7 DEF Aligned
  <1>10. Standing(C, s)'
    BY <1>1, <1>6, <1>7, <1>8, StandsStill
  <1> QED BY <1>9, <1>10

LEMMA SaidMore ==
    ASSUME StreamType, NEW m \in Unsolicited, said' = Append(said, m)
    PROVE  /\ said' \in Seq(Unsolicited)
           /\ Said \subseteq Said'
           /\ m \in Said'
           /\ \A k \in DOMAIN said : k \in DOMAIN said' /\ said'[k] = said[k]
  <1>1. /\ said' \in Seq(Unsolicited)
        /\ Len(said') = Len(said) + 1 /\ Len(said) \in Nat
        /\ \A k \in 1 .. Len(said) : said'[k] = said[k]
        /\ said'[Len(said) + 1] = m
    BY AppendProperties DEF StreamType
  <1>2. DOMAIN said = 1 .. Len(said) /\ DOMAIN said' = 1 .. Len(said')
    BY <1>1 DEF StreamType
  <1>3. \A k \in DOMAIN said : k \in DOMAIN said' /\ said'[k] = said[k]
    BY <1>1, <1>2
  <1>4. Len(said) + 1 \in DOMAIN said'
    BY <1>1, <1>2
  <1>5. m \in Said'
    BY <1>1, <1>4 DEF Said
  <1> QED BY <1>1, <1>3, <1>5 DEF Said

LEMMA PeerInStream ==
    ASSUME GeometryInv, StreamType, InStream, Answer \/ Interject \/ HangUp
    PROVE  StreamType' /\ InStream'
  <1> USE DEF ClientUnchanged, geometryVars
  <1>1. wire \in Seq(Byte) /\ Len(wire) \in Nat
    BY DEF StreamType
  <1>2. ASSUME NEW m, Message(m) PROVE wire \o Frame(m) \in Seq(Byte)
    <2>1. Frame(m) \in Seq(Byte)
      BY <1>2, FrameShape DEF Message
    <2> QED BY <1>1, <2>1, Joined
  <1>3. CASE Answer
    <2>1. Message(PieceBody)
      BY AnswerIsMessage
    <2>2. /\ connected /\ owed /\ ~owed' /\ Said' = Said
          /\ UNCHANGED <<geometryVars, at, expected, buffer, connected>>
          /\ wire' = wire \o Frame(PieceBody)
      BY <1>3 DEF Answer, StreamType, Said
    <2>3. StreamType'
      BY <1>2, <1>3, <2>1 DEF Answer, StreamType, geometry
    <2>4. StreamType' /\ Said \subseteq Said'
      BY <2>2, <2>3
    <2>5. \E m : /\ Message(m) /\ wire' = wire \o Frame(m)
                 /\ \/ owed /\ ~owed' /\ m = PieceBody
                    \/ owed' = owed /\ m \in Said'
      BY <2>1, <2>2
    <2> HIDE DEF ClientUnchanged, geometryVars
    <2> QED BY <2>2, <2>4, <2>5, SentInStream
  <1>4. CASE Interject
    <2>1. PICK m \in Unsolicited : /\ wire' = wire \o Frame(m)
                                   /\ said' = Append(said, m)
      BY <1>4 DEF Interject
    <2>2. Message(m)
      BY OthersAreMessages
    <2>3. said' \in Seq(Unsolicited) /\ Said \subseteq Said' /\ m \in Said'
      BY <2>1, SaidMore
    <2>4. /\ connected /\ owed' = owed
          /\ UNCHANGED <<geometryVars, at, expected, buffer, connected>>
      BY <1>4 DEF Interject
    <2>5. StreamType'
      BY <1>2, <2>1, <2>2, <2>3, <2>4 DEF StreamType, geometry
    <2> HIDE DEF ClientUnchanged, geometryVars
    <2> QED BY <2>1, <2>2, <2>3, <2>4, <2>5, SentInStream
  <1>5. CASE HangUp
    <2>1. PICK n \in 0 .. Len(wire) : wire' = SubSeq(wire, 1, n)
      BY <1>5 DEF HangUp
    <2>2. /\ wire' \in Seq(Byte) /\ Len(wire') = n
          /\ \A k \in 1 .. n : wire'[k] = wire[k]
      BY <1>1, <2>1, Beginning
    <2>3. /\ ~connected' /\ ~owed' /\ Said' = Said
          /\ UNCHANGED <<geometryVars, at, expected, buffer>>
      BY <1>5 DEF HangUp, Said
    <2>4. StreamType'
      BY <1>5, <2>2 DEF HangUp, StreamType, geometry
    <2>5. ASSUME at \notin {"closed", "failed"} PROVE InStream'
      <3>1. PICK B \in SUBSET Int, r \in Int : Aligned(B, r) /\ Standing(B, r)
        BY <2>5 DEF InStream
      <3>2. Framed(wire', B, r, PieceBody, Said)
        BY <1>1, <2>2, <3>1, FramedBeginning DEF Aligned
      <3>3. PieceBody' = PieceBody
        BY <2>3, SameAnswer
      <3>4. Aligned(B, r)'
        BY <2>3, <3>2, <3>3 DEF Aligned
      <3>5. \A k \in 1 .. Len(wire') : k <= Len(wire) /\ wire'[k] = wire[k]
        BY <1>1, <2>1, <2>2
      <3>6. Standing(B, r)'
        <4> HIDE DEF ClientUnchanged, geometryVars
        <4> QED BY <2>3, <2>4, <3>1, <3>5, StandsStill
      <3> QED BY <3>4, <3>6 DEF InStream
    <2>6. at' = at
      BY <2>3
    <2> QED BY <2>4, <2>5, <2>6 DEF InStream
  <1> QED BY <1>3, <1>4, <1>5

-----------------------------------------------------------------------------
(* What the client reads *)

LEMMA ReadAligned ==
    ASSUME StreamType, UNCHANGED <<geometryVars, peerVars>>,
           NEW n \in 0 .. Len(wire), wire' = Unread(n),
           NEW B \in SUBSET Int, NEW r \in Int, Aligned(B, r)
    PROVE  /\ wire' \in Seq(Byte)
           /\ Len(wire') = Len(wire) - n
           /\ \A k \in 1 .. Len(wire) - n : wire'[k] = wire[n + k]
           /\ \E C \in SUBSET Int : /\ Aligned(C, r - n)'
                                    /\ \A b \in B : b - n \in C
  <1>1. /\ wire' \in Seq(Byte)
        /\ Len(wire') = Len(wire) - n
        /\ \A k \in 1 .. Len(wire) - n : wire'[k] = wire[n + k]
    BY Rest DEF StreamType, Unread
  <1>2. PieceBody' = PieceBody /\ Said' = Said
    BY SameAnswer DEF geometryVars, peerVars, Said
  <1>3. PICK C : C = {b - n : b \in B}
    OBVIOUS
  <1>4. /\ C \in SUBSET Int
        /\ Framed(wire', C, r - n, PieceBody, Said)
        /\ Complete(wire, B, r) => Complete(wire', C, r - n)
    <2>1. Framed(wire, B, r, PieceBody, Said)
      BY DEF Aligned
    <2> QED BY <1>1, <1>3, <2>1, FramedRest DEF StreamType
  <1>5. n \in Nat
    OBVIOUS
  <1>6. Aligned(C, r - n)'
    BY <1>2, <1>4, <1>5 DEF Aligned, peerVars
  <1> QED BY <1>1, <1>3, <1>4, <1>6

\* The first message of the unread bytes.
LEMMA FirstMessage ==
    ASSUME StreamType, NEW B \in SUBSET Int, NEW r \in Int, Aligned(B, r),
           0 \in B, Len(wire) >= 4
    PROVE  \E m : /\ Message(m)
                  /\ IF r = 0 THEN m = PieceBody ELSE m \in Said
                  /\ Ntohl(SubSeq(wire, 1, 4)) = Len(m)
                  /\ \A k \in 1 .. Len(m) :
                         4 + k <= Len(wire) => wire[4 + k] = m[k]
                  /\ 4 + Len(m) \in B
  <1>1. Len(wire) \in Nat /\ wire \in Seq(Byte)
    BY DEF StreamType
  <1>2. PICK m : /\ Message(m)
                 /\ IF 0 = r THEN m = PieceBody ELSE m \in Said
                 /\ FrameAt(wire, 0, m)
                 /\ 0 + 4 + Len(m) \in B
    BY <1>1 DEF Aligned, Framed
  <1>3. /\ Len(m) \in Nat /\ FourBytes(Len(m))
        /\ \A k \in 1 .. 4 : Frame(m)[k] = BigEndian(Len(m))[k]
        /\ \A k \in 1 .. Len(m) : Frame(m)[4 + k] = m[k]
    BY <1>2, FrameShape DEF Message
  <1>4. ASSUME NEW k \in 1 .. 4 + Len(m), k <= Len(wire)
        PROVE  wire[k] = Frame(m)[k]
    <2>1. 0 + k = k
      OBVIOUS
    <2> QED BY <1>2, <1>4, <2>1 DEF FrameAt
  <1>5. Ntohl(SubSeq(wire, 1, 4)) = Len(m)
    <2>1. \A k \in 1 .. 4 : SubSeq(wire, 1, 4)[k] = wire[k]
      BY <1>1, Beginning
    <2>2. \A k \in 1 .. 4 : wire[k] = Frame(m)[k]
      BY <1>1, <1>3, <1>4
    <2>3. \A k \in 1 .. 4 : SubSeq(wire, 1, 4)[k] = BigEndian(Len(m))[k]
      BY <1>3, <2>1, <2>2
    <2> QED BY <1>3, <2>3, LengthRead
  <1>6. ASSUME NEW k \in 1 .. Len(m), 4 + k <= Len(wire)
        PROVE  wire[4 + k] = m[k]
    <2>1. 4 + k \in 1 .. 4 + Len(m)
      BY <1>3
    <2> QED BY <1>3, <1>4, <1>6, <2>1
  <1>7. 4 + Len(m) \in B
    <2>1. 0 + 4 + Len(m) = 4 + Len(m)
      BY <1>3
    <2> QED BY <1>2, <2>1
  <1> QED BY <1>2, <1>5, <1>6, <1>7

LEMMA HandshakeInStream ==
    ASSUME StreamType, InStream, Handshake
    PROVE  StreamType' /\ InStream'
  <1> USE DEF ClientOnly
  <1>1. CASE CloseSocket
    <2>1. at' = "closed" /\ wire' \in Seq(Byte)
      BY <1>1 DEF CloseSocket
    <2> QED
      BY <1>1, <2>1
      DEF Handshake, CloseSocket, InStream, StreamType, geometryVars, geometry,
          peerVars
  <1>2. CASE ~CloseSocket
    <2>1. /\ at = "handshake" /\ at' = "idle"
          /\ wire' = Unread(68) /\ 68 <= Len(wire)
          /\ UNCHANGED <<expected, buffer, geometryVars, peerVars>>
      BY <1>2 DEF Handshake, Recv, Least, StreamType
    <2>2. PICK B \in SUBSET Int, r \in Int : Aligned(B, r) /\ Standing(B, r)
      BY <2>1 DEF InStream
    <2>3. 68 \in 0 .. Len(wire) /\ 68 \in B /\ r < 0 /\ ~owed
      BY <2>1, <2>2 DEF Standing, StreamType
    <2>4. /\ wire' \in Seq(Byte)
          /\ \E C \in SUBSET Int : /\ Aligned(C, r - 68)'
                                   /\ \A b \in B : b - 68 \in C
      BY <2>1, <2>2, <2>3, ReadAligned
    <2>5. PICK C \in SUBSET Int : /\ Aligned(C, r - 68)'
                                  /\ \A b \in B : b - 68 \in C
      BY <2>4
    <2>6. 0 \in C /\ r - 68 < 0 /\ r - 68 \in Int
      <3>1. 68 - 68 \in C
        BY <2>3, <2>5
      <3> QED BY <2>3, <3>1
    <2>7. Standing(C, r - 68)'
      BY <2>1, <2>3, <2>6 DEF Standing, peerVars
    <2>8. StreamType'
      BY <2>1, <2>4 DEF StreamType, peerVars, geometryVars, geometry
    <2> QED BY <2>5, <2>6, <2>7, <2>8 DEF InStream
  <1> QED BY <1>1, <1>2

LEMMA ReadLengthInStream ==
    ASSUME StreamType, InStream, ReadLength
    PROVE  StreamType' /\ InStream'
  <1> USE DEF ClientOnly
  <1>1. CASE CloseSocket
    <2>1. at' = "closed" /\ wire' \in Seq(Byte)
      BY <1>1 DEF CloseSocket
    <2> QED
      BY <1>1, <2>1
      DEF ReadLength, CloseSocket, InStream, StreamType, geometryVars, geometry,
          peerVars
  <1>2. CASE ~CloseSocket
    <2>1. /\ at = "length" /\ wire' = Unread(4) /\ 4 <= Len(wire)
          /\ expected' = Ntohl(SubSeq(wire, 1, 4)) /\ buffer' = <<>>
          /\ at' = IF expected' = 0 THEN "length" ELSE "body"
          /\ UNCHANGED <<geometryVars, peerVars>>
      BY <1>2 DEF ReadLength, Recv, Least, StreamType
    <2>2. PICK B \in SUBSET Int, r \in Int : Aligned(B, r) /\ Standing(B, r)
      BY <2>1 DEF InStream
    <2>3. Len(wire) \in Nat /\ 4 \in 0 .. Len(wire) /\ 0 \in B
      BY <2>1, <2>2 DEF Standing, StreamType
    <2>4. PICK m : /\ Message(m)
                   /\ IF r = 0 THEN m = PieceBody ELSE m \in Said
                   /\ expected' = Len(m)
                   /\ \A k \in 1 .. Len(m) :
                          4 + k <= Len(wire) => wire[4 + k] = m[k]
                   /\ 4 + Len(m) \in B
      BY <2>1, <2>2, <2>3, FirstMessage
    <2>5. /\ wire' \in Seq(Byte)
          /\ Len(wire') = Len(wire) - 4
          /\ \A k \in 1 .. Len(wire) - 4 : wire'[k] = wire[4 + k]
          /\ \E C \in SUBSET Int : /\ Aligned(C, r - 4)'
                                   /\ \A b \in B : b - 4 \in C
      BY <2>1, <2>2, <2>3, ReadAligned
    <2>6. PICK C \in SUBSET Int : /\ Aligned(C, r - 4)'
                                  /\ \A b \in B : b - 4 \in C
      BY <2>5
    <2>7. StreamType'
      BY <2>1, <2>5 DEF StreamType, peerVars, geometryVars, geometry
    <2>8. Len(m) \in Nat /\ Len(m) \in C /\ r - 4 \in Int
      <3>1. 4 + Len(m) - 4 \in C /\ Len(m) \in Nat
        BY <2>4, <2>6 DEF Message
      <3> QED BY <3>1
    <2>9. CASE Len(m) = 0
      BY <2>1, <2>4, <2>6, <2>7, <2>8, <2>9 DEF InStream, Standing
    <2>10. CASE Len(m) # 0
      <3>1. (m = PieceBody' /\ r - 4 < 0 /\ ~owed') \/ m \in Said'
        <4>1. PieceBody' = PieceBody /\ Said' = Said /\ owed' = owed
          BY <2>1, SameAnswer DEF geometryVars, peerVars, Said
        <4>2. r = 0 => ~owed /\ r - 4 < 0
          BY <2>2 DEF Aligned
        <4> QED BY <2>4, <4>1, <4>2
      <3>2. Len(buffer') = 0
        BY <2>1
      <3>3. ASSUME NEW k \in 1 .. Len(m) - Len(buffer'), k <= Len(wire')
            PROVE  wire'[k] = m[Len(buffer') + k]
        <4>1. k \in 1 .. Len(m) /\ k \in 1 .. Len(wire) - 4 /\ 4 + k <= Len(wire)
          BY <2>3, <2>5, <2>8, <3>2, <3>3
        <4>2. Len(buffer') + k = k
          BY <3>2
        <4> QED BY <2>4, <2>5, <4>1, <4>2
      <3>4. Len(m) - Len(buffer') = Len(m)
        BY <2>8, <3>2
      <3>5. at' = "body"
        BY <2>1, <2>4, <2>10
      <3>6. Current(m, C, r - 4)'
        BY <2>4, <2>8, <2>10, <3>1, <3>2, <3>3, <3>4, <3>5 DEF Current
      <3> QED BY <2>6, <2>7, <2>8, <3>5, <3>6 DEF InStream, Standing
    <2> QED BY <2>9, <2>10
  <1> QED BY <1>1, <1>2

LEMMA ReadBodyInStream ==
    ASSUME StreamType, InStream, ReadBody
    PROVE  StreamType' /\ InStream'
  <1> USE DEF ClientOnly
  <1>1. /\ at = "body" /\ at' \in {"body", "reply"}
        /\ at' = IF Len(buffer') = expected THEN "reply" ELSE "body"
        /\ UNCHANGED <<geometryVars, peerVars, expected>>
    BY DEF ReadBody
  <1>2. PICK n \in 1 .. expected : /\ Recv(n, expected - Len(buffer))
                                   /\ buffer' = buffer \o SubSeq(wire, 1, n)
                                   /\ wire' = Unread(n)
    BY DEF ReadBody
  <1>3. PICK B \in SUBSET Int, r \in Int : Aligned(B, r) /\ Standing(B, r)
    BY <1>1 DEF InStream
  <1>4. PICK m : Current(m, B, r)
    BY <1>1, <1>3 DEF Standing
  <1>5. /\ Len(m) \in Nat /\ Len(buffer) \in Nat /\ Len(wire) \in Nat
        /\ Len(buffer) < Len(m) /\ expected = Len(m)
    <2>1. m \in Seq(Byte) /\ Len(buffer) < Len(m) /\ expected = Len(m)
      BY <1>1, <1>4 DEF Current, Message
    <2> QED BY <2>1 DEF StreamType
  <1>6. n \in 0 .. Len(wire) /\ n \in 1 .. Len(m) - Len(buffer)
    BY <1>2, <1>5 DEF Recv, Least
  <1>7. /\ wire' \in Seq(Byte)
        /\ Len(wire') = Len(wire) - n
        /\ \A k \in 1 .. Len(wire) - n : wire'[k] = wire[n + k]
        /\ \E C \in SUBSET Int : /\ Aligned(C, r - n)'
                                 /\ \A b \in B : b - n \in C
    BY <1>1, <1>2, <1>3, <1>6, ReadAligned
  <1>8. PICK C \in SUBSET Int : Aligned(C, r - n)' /\ \A b \in B : b - n \in C
    BY <1>7
  <1>9. PICK t : t = SubSeq(wire, 1, n)
    OBVIOUS
  <1>10. t \in Seq(Byte) /\ Len(t) = n /\ \A k \in 1 .. n : t[k] = wire[k]
    BY <1>6, <1>9, Beginning DEF StreamType
  <1>11. /\ buffer' \in Seq(Byte)
         /\ Len(buffer') = Len(buffer) + n
         /\ \A k \in 1 .. Len(buffer) : buffer'[k] = buffer[k]
         /\ \A k \in 1 .. n : buffer'[Len(buffer) + k] = wire[k]
    <2>1. /\ buffer \o t \in Seq(Byte)
          /\ Len(buffer \o t) = Len(buffer) + Len(t)
          /\ \A k \in 1 .. Len(buffer) : (buffer \o t)[k] = buffer[k]
          /\ \A k \in 1 .. Len(t) : (buffer \o t)[Len(buffer) + k] = t[k]
      BY <1>10, Joined DEF StreamType
    <2>2. buffer' = buffer \o t
      BY <1>2, <1>9
    <2> QED BY <1>10, <2>1, <2>2
  <1>12. StreamType'
    BY <1>1, <1>7, <1>11 DEF StreamType, peerVars, geometryVars, geometry
  <1>13. \A k \in 1 .. Len(m) - Len(buffer) :
            k <= Len(wire) => wire[k] = m[Len(buffer) + k]
    BY <1>4 DEF Current
  <1>14. ASSUME NEW k \in 1 .. Len(buffer') PROVE buffer'[k] = m[k]
    <2>1. CASE k <= Len(buffer)
      <3>1. k \in 1 .. Len(buffer)
        BY <1>5, <1>11, <2>1
      <3> QED BY <1>4, <1>11, <3>1 DEF Current
    <2>2. CASE k > Len(buffer)
      <3>1. PICK j \in 1 .. n : k = Len(buffer) + j
        <4>1. k - Len(buffer) \in 1 .. n /\ k = Len(buffer) + (k - Len(buffer))
          BY <1>5, <1>6, <1>11, <2>2
        <4> QED BY <4>1
      <3>2. j \in 1 .. Len(m) - Len(buffer) /\ j <= Len(wire)
        BY <1>5, <1>6
      <3> QED BY <1>11, <1>13, <3>1, <3>2
    <2> QED BY <1>5, <1>6, <1>11, <2>1, <2>2
  <1>15. ASSUME NEW k \in 1 .. Len(m) - Len(buffer'), k <= Len(wire')
         PROVE  wire'[k] = m[Len(buffer') + k]
    <2>1. /\ k \in 1 .. Len(wire) - n
          /\ n + k \in 1 .. Len(m) - Len(buffer) /\ n + k <= Len(wire)
          /\ Len(buffer') + k = Len(buffer) + (n + k)
      BY <1>5, <1>6, <1>7, <1>11, <1>15
    <2>2. wire[n + k] = m[Len(buffer) + (n + k)]
      BY <1>13, <2>1
    <2> QED BY <1>7, <2>1, <2>2
  <1>16. Len(m) - Len(buffer') \in C
    <2>1. Len(m) - Len(buffer) - n \in C
      BY <1>4, <1>8 DEF Current
    <2>2. Len(m) - Len(buffer) - n = Len(m) - Len(buffer')
      BY <1>5, <1>6, <1>11
    <2> QED BY <2>1, <2>2
  <1>17. (m = PieceBody' /\ r - n < 0 /\ ~owed') \/ m \in Said'
    <2>1. PieceBody' = PieceBody /\ Said' = Said /\ owed' = owed
      BY <1>1, SameAnswer DEF geometryVars, peerVars, Said
    <2>2. (m = PieceBody /\ r < 0 /\ ~owed) \/ m \in Said
      BY <1>4 DEF Current
    <2> QED BY <1>6, <2>1, <2>2
  <1>18. IF at' = "body" THEN Len(buffer') < Len(m) ELSE Len(buffer') = Len(m)
    BY <1>1, <1>5, <1>6, <1>11
  <1>19. expected' = Len(m) /\ Len(m) > 0 /\ Message(m)
    BY <1>1, <1>4 DEF Current
  <1>20. Current(m, C, r - n)'
    BY <1>14, <1>15, <1>16, <1>17, <1>18, <1>19 DEF Current
  <1>21. r - n \in Int
    BY <1>6
  <1>22. Standing(C, r - n)'
    BY <1>1, <1>20 DEF Standing
  <1> QED BY <1>8, <1>12, <1>21, <1>22 DEF InStream

LEMMA LostInStream ==
    ASSUME StreamType, ReadFails \/ Reject
    PROVE  StreamType' /\ InStream'
  <1>1. /\ at' \in {"closed", "failed"} /\ wire' \in Seq(Byte)
        /\ UNCHANGED <<buffer, geometryVars, peerVars>>
    BY DEF ReadFails, Reject, CloseSocket, ClientOnly, StreamType
  <1> QED BY <1>1 DEF InStream, StreamType, geometryVars, geometry, peerVars

-----------------------------------------------------------------------------
(* What download_piece does with it *)

\* The client has all of the message it looks at.
LEMMA MessageRead ==
    ASSUME StreamType, InStream, at = "reply"
    PROVE  \E B \in SUBSET Int, r \in Int : \E m :
               /\ Aligned(B, r) /\ 0 \in B
               /\ Message(m) /\ Len(buffer) = Len(m) /\ Len(m) \in Nat \ {0}
               /\ \A k \in 1 .. Len(m) : buffer[k] = m[k]
               /\ (m = PieceBody /\ r < 0 /\ ~owed) \/ m \in Said
  <1>1. PICK B \in SUBSET Int, r \in Int : Aligned(B, r) /\ Standing(B, r)
    BY DEF InStream
  <1>2. PICK m : Current(m, B, r)
    BY <1>1 DEF Standing
  <1>3. /\ Message(m) /\ Len(buffer) = Len(m) /\ Len(m) > 0
        /\ \A k \in 1 .. Len(buffer) : buffer[k] = m[k]
        /\ (m = PieceBody /\ r < 0 /\ ~owed) \/ m \in Said
        /\ Len(m) - Len(buffer) \in B
    BY <1>2 DEF Current
  <1>4. Len(m) \in Nat
    BY <1>3 DEF Message
  <1> QED BY <1>1, <1>3, <1>4

\* A reply that matches is the answer to the request.
LEMMA MatchIsAnswer ==
    ASSUME StreamType, NEW m \in Said, Len(m) \in Nat \ {0}, buffer[1] = m[1]
    PROVE  ~Matches
  <1>1. m \in Unsolicited
    BY SaidUnsolicited
  <1>2. m # <<>>
    OBVIOUS
  <1> QED BY <1>1, <1>2, OthersAreMessages DEF Matches

\* The answer to the request matches.
LEMMA AnswerMatches ==
    ASSUME GeometryInv, StreamType, Len(buffer) = Len(PieceBody),
           \A k \in 1 .. Len(PieceBody) : buffer[k] = PieceBody[k]
    PROVE  /\ Matches
           /\ \A k \in 1 .. BlockLength :
                  Data[k] = FileByte(piece_index * piece_size + Offset + k - 1)
  <1>1. /\ piece_index \in Nat /\ FourBytes(piece_index)
        /\ Offset \in Nat /\ FourBytes(Offset)
        /\ BlockLength \in Nat
    BY AnswerTypes, GeometryAssumption
  <1>2. /\ Len(PieceBody) = 9 + BlockLength
        /\ PieceBody[1] = 7
        /\ \A k \in 1 .. 4 : PieceBody[1 + k] = BigEndian(piece_index)[k]
        /\ \A k \in 1 .. 4 : PieceBody[5 + k] = BigEndian(Offset)[k]
        /\ \A k \in 1 .. BlockLength :
               PieceBody[9 + k] =
                   FileByte(piece_index * piece_size + Offset + k - 1)
    BY AnswerTypes, AnswerShape
  <1>3. /\ buffer \in Seq(Byte) /\ Len(buffer) = 9 + BlockLength
        /\ \A k \in 1 .. 9 + BlockLength : buffer[k] = PieceBody[k]
    BY <1>2 DEF StreamType
  <1>4. \A k \in 1 .. 4 : /\ SubSeq(buffer, 2, 5)[k] = buffer[1 + k]
                          /\ SubSeq(buffer, 6, 9)[k] = buffer[5 + k]
    BY <1>1, <1>3
  <1>5. \A k \in 1 .. BlockLength : Data[k] = buffer[9 + k]
    <2>1. 9 \in 0 .. Len(buffer)
      BY <1>1, <1>3
    <2>2. \A k \in 1 .. Len(buffer) - 9 :
              SubSeq(buffer, 9 + 1, Len(buffer))[k] = buffer[9 + k]
      BY <1>3, <2>1, Rest
    <2>3. Len(buffer) - 9 = BlockLength /\ 9 + 1 = 10
      BY <1>1, <1>3
    <2> QED BY <2>2, <2>3 DEF Data
  <1>6. \A k \in 1 .. 4 : 1 + k \in 1 .. 9 + BlockLength /\ 5 + k \in 1 .. 9 + BlockLength
    BY <1>1
  <1>7. \A k \in 1 .. 4 : /\ SubSeq(buffer, 2, 5)[k] = BigEndian(piece_index)[k]
                          /\ SubSeq(buffer, 6, 9)[k] = BigEndian(Offset)[k]
    BY <1>2, <1>3, <1>4, <1>6
  <1>8. /\ Ntohl(SubSeq(buffer, 2, 5)) = piece_index
        /\ Ntohl(SubSeq(buffer, 6, 9)) = Offset
    BY <1>1, <1>7, LengthRead
  <1>9. buffer[1] = 7 /\ Len(buffer) - 1 >= 8
    BY <1>1, <1>2, <1>3
  <1>10. \A k \in 1 .. BlockLength : 9 + k \in 1 .. 9 + BlockLength
    BY <1>1
  <1> QED BY <1>2, <1>3, <1>5, <1>8, <1>9, <1>10 DEF Matches

\* The client goes on to the next message, with nothing awaited under way.
LEMMA NextInStream ==
    ASSUME StreamType, StreamType', at' \in {"idle", "length"},
           UNCHANGED <<wire, connected, said>>,
           NEW B \in SUBSET Int, NEW r \in Int, Aligned(B, r), 0 \in B,
           PieceBody' = PieceBody \/ r < 0,
           owed' => r < 0,
           at' = "idle" => r < 0 /\ ~owed'
    PROVE  InStream'
  <1>1. Said' = Said
    BY DEF Said
  <1>2. Framed(wire, B, r, PieceBody', Said)
    BY FramedWider DEF Aligned
  <1>3. Aligned(B, r)'
    BY <1>1, <1>2 DEF Aligned
  <1>4. Standing(B, r)'
    BY DEF Standing
  <1> QED BY <1>3, <1>4 DEF InStream

LEMMA LoopInStream ==
    ASSUME StreamType, StreamType', InStream, StartPiece \/ SendRequest \/ FinishPiece
    PROVE  InStream'
  <1>1. /\ at = "idle" /\ at' \in {"idle", "length"}
        /\ UNCHANGED <<wire, connected, said>>
        /\ at' = "idle" => owed' = owed
    BY DEF StartPiece, SendRequest, FinishPiece, peerVars
  <1>2. PICK B \in SUBSET Int, r \in Int : Aligned(B, r) /\ Standing(B, r)
    BY <1>1 DEF InStream
  <1>3. 0 \in B /\ r < 0 /\ ~owed
    BY <1>1, <1>2 DEF Standing
  <1> QED BY <1>1, <1>2, <1>3, NextInStream

LEMMA ReplyInStream ==
    ASSUME StreamType, StreamType', InStream, TakeBlock \/ TakeForKeepAlive
    PROVE  InStream'
  <1>1. /\ at = "reply" /\ at' \in {"idle", "length"}
        /\ UNCHANGED <<wire, connected, said, owed>>
    BY DEF TakeBlock, TakeForKeepAlive, peerVars, ClientOnly
  <1>a. PICK B \in SUBSET Int, r \in Int : \E m :
               /\ Aligned(B, r) /\ 0 \in B
               /\ Len(m) \in Nat \ {0}
               /\ \A k \in 1 .. Len(m) : buffer[k] = m[k]
               /\ (m = PieceBody /\ r < 0 /\ ~owed) \/ m \in Said
    BY <1>1, MessageRead
  <1>2. PICK m :
               /\ Aligned(B, r) /\ 0 \in B
               /\ Len(m) \in Nat \ {0}
               /\ \A k \in 1 .. Len(m) : buffer[k] = m[k]
               /\ (m = PieceBody /\ r < 0 /\ ~owed) \/ m \in Said
    BY <1>a
  <1>3. owed' => r < 0
    BY <1>1, <1>2 DEF Aligned
  <1>4. CASE TakeForKeepAlive
    <2>1. PieceBody' = PieceBody /\ at' = "length"
      BY <1>4, SameAnswer DEF TakeForKeepAlive, ClientOnly, geometryVars
    <2> QED BY <1>1, <1>2, <1>3, <2>1, NextInStream
  <1>5. CASE TakeBlock
    <2>1. buffer[1] = m[1]
      BY <1>2
    <2>2. r < 0 /\ ~owed
      BY <1>2, <1>5, <2>1, MatchIsAnswer DEF TakeBlock
    <2> QED BY <1>1, <1>2, <1>3, <2>2, NextInStream
  <1> QED BY <1>4, <1>5

-----------------------------------------------------------------------------
(* The steps *)

LEMMA StepsOfGeometry ==
    ASSUME [TransferNext]_transferVars
    PROVE  [Next]_geometryVars
  BY DEF TransferNext, transferVars, Answer, Interject, HangUp, ClientUnchanged,
         Handshake, ReadLength, ReadBody, ReadFails, ClientOnly, StartPiece,
         SendRequest, TakeBlock, Reject, TakeForKeepAlive, FinishPiece, Next

LEMMA LengthIsNumber ==
    ASSUME GeometryInv, ComputeLength
    PROVE  piece_length' \in Int
  BY LengthType, GeometryAssumption DEF GeometryInv

LEMMA StreamNext ==
    ASSUME GeometryInv, StreamType, InStream, [TransferNext]_transferVars
    PROVE  StreamType' /\ InStream'
  <1>1. CASE Answer \/ Interject \/ HangUp
    BY <1>1, PeerInStream
  <1>2. CASE Handshake \/ ReadLength \/ ReadBody \/ ReadFails \/ Reject
    BY <1>2, HandshakeInStream, ReadLengthInStream, ReadBodyInStream, LostInStream
  <1>3. CASE StartPiece \/ SendRequest \/ FinishPiece
    <2>1. piece_length' \in Int
      <3>1. CASE StartPiece
        BY <3>1, LengthIsNumber DEF StartPiece
      <3>2. CASE SendRequest \/ FinishPiece
        BY <3>2 DEF SendRequest, FinishPiece, EndBlocks, geometryVars, StreamType
      <3> QED BY <1>3, <3>1, <3>2
    <2>2. /\ UNCHANGED <<wire, buffer, said, connected, piece_index>>
          /\ owed' = owed \/ owed' = connected
      BY <1>3
      DEF StartPiece, ComputeLength, SendRequest, FinishPiece, EndBlocks,
          geometryVars, geometry, peerVars
    <2>3. StreamType'
      BY <2>1, <2>2 DEF StreamType
    <2> QED BY <1>3, <2>3, LoopInStream
  <1>4. CASE TakeBlock \/ TakeForKeepAlive
    <2>1. StreamType'
      BY <1>4
      DEF TakeBlock, RequestBlock, TakeForKeepAlive, ClientOnly, geometryVars,
          geometry, peerVars, StreamType
    <2> QED BY <1>4, <2>1, ReplyInStream
  <1>5. CASE UNCHANGED transferVars
    <2>1. StreamType'
      BY <1>5 DEF transferVars, geometryVars, geometry, peerVars, StreamType
    <2>2. UNCHANGED <<geometryVars, at, expected, buffer, wire, connected, owed, said>>
      BY <1>5 DEF transferVars, peerVars
    <2>3. ASSUME at \notin {"closed", "failed"} PROVE InStream'
      <3>1. PICK B \in SUBSET Int, r \in Int : Aligned(B, r) /\ Standing(B, r)
        BY <2>3 DEF InStream
      <3>2. PieceBody' = PieceBody /\ Said' = Said
        BY <2>2, SameAnswer DEF geometryVars, Said
      <3>3. Aligned(B, r)'
        BY <2>2, <3>1, <3>2 DEF Aligned
      <3>4. Standing(B, r)'
        BY <2>1, <2>2, <3>1, <3>2, StandsStill
      <3> QED BY <3>3, <3>4 DEF InStream
    <2> QED BY <2>1, <2>2, <2>3 DEF InStream
  <1> QED BY <1>1, <1>2, <1>3, <1>4, <1>5 DEF TransferNext

LEMMA AssembledNext ==
    ASSUME GeometryInv, StreamType, InStream, Assembled,
           [TransferNext]_transferVars
    PROVE  Assembled'
  <1>1. CASE StartPiece
    <2>1. copied' = {} /\ piece_length' \in Int
      BY <1>1, LengthIsNumber DEF StartPiece, ComputeLength, GeometryInv
    <2>2. piece_data' = [k \in 0 .. piece_length' - 1 |-> piece_data'[k]]
      BY <1>1 DEF StartPiece
    <2> QED BY <2>1, <2>2 DEF Assembled
  <1>2. CASE TakeBlock
    <2>1. /\ at = "reply" /\ Matches /\ pc = "blocks" /\ i < num_blocks
          /\ copied' = copied \cup (Offset .. Offset + BlockLength - 1)
          /\ piece_data' = [k \in DOMAIN piece_data |->
                                IF k \in Offset .. Offset + BlockLength - 1
                                THEN Data[k - Offset + 1] ELSE piece_data[k]]
          /\ UNCHANGED <<geometry, piece_length, pc>>
      BY <1>2 DEF TakeBlock, RequestBlock
    <2>2. PICK m : /\ Message(m) /\ Len(buffer) = Len(m) /\ Len(m) \in Nat \ {0}
                   /\ \A k \in 1 .. Len(m) : buffer[k] = m[k]
                   /\ m = PieceBody \/ m \in Said
      BY <2>1, MessageRead
    <2>3. m = PieceBody
      <3>1. buffer[1] = m[1]
        BY <2>2
      <3> QED BY <2>1, <2>2, <3>1, MatchIsAnswer
    <2>4. \A k \in 1 .. BlockLength :
             Data[k] = FileByte(piece_index * piece_size + Offset + k - 1)
      BY <2>2, <2>3, AnswerMatches
    <2>5. /\ Offset \in Nat /\ BlockLength \in Nat
          /\ piece_index * piece_size \in Int /\ piece_length \in Int
      <3>1. piece_index \in Nat /\ piece_size \in Nat
        BY AnswerTypes
      <3>2. piece_index * piece_size \in Int
        BY <3>1
      <3> QED BY <3>2, AnswerTypes, GeometryAssumption DEF StreamType
    <2>6. /\ DOMAIN piece_data = 0 .. piece_length - 1
          /\ \A k \in copied \cap DOMAIN piece_data :
                 piece_data[k] = FileByte(piece_index * piece_size + k)
      BY <2>1 DEF Assembled
    <2>7. piece_data' = [k \in 0 .. piece_length - 1 |-> piece_data'[k]]
      BY <2>1, <2>6
    <2>8. ASSUME NEW k \in 0 .. piece_length - 1, k \in copied'
          PROVE  piece_data'[k] = FileByte(piece_index * piece_size + k)
      <3>1. CASE k \in Offset .. Offset + BlockLength - 1
        <4> DEFINE j == k - Offset + 1
                   b == piece_index * piece_size
        <4>1. j \in 1 .. BlockLength /\ b + Offset + j - 1 = b + k
          <5> HIDE DEF b
          <5> QED BY <2>5, <3>1 DEF b
        <4>2. piece_data'[k] = Data[j]
          BY <2>1, <2>6, <3>1
        <4>3. Data[j] = FileByte(b + Offset + j - 1)
          BY <2>4, <4>1
        <4> QED BY <4>1, <4>2, <4>3
      <3>2. CASE k \notin Offset .. Offset + BlockLength - 1
        BY <2>1, <2>6, <2>8, <3>2
      <3> QED BY <3>1, <3>2
    <2> QED BY <2>1, <2>7, <2>8 DEF Assembled, geometry
  <1>3. CASE FinishPiece
    BY <1>3 DEF FinishPiece, EndBlocks, Assembled, geometry
  <1>4. CASE ~(StartPiece \/ TakeBlock \/ FinishPiece)
    <2>1. UNCHANGED <<geometryVars, piece_data>>
      BY <1>4
      DEF TransferNext, transferVars, Answer, Interject, HangUp, ClientUnchanged,
          Handshake, ReadLength, ReadBody, ReadFails, ClientOnly, SendRequest,
          Reject, TakeForKeepAlive
    <2> QED BY <2>1 DEF Assembled, geometryVars, geometry
  <1> QED BY <1>1, <1>2, <1>3, <1>4

LEMMA RejectsNext ==
    ASSUME GeometryInv, StreamType, InStream, RejectsOnlyOthers,
           [TransferNext]_transferVars
    PROVE  RejectsOnlyOthers'
  <1>1. CASE Reject
    <2>1. at = "reply" /\ ~Matches /\ said' = said
      BY <1>1 DEF Reject, ClientOnly, peerVars
    <2>2. PICK m : /\ Len(buffer) = Len(m) /\ Len(m) \in Nat \ {0}
                   /\ \A k \in 1 .. Len(m) : buffer[k] = m[k]
                   /\ m = PieceBody \/ m \in Said
      BY <2>1, MessageRead
    <2>3. m \in Said
      BY <2>1, <2>2, AnswerMatches
    <2>4. m # <<>>
      BY <2>2
    <2>5. \E k \in DOMAIN said : said[k] # <<>>
      BY <2>3, <2>4 DEF Said
    <2> QED BY <2>1, <2>5 DEF RejectsOnlyOthers
  <1>2. CASE Interject
    <2>1. PICK m \in Unsolicited : said' = Append(said, m)
      BY <1>2 DEF Interject
    <2>2. \A k \in DOMAIN said : k \in DOMAIN said' /\ said'[k] = said[k]
      BY <2>1, SaidMore
    <2>3. at' = at
      BY <1>2 DEF Interject, ClientUnchanged
    <2> QED BY <2>2, <2>3 DEF RejectsOnlyOthers
  <1>3. CASE ~(Reject \/ Interject)
    <2>1. said' = said /\ (at' = "failed" => at = "failed")
      BY <1>3
      DEF TransferNext, transferVars, Answer, HangUp, ClientUnchanged,
          Handshake, ReadLength, ReadBody, ReadFails, CloseSocket, ClientOnly,
          StartPiece, SendRequest, TakeBlock, TakeForKeepAlive, FinishPiece, peerVars
    <2> QED BY <2>1 DEF RejectsOnlyOthers
  <1> QED BY <1>1, <1>2, <1>3

\* The handshake of the peer and nothing else is under way.
LEMMA StreamInit == TransferInit => StreamInv
  <1> SUFFICES ASSUME TransferInit PROVE StreamInv
    OBVIOUS
  <1>1. GeometryInv /\ WellFormed /\ Assembled /\ RejectsOnlyOthers
    BY GeometryInit, GeometryAssumption
    DEF TransferInit, WellFormed, Init, Assembled, RejectsOnlyOthers
  <1>2. wire \in Seq(Byte) /\ Len(wire) = 68
    <2>1. PICK h \in {OwnHash, OwnHash + 1} : wire = Hello(h)
      BY DEF TransferInit
    <2>2. wire \in [1 .. 68 -> Byte]
      BY <2>1 DEF Hello, OwnHash, Byte
    <2>3. wire \in Seq(Byte)
      <3>1. \A S : [1 .. 68 -> S] \subseteq Seq(S)
        <4>1. 68 \in Nat
          OBVIOUS
        <4> QED BY <4>1, SeqDef, Zenon
      <3> QED BY <2>2, <3>1
    <2> QED BY <2>2, <2>3
  <1>3. /\ said = <<>> /\ buffer = <<>> /\ at = "handshake"
        /\ ~owed /\ owed \in BOOLEAN /\ connected \in BOOLEAN
        /\ piece_length = 0 /\ FourBytes(piece_index)
    BY DEF TransferInit, Init
  <1>4. StreamType
    <2>1. said \in Seq(Unsolicited) /\ buffer \in Seq(Byte)
      BY <1>3, EmptySeq
    <2>2. piece_length \in Int
      BY <1>3
    <2> QED BY <1>2, <1>3, <2>1, <2>2 DEF StreamType
  <1>5. PICK B : B = {68}
    OBVIOUS
  <1>6. B \in SUBSET Int /\ -1 \in Int
    BY <1>5
  <1>7. Framed(wire, B, -1, PieceBody, Said)
    BY <1>2, <1>5 DEF Framed
  <1>8. Complete(wire, B, -1)
    BY <1>2, <1>5 DEF Complete
  <1>9. Aligned(B, -1) /\ Standing(B, -1)
    BY <1>3, <1>5, <1>7, <1>8 DEF Aligned, Standing
  <1>10. InStream
    BY <1>6, <1>9 DEF InStream
  <1> QED BY <1>1, <1>4, <1>10 DEF StreamInv

LEMMA StreamHolds == TransferSpec => []StreamInv
  <1>1. ASSUME StreamInv, [TransferNext]_transferVars PROVE StreamInv'
    <2> USE DEF StreamInv
    <2>1. GeometryInv'
      BY <1>1, StepsOfGeometry, GeometryNext
    <2>2. StreamType' /\ InStream'
      BY <1>1, StreamNext
    <2>3. Assembled'
      BY <1>1, AssembledNext
    <2>4. RejectsOnlyOthers'
      BY <1>1, RejectsNext
    <2>5. WellFormed'
      BY <1>1, StepsOfGeometry
      DEF WellFormed, Agrees, Next, ComputeLength, RequestBlock, EndBlocks, Hashed,
          geometryVars, geometry
    <2> QED BY <2>1, <2>2, <2>3, <2>4, <2>5
  <1> QED BY <1>1, StreamInit, PTL DEF TransferSpec

-----------------------------------------------------------------------------
(* The properties *)

\* Whatever the block size, the file and the segments recv returns, and whatever
\* else the peer sends, the buffer that download_piece hashes holds the bytes of
\* the file that belong to the piece, if the torrent is well formed.
THEOREM PieceRight == TransferSpec => []PieceIsTheFiles
  <1>1. ASSUME StreamInv PROVE PieceIsTheFiles
    <2> SUFFICES ASSUME pc = "hash"
                 PROVE  piece_data = [k \in 0 .. TrueLength - 1 |->
                                        FileByte(piece_index * piece_size + k)]
      BY DEF PieceIsTheFiles
    <2>1. piece_length = TrueLength /\ copied = 0 .. TrueLength - 1
      <3>1. GeometryInv /\ WellFormed
        BY <1>1 DEF StreamInv
      <3>2. piece_length = TrueLength
        BY <3>1 DEF GeometryInv, WellFormed, LengthIsTrue
      <3>3. TrueLength \in 1 .. piece_size /\ piece_size \in Int
        BY <3>1, TrueLengthType DEF GeometryInv, WellFormed, Shape
      <3>4. Countable
        BY <3>1, <3>2, <3>3, GeometryAssumption DEF WellFormed, Countable
      <3> QED BY <3>1, <3>2, <3>4 DEF GeometryInv, BufferIsFilled
    <2>2. /\ piece_data = [k \in 0 .. TrueLength - 1 |-> piece_data[k]]
          /\ \A k \in 0 .. TrueLength - 1 :
                 piece_data[k] = FileByte(piece_index * piece_size + k)
      BY <1>1, <2>1 DEF StreamInv, Assembled
    <2> QED BY <2>2
  <1> QED BY <1>1, StreamHolds, PTL

\* receive_message never loses its place: a reply is rejected only after a message
\* that is neither a reply nor a keep-alive.
THEOREM RejectsRight == TransferSpec => []RejectsOnlyOthers
  BY StreamHolds, PTL DEF StreamInv
=============================================================================

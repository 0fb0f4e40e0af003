------------------------------ MODULE Transfer ------------------------------
(***************************************************************************)
(* download_piece over the bytes of a TCP connection: the handshake, then  *)
(* one request and one reply per block, read by receive_message, and the   *)
(* copy into the buffer that PieceGeometry describes.  recv returns as     *)
(* many of the bytes asked for as have arrived: the length of a message    *)
(* and the handshake are read with one call, the body in a loop.           *)
(***************************************************************************)
EXTENDS PieceGeometry, Sequences

CONSTANTS
    Unsolicited,    \* the messages a peer may send on its own, as bytes
    MaxUnsolicited  \* bound: how many of them it sends

Byte == 0 .. 255

\* A number that a uint32_t holds.
FourBytes(n) == n \div 16777216 \in Byte

\* A piece is sent as the answer to a request only: no other message has id 7.
ASSUME TransferAssumption ==
    /\ Unsolicited \subseteq Seq(Byte)
    /\ \A m \in Unsolicited : FourBytes(Len(m)) /\ (m # <<>> => m[1] # 7)
    /\ MaxUnsolicited \in Nat
    /\ FourBytes(Word - 1) /\ FourBytes(9 + BlockSize)

VARIABLES
    at,          \* the call in progress: "idle" between blocks
    wire,        \* the bytes the peer has sent and the client not read
    connected,   \* the peer has not hung up
    owed,        \* a request the peer has not answered
    said,        \* the unsolicited messages sent, in order
    expected,    \* length of the message being read
    buffer,      \* what has been read of its body
    piece_data   \* the buffer of download_piece

peerVars     == <<connected, owed, said>>
transferVars == <<geometryVars, at, wire, peerVars, expected, buffer,
                  piece_data>>

\* htonl and ntohl
BigEndian(n) == <<(n \div 16777216) % 256, (n \div 65536) % 256,
                  (n \div 256) % 256, n % 256>>

Ntohl(bytes) == 16777216 * bytes[1] + 65536 * bytes[2] + 256 * bytes[3] + bytes[4]

Frame(body) == BigEndian(Len(body)) \o body

\* Every byte of the file tells its position.
FileByte(k) == k % 256

\* The answer to the request for the current block.
PieceBody ==
    <<7>> \o BigEndian(piece_index) \o BigEndian(Offset)
          \o [k \in 1 .. BlockLength |->
                  FileByte(piece_index * piece_size + Offset + k - 1)]

\* Bytes 28 to 47 of the peer's handshake are its info_hash.
Hello(hash) == [k \in 1 .. 68 |-> IF k \in 29 .. 48 THEN hash ELSE 0]

OwnHash == 1

\* The torrent is well formed, and small enough for its blocks to be counted.
\* The index of a piece goes over the wire in four bytes.
TransferInit ==
    /\ Init
    /\ Agrees
    /\ piece_size + BlockSize <= Word
    /\ FourBytes(piece_index)
    /\ at = "handshake"
    /\ wire \in {Hello(OwnHash), Hello(OwnHash + 1)}
    /\ connected = TRUE
    /\ owed = FALSE
    /\ said = <<>>
    /\ expected = 0
    /\ buffer = <<>>
    /\ piece_data = <<>>

-----------------------------------------------------------------------------
(* The peer *)

ClientUnchanged == UNCHANGED <<geometryVars, at, expected, buffer, piece_data>>

Answer ==
    /\ owed
    /\ wire' = wire \o Frame(PieceBody)
    /\ owed' = FALSE
    /\ ClientUnchanged /\ UNCHANGED <<connected, said>>

Interject ==
    /\ connected /\ at # "closed"
    /\ Len(said) < MaxUnsolicited
    /\ \E m \in Unsolicited : wire' = wire \o Frame(m) /\ said' = Append(said, m)
    /\ ClientUnchanged /\ UNCHANGED <<connected, owed>>

\* Any end of what is under way may be lost.
HangUp ==
    /\ connected /\ at # "closed"
    /\ connected' = FALSE
    /\ owed' = FALSE
    /\ \E n \in 0 .. Len(wire) : wire' = SubSeq(wire, 1, n)
    /\ ClientUnchanged /\ UNCHANGED said

-----------------------------------------------------------------------------
(* recv, perform_handshake and receive_message *)

\* A call of recv that asks for some bytes may return n.
Recv(n, bytes) == n \in 1 .. Least(bytes, Len(wire))

Unread(n) == SubSeq(wire, n + 1, Len(wire))

\* The error branches: what has arrived is lost with the socket.
CloseSocket == /\ at' = "closed" /\ wire' = <<>>
               /\ UNCHANGED <<expected, buffer>>

ClientOnly == UNCHANGED <<geometryVars, peerVars, piece_data>>

Handshake ==
    /\ at = "handshake"
    /\ \E n \in 1 .. 68 :
          /\ Recv(n, 68)
          /\ IF n = 68 /\ SubSeq(wire, 29, 48) = [k \in 1 .. 20 |-> OwnHash]
             THEN at' = "idle" /\ wire' = Unread(n) /\ UNCHANGED <<expected, buffer>>
             ELSE CloseSocket
    /\ ClientOnly

\* After an empty message the caller reads again.
ReadLength ==
    /\ at = "length"
    /\ \E n \in 1 .. 4 :
          /\ Recv(n, 4)
          /\ IF n < 4 THEN CloseSocket
             ELSE /\ expected' = Ntohl(SubSeq(wire, 1, 4))
                  /\ wire' = Unread(n)
                  /\ buffer' = <<>>
                  /\ at' = IF expected' = 0 THEN "length" ELSE "body"
    /\ ClientOnly

\* Mutant: the body is read with one call.
ReadBodyOnce ==
    /\ at = "body"
    /\ \E n \in 1 .. expected :
          /\ Recv(n, expected - Len(buffer))
          /\ buffer' = buffer \o SubSeq(wire, 1, n)
          /\ wire' = Unread(n)
    /\ at' = "reply"
    /\ UNCHANGED expected /\ ClientOnly

\* One turn of the loop.
ReadBody ==
    /\ at = "body"
    /\ \E n \in 1 .. expected :
          /\ Recv(n, expected - Len(buffer))
          /\ buffer' = buffer \o SubSeq(wire, 1, n)
          /\ wire' = Unread(n)
    /\ at' = IF Len(buffer') = expected THEN "reply" ELSE "body"
    /\ UNCHANGED expected /\ ClientOnly

ReadFails ==
    /\ at \in {"handshake", "length", "body"}
    /\ wire = <<>> /\ ~connected
    /\ CloseSocket /\ ClientOnly

-----------------------------------------------------------------------------
(* download_piece *)

StartPiece ==
    /\ at = "idle"
    /\ ComputeLength
    /\ piece_data' = [k \in 0 .. piece_length' - 1 |-> 0]
    /\ UNCHANGED <<at, wire, peerVars, expected, buffer>>

\* The request is lost on a peer that has hung up.
SendRequest ==
    /\ at = "idle" /\ pc = "blocks" /\ i < num_blocks
    /\ at' = "length"
    /\ owed' = connected
    /\ UNCHANGED <<geometryVars, wire, connected, said, expected, buffer,
                   piece_data>>

Matches == /\ buffer[1] = 7
           /\ Len(buffer) - 1 >= 8
           /\ Ntohl(SubSeq(buffer, 2, 5)) = piece_index
           /\ Ntohl(SubSeq(buffer, 6, 9)) = Offset

\* Mutant: the data is taken to start one byte earlier.
DataShifted == SubSeq(buffer, 9, Len(buffer))

Data == SubSeq(buffer, 10, Len(buffer))

TakeBlock ==
    /\ at = "reply" /\ Matches
    /\ RequestBlock
    /\ piece_data' = [k \in DOMAIN piece_data |->
                          IF k \in Offset .. Offset + BlockLength - 1
                          THEN Data[k - Offset + 1] ELSE piece_data[k]]
    /\ at' = "idle"
    /\ UNCHANGED <<wire, peerVars, expected, buffer>>

\* An empty vector is returned; the connection stays.
Reject ==
    /\ at = "reply" /\ ~Matches
    /\ at' = "failed"
    /\ UNCHANGED <<wire, expected, buffer>> /\ ClientOnly

\* msg.length is not assigned; when it happens to be zero the message is taken
\* for a keep-alive.
TakeForKeepAlive ==
    /\ at = "reply"
    /\ at' = "length"
    /\ UNCHANGED <<wire, expected, buffer>> /\ ClientOnly

FinishPiece ==
    /\ at = "idle"
    /\ EndBlocks
    /\ UNCHANGED <<at, wire, peerVars, expected, buffer, piece_data>>

TransferNext ==
    \/ Answer \/ Interject \/ HangUp
    \/ Handshake \/ ReadLength \/ ReadBody \/ ReadFails
    \/ StartPiece \/ SendRequest \/ TakeBlock \/ Reject \/ TakeForKeepAlive
    \/ FinishPiece

TransferSpec == TransferInit /\ [][TransferNext]_transferVars

-----------------------------------------------------------------------------
(* Properties *)

\* However the stream is cut into segments, the buffer that is hashed holds
\* the bytes of the file that belong to the piece.
PieceIsTheFiles ==
    pc = "hash" =>
        piece_data = [k \in 0 .. TrueLength - 1 |->
                          FileByte(piece_index * piece_size + k)]

\* A reply is rejected only if the peer sent something besides replies and
\* keep-alives: no segmentation of the stream, and no keep-alive between the
\* replies, makes the client misread a message.
RejectsOnlyOthers ==
    at = "failed" => \E k \in DOMAIN said : said[k] # <<>>

\* While blocks are awaited the connection is closed only if the peer has ended
\* it: receive_message asks for a message until it has it ("Read exactly 4
\* bytes", "Read `length` bytes").
ClosedOnlyByPeer == pc = "blocks" /\ at = "closed" => ~connected
=============================================================================

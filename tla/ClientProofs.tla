---------------------------- MODULE ClientProofs ----------------------------
(***************************************************************************)
(* What main and write_file leave on the disk, for contents and pieces of  *)
(* any length, any buffering of the stream, any room on the disk and any   *)
(* number of crashes and runs.  While the file is written, the disk and    *)
(* the buffer together hold the bytes of the pieces below the loop         *)
(* counter, in order, and the buffer no more of them than it may.          *)
(***************************************************************************)
EXTENDS Client, TLAPS

FileInOrder == \E n \in 0 .. TotalLength : file = Bytes(0, n)

\* At the head of the loop of write_file.
HalfWritten ==
    /\ results = Pieces
    /\ next \in 0 .. NumPieces
    /\ \E n \in 0 .. Start(next) : /\ file = Bytes(0, n)
                                   /\ buffer = Bytes(n, Start(next))
                                   /\ Start(next) - n <= StreamBuffer

ClientInv ==
    /\ room \in Nat
    /\ phase = "open" => results = Pieces
    /\ phase = "write" => HalfWritten
    /\ phase # "ended" => exit_code = Running
    /\ file = NoFile \/ FileInOrder
    /\ SavedOnSuccess

-----------------------------------------------------------------------------
(* Where the pieces start *)

LEMMA Starts ==
    /\ NumPieces \in Nat \ {0}
    /\ Start(0) = 0
    /\ Start(NumPieces) = TotalLength
    /\ \A i \in Nat : /\ Start(i) \in 0 .. TotalLength
                      /\ Start(i) <= Start(i + 1)
  <1> DEFINE q == (TotalLength + PieceSize - 1) \div PieceSize
  <1>1. TotalLength \in Nat \ {0} /\ PieceSize \in Nat \ {0}
    BY ClientAssumption
  <1>2. /\ q \in Int
        /\ PieceSize * q <= TotalLength + PieceSize - 1
        /\ TotalLength + PieceSize - 1 < PieceSize * q + PieceSize
    BY <1>1
  <1>3. q > 0
    <2>1. SUFFICES ASSUME q <= 0 PROVE FALSE
      BY <1>2
    <2>2. PieceSize * q <= 0
      BY <1>1, <1>2, <2>1
    <2> QED BY <1>1, <1>2, <2>2
  <1>4. NumPieces = q
    BY DEF NumPieces
  <1> HIDE DEF q
  <1>5. q * PieceSize \in Nat /\ q * PieceSize = PieceSize * q
    BY <1>1, <1>2, <1>3
  <1>6. ~(q * PieceSize < TotalLength)
    BY <1>1, <1>2, <1>5
  <1>7. Start(NumPieces) = TotalLength
    BY <1>4, <1>6 DEF Start
  <1>8. Start(0) = 0
    BY <1>1 DEF Start
  <1>9. ASSUME NEW i \in Nat
        PROVE  Start(i) \in 0 .. TotalLength /\ Start(i) <= Start(i + 1)
    <2>1. (i + 1) * PieceSize = i * PieceSize + PieceSize /\ i * PieceSize \in Nat
      BY <1>1
    <2> QED BY <1>1, <2>1 DEF Start
  <1> QED BY <1>2, <1>3, <1>4, <1>7, <1>8, <1>9

-----------------------------------------------------------------------------
(* Sequences of bytes *)

LEMMA BytesType ==
    ASSUME NEW m \in Nat, NEW n \in Nat, m <= n
    PROVE  Bytes(m, n) \in Seq(Nat) /\ Len(Bytes(m, n)) = n - m
  BY DEF Bytes

LEMMA BytesJoin ==
    ASSUME NEW l \in Nat, NEW m \in Nat, NEW n \in Nat, l <= m, m <= n
    PROVE  Bytes(l, m) \o Bytes(m, n) = Bytes(l, n)
  BY DEF Bytes

LEMMA BytesJoinFirst ==
    ASSUME NEW m \in Nat, NEW n \in Nat, m <= n
    PROVE  Bytes(0, m) \o Bytes(m, n) = Bytes(0, n)
  BY DEF Bytes

LEMMA BytesCut ==
    ASSUME NEW m \in Nat, NEW n \in Nat, m <= n, NEW k \in Int, k <= n - m
    PROVE  \E l \in m .. n : /\ SubSeq(Bytes(m, n), 1, k) = Bytes(m, l)
                             /\ k >= 0 => l = m + k
  <1>1. CASE k >= 0
    <2>1. SubSeq(Bytes(m, n), 1, k) = Bytes(m, m + k)
      BY <1>1 DEF Bytes
    <2> QED BY <1>1, <2>1
  <1>2. CASE k < 0
    <2>1. SubSeq(Bytes(m, n), 1, k) = Bytes(m, m)
      BY <1>2 DEF Bytes
    <2> QED BY <1>2, <2>1
  <1> QED BY <1>1, <1>2

LEMMA BytesLeft ==
    ASSUME NEW m \in Nat, NEW n \in Nat, m <= n, NEW k \in 0 .. n - m
    PROVE  SubSeq(Bytes(m, n), k + 1, n - m) = Bytes(m + k, n)
  BY DEF Bytes

\* A flush leaves on the disk what was there and a beginning of what is
\* written to it, and all of that when it fits.
LEMMA FlushKeepsOrder ==
    ASSUME NEW m \in Nat, NEW n \in Nat, m <= n, file = Bytes(0, m),
           room \in Nat, Flush(Bytes(m, n))
    PROVE  \E l \in m .. n : /\ file' = Bytes(0, l)
                             /\ Fits(Bytes(m, n)) => l = n
  <1>1. Len(file) = m /\ Len(Bytes(m, n)) = n - m
    BY BytesType
  <1>2. CASE Fits(Bytes(m, n))
    <2>1. file' = Bytes(0, m) \o Bytes(m, n)
      BY <1>2 DEF Flush
    <2>2. file' = Bytes(0, n)
      BY <2>1, BytesJoinFirst
    <2> QED BY <2>2
  <1>3. CASE ~Fits(Bytes(m, n))
    <2>1. room - m \in Int /\ room - m < n - m
      BY <1>1, <1>3 DEF Fits
    <2>2. \E l \in m .. n : SubSeq(Bytes(m, n), 1, room - m) = Bytes(m, l)
      <3>1. room - m <= n - m
        BY <2>1
      <3> QED BY <2>1, <3>1, BytesCut
    <2>3. PICK l \in m .. n : SubSeq(Bytes(m, n), 1, room - m) = Bytes(m, l)
      BY <2>2
    <2>4. file' = Bytes(0, m) \o Bytes(m, l)
      BY <1>1, <1>3, <2>3 DEF Flush
    <2>5. l \in Nat /\ m <= l
      OBVIOUS
    <2>6. file' = Bytes(0, l)
      BY <2>4, <2>5, BytesJoinFirst
    <2> QED BY <1>3, <2>6
  <1> QED BY <1>2, <1>3

-----------------------------------------------------------------------------
LEMMA ClientInit == Init => ClientInv
  BY ClientAssumption
  DEF Init, ClientInv, Running, SavedOnSuccess

LEMMA ClientNext ==
    ASSUME ClientInv, [Next]_clientVars
    PROVE  ClientInv'
  <1> USE DEF ClientInv, Exit, Proceed, environment, writing
  <1>1. CASE ParseFile
    BY <1>1 DEF ParseFile, FileInOrder, SavedOnSuccess, Running, Aborted
  <1>2. CASE GetPeers
    <2>1. \/ phase' = "download" /\ exit_code' = exit_code
          \/ phase' = "ended" /\ exit_code' \in {1, Aborted}
      BY <1>2, ClientAssumption DEF GetPeers, ReplyKinds
    <2> QED
      BY <1>2, <2>1
      DEF GetPeers, FileInOrder, SavedOnSuccess, Running, Aborted
  <1>3. CASE Download
    BY <1>3 DEF Download, FileInOrder, SavedOnSuccess, Running
  <1>4. CASE CheckMissing
    BY <1>4 DEF CheckMissing, FileInOrder, SavedOnSuccess, Running
  <1>5. CASE OpenFile
    <2>1. CASE Exit(1) /\ UNCHANGED writing
      BY <1>5, <2>1 DEF OpenFile, FileInOrder, SavedOnSuccess, Running
    <2>2. CASE Proceed("write") /\ file' = <<>> /\ buffer' = <<>> /\ next' = 0
      <3>1. file' = Bytes(0, 0) /\ buffer' = Bytes(0, 0)
        BY <2>2 DEF Bytes
      <3>2. HalfWritten'
        <4>1. 0 \in 0 .. NumPieces /\ Start(0) = 0 /\ 0 <= StreamBuffer
          BY Starts, ClientAssumption
        <4>2. results' = Pieces /\ next' = 0
          BY <1>5, <2>2 DEF OpenFile
        <4> QED BY <3>1, <4>1, <4>2 DEF HalfWritten
      <3>3. FileInOrder'
        BY <3>1, ClientAssumption DEF FileInOrder
      <3> QED
        BY <1>5, <2>2, <3>2, <3>3 DEF OpenFile, SavedOnSuccess, Running
    <2> QED BY <1>5, <2>1, <2>2 DEF OpenFile
  <1>6. CASE WritePiece
    <2> DEFINE from == Start(next)
               to   == Start(next + 1)
               pending == buffer \o Data(next)
    <2>1. HalfWritten /\ next < NumPieces /\ next \in Pieces /\ next \in Nat
      BY <1>6, Starts DEF WritePiece, HalfWritten, Pieces
    <2>2. /\ from \in Nat /\ to \in Nat /\ from <= to /\ to <= TotalLength
          /\ TotalLength \in Nat /\ StreamBuffer \in Nat
          /\ next + 1 \in 0 .. NumPieces
      BY <2>1, Starts, ClientAssumption
    <2>3. PICK n \in 0 .. from : /\ file = Bytes(0, n)
                                 /\ buffer = Bytes(n, from)
      BY <2>1 DEF HalfWritten
    <2> HIDE DEF from, to
    <2>4. pending = Bytes(n, to) /\ Len(pending) = to - n
      <3>1. Data(next) = Bytes(from, to)
        BY <2>1 DEF Data, HalfWritten, from, to
      <3>2. n \in Nat /\ n <= from /\ n <= to
        BY <2>2
      <3>3. pending = Bytes(n, to)
        <4>1. Bytes(n, from) \o Bytes(from, to) = Bytes(n, to)
          BY <2>2, <3>2, BytesJoin
        <4> QED BY <2>3, <3>1, <4>1 DEF pending
      <3> QED BY <2>2, <3>2, <3>3, BytesType
    <2> HIDE DEF pending
    <2>5. PICK k \in 0 .. to - n :
              /\ to - n - k <= StreamBuffer
              /\ Flush(SubSeq(pending, 1, k))
              /\ IF Fits(SubSeq(pending, 1, k))
                 THEN /\ buffer' = SubSeq(pending, k + 1, to - n)
                      /\ Proceed("write")
                 ELSE buffer' = <<>> /\ Exit(1)
      BY <1>6, <2>4 DEF WritePiece, pending
    <2>6. n \in Nat /\ n <= to /\ k \in Int /\ n + k \in Nat /\ n + k <= to
      BY <2>2
    <2>7. SubSeq(pending, 1, k) = Bytes(n, n + k)
      BY <2>2, <2>4, <2>6 DEF Bytes
    <2>8. SubSeq(pending, k + 1, to - n) = Bytes(n + k, to)
      BY <2>2, <2>4, <2>6, BytesLeft
    <2>9. PICK l \in n .. n + k : /\ file' = Bytes(0, l)
                                  /\ Fits(Bytes(n, n + k)) => l = n + k
      <3>1. n <= n + k
        BY <2>6
      <3>2. Flush(Bytes(n, n + k))
        BY <2>5, <2>7
      <3> QED BY <2>3, <2>6, <3>1, <3>2, FlushKeepsOrder
    <2>10. FileInOrder'
      <3>1. l \in 0 .. TotalLength
        BY <2>2, <2>6
      <3> QED BY <2>9, <3>1 DEF FileInOrder
    <2>11. results' = results /\ room' = room /\ next' = next + 1
      BY <1>6 DEF WritePiece
    <2>12. CASE Fits(SubSeq(pending, 1, k))
      <3>1. file' = Bytes(0, n + k) /\ buffer' = Bytes(n + k, to)
        <4>1. file' = Bytes(0, n + k)
          BY <2>7, <2>9, <2>12
        <4>2. buffer' = Bytes(n + k, to)
          BY <2>5, <2>8, <2>12
        <4> QED BY <4>1, <4>2
      <3>2. n + k \in 0 .. to /\ to - (n + k) <= StreamBuffer
        BY <2>2, <2>5, <2>6
      <3>3. to = Start(next')
        BY <2>11 DEF to
      <3>4. HalfWritten'
        BY <2>1, <2>2, <2>11, <3>1, <3>2, <3>3 DEF HalfWritten
      <3>5. phase' = "write" /\ exit_code' = Running
        BY <1>6, <2>5, <2>12 DEF WritePiece
      <3> QED BY <2>10, <2>11, <3>4, <3>5 DEF SavedOnSuccess, Running
    <2>13. CASE ~Fits(SubSeq(pending, 1, k))
      <3>1. phase' = "ended" /\ exit_code' = 1
        BY <2>5, <2>13
      <3> QED BY <2>10, <2>11, <3>1 DEF SavedOnSuccess
    <2> QED BY <2>12, <2>13
  <1>7. CASE CloseFile
    <2>1. HalfWritten /\ next = NumPieces /\ Start(next) = TotalLength
      BY <1>7, Starts DEF CloseFile
    <2>2. TotalLength \in Nat /\ StreamBuffer \in Nat
      BY ClientAssumption
    <2>3. PICK n \in 0 .. TotalLength : /\ file = Bytes(0, n)
                                        /\ buffer = Bytes(n, TotalLength)
                                        /\ TotalLength - n <= StreamBuffer
      BY <2>1 DEF HalfWritten
    <2>4. PICK l \in n .. TotalLength : file' = Bytes(0, l)
      <3>1. Flush(Bytes(n, TotalLength))
        BY <1>7, <2>3 DEF CloseFile
      <3> QED BY <2>2, <2>3, <3>1, FlushKeepsOrder
    <2>5. FileInOrder'
      BY <2>2, <2>4 DEF FileInOrder
    <2>6. Len(file') = l /\ l \in Nat /\ file' # NoFile
      <3>1. l \in Nat
        BY <2>2
      <3> QED BY <2>4, <3>1, BytesType DEF NoFile, Bytes
    <2>7. SavedOnSuccess'
      BY <2>2, <2>3, <2>6 DEF SavedOnSuccess
    <2> QED BY <1>7, <2>5, <2>7 DEF CloseFile
  <1>8. CASE Kill
    BY <1>8 DEF Kill, FileInOrder, SavedOnSuccess, Killed
  <1>9. CASE Rerun
    BY <1>9, ClientAssumption DEF Rerun, FileInOrder, SavedOnSuccess, Running
  <1>10. CASE UNCHANGED clientVars
    BY <1>10 DEF clientVars, FileInOrder, HalfWritten, SavedOnSuccess
  <1> QED
    BY <1>1, <1>2, <1>3, <1>4, <1>5, <1>6, <1>7, <1>8, <1>9, <1>10 DEF Next

LEMMA ClientHolds == Spec => []ClientInv
  BY ClientInit, ClientNext, PTL DEF Spec

\* Whatever is killed, refused or cut short, the file is a beginning of the
\* torrent's contents.
THEOREM NoHoles == Spec => []FileIsPrefix
  <1>1. ASSUME NEW n \in 0 .. TotalLength, file = Bytes(0, n)
        PROVE  IsPrefix(file, Contents)
    <2>1. /\ n \in Nat /\ TotalLength \in Nat /\ n <= TotalLength
          /\ Len(file) = n /\ Len(Contents) = TotalLength
      <3>1. n \in Nat /\ TotalLength \in Nat /\ n <= TotalLength
        BY ClientAssumption
      <3>2. Len(Bytes(0, n)) = n /\ Len(Bytes(0, TotalLength)) = TotalLength
        BY <3>1 DEF Bytes
      <3> QED BY <1>1, <3>1, <3>2 DEF Contents
    <2>2. SubSeq(file, 1, n) = SubSeq(Contents, 1, n)
      BY <1>1, <2>1 DEF Bytes, Contents
    <2> QED BY <2>1, <2>2 DEF IsPrefix
  <1>2. ClientInv => FileIsPrefix
    BY <1>1 DEF ClientInv, FileInOrder, FileIsPrefix
  <1> QED BY <1>2, ClientHolds, PTL

\* Exit code 0 means that no more of the file is missing than the stream may
\* have held when it was closed.
THEOREM SavedWhenReported == Spec => []SavedOnSuccess
  BY ClientHolds, PTL DEF ClientInv
=============================================================================

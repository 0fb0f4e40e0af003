------------------------------- MODULE Client -------------------------------
(***************************************************************************)
(* The program: main.cpp from its argument to its exit code, with          *)
(* write_file of orchestrate_peer.cpp.  The download itself is what module *)
(* Orchestrator says of download_all_pieces when it returns: some of the   *)
(* pieces.  The file outlives the process, which may be killed at any time *)
(* and started again.                                                      *)
(***************************************************************************)
EXTENDS Integers, Sequences, SequencesExt

CONSTANTS
    TotalLength,   \* bytes of the torrent's contents
    PieceSize,     \* bytes of a piece, but for the last one
    Arguments,     \* what argv[1] may be: see ArgumentKinds
    Replies,       \* what the tracker may do: see ReplyKinds
    StreamBuffer,  \* how many bytes an ofstream may keep in its buffer
    Room,          \* how many bytes the disk may have room for
    MaxRuns        \* bound: how often the program is started

NumPieces == (TotalLength + PieceSize - 1) \div PieceSize

Pieces == 0 .. NumPieces - 1

\* "torrent" is a file that parses; "broken" one that cannot be opened or
\* parsed, or no argument at all.
ArgumentKinds == {"none", "torrent", "broken", "magnet"}

\* "peers": a list of peers; "empty": an empty list; "down": no usable answer.
ReplyKinds == {"peers", "empty", "down"}

ASSUME ClientAssumption ==
    /\ TotalLength \in Nat \ {0}
    /\ PieceSize \in Nat \ {0}
    /\ Arguments \subseteq ArgumentKinds
    /\ Replies \subseteq ReplyKinds
    /\ StreamBuffer \in Nat
    /\ Room \subseteq Nat
    /\ MaxRuns \in Nat

\* What a process that was killed, or that an uncaught exception ended,
\* leaves instead of an exit code.
Running == -1
Killed  == -2
Aborted == -3

NoFile == <<-1>>

VARIABLES
    argument,   \* argv[1]
    room,       \* bytes the disk has room for
    phase,      \* where main is
    exit_code,  \* what the process ended with
    results,    \* the pieces download_all_pieces returned
    next,       \* the loop counter of write_file
    buffer,     \* what the stream still holds
    file,       \* the file under downloads/, NoFile when there is none
    runs        \* how often the program was started

clientVars == <<argument, room, phase, exit_code, results, next,
                buffer, file, runs>>

environment == <<argument, room, runs>>
writing     == <<next, buffer, file>>

Init ==
    /\ argument \in Arguments
    /\ room \in Room
    /\ phase = "start"
    /\ exit_code = Running
    /\ results = {}
    /\ next = 0
    /\ buffer = <<>>
    /\ file = NoFile
    /\ runs = 1

Exit(code) == phase' = "ended" /\ exit_code' = code

Proceed(to) == phase' = to /\ UNCHANGED exit_code

-----------------------------------------------------------------------------
(* main, up to the download *)

\* Anything but a missing argument is the path of a torrent file; the
\* exceptions of read_file_bytes and parse_torrent are not caught.
ParseFile ==
    /\ phase = "start"
    /\ CASE argument = "none"    -> Exit(1)
         [] argument = "torrent" -> Proceed("tracker")
         [] OTHER                -> Exit(Aborted)
    /\ UNCHANGED <<environment, results, writing>>

\* An answer that is no bencoded dictionary with a string "peers" throws; so
\* does a tracker that is not reached, whose answer is the empty string.
GetPeers ==
    /\ phase = "tracker"
    /\ \E reply \in Replies :
          CASE reply = "peers" -> Proceed("download")
            [] reply = "empty" -> Exit(1)
            [] reply = "down"  -> Exit(Aborted)
    /\ UNCHANGED <<environment, results, writing>>

Download ==
    /\ phase = "download"
    /\ results' \in SUBSET Pieces
    /\ Proceed("check")
    /\ UNCHANGED <<environment, writing>>

\* Mutant: the file is written whether pieces are missing or not.
CheckNothing ==
    /\ phase = "check"
    /\ Proceed("open")
    /\ UNCHANGED <<environment, results, writing>>

CheckMissing ==
    /\ phase = "check"
    /\ IF results = Pieces THEN Proceed("open") ELSE Exit(1)
    /\ UNCHANGED <<environment, results, writing>>

-----------------------------------------------------------------------------
(* write_file *)

\* Fails when the directory downloads/ is missing; otherwise an earlier file
\* is truncated.
OpenFile ==
    /\ phase = "open"
    /\ \/ Exit(1) /\ UNCHANGED writing
       \/ /\ Proceed("write")
          /\ file' = <<>> /\ buffer' = <<>> /\ next' = 0
    /\ UNCHANGED <<environment, results>>

Fits(s) == Len(file) + Len(s) <= room

\* As much of s as there is room for goes to the disk.
Flush(s) == file' = IF Fits(s) THEN file \o s
                    ELSE file \o SubSeq(s, 1, room - Len(file))

\* The contents from byte m up to byte n: every byte tells its position.
Bytes(m, n) == [k \in 1 .. n - m |-> m + k - 1]

Start(i) == IF i * PieceSize < TotalLength THEN i * PieceSize ELSE TotalLength

\* pieces[i]: empty when the piece was not downloaded.
Data(i) == IF i \in results THEN Bytes(Start(i), Start(i + 1)) ELSE <<>>

\* Mutant: the stream is not checked after a piece.
WritePieceUnchecked ==
    /\ phase = "write"
    /\ next < NumPieces
    /\ LET pending == buffer \o Data(next)
       IN \E n \in 0 .. Len(pending) :
             /\ Len(pending) - n <= StreamBuffer
             /\ Flush(SubSeq(pending, 1, n))
             /\ buffer' = SubSeq(pending, n + 1, Len(pending))
    /\ next' = next + 1
    /\ Proceed("write")
    /\ UNCHANGED <<environment, results>>

\* outfile.write, after which the stream is checked: n bytes of what it holds
\* and of the piece are written to the file, and the rest, no more than it
\* may keep, stays in its buffer.  How many that are is up to the library.
WritePiece ==
    /\ phase = "write"
    /\ next < NumPieces
    /\ LET pending == buffer \o Data(next)
       IN \E n \in 0 .. Len(pending) :
             /\ Len(pending) - n <= StreamBuffer
             /\ Flush(SubSeq(pending, 1, n))
             /\ IF Fits(SubSeq(pending, 1, n))
                THEN /\ buffer' = SubSeq(pending, n + 1, Len(pending))
                     /\ Proceed("write")
                ELSE buffer' = <<>> /\ Exit(1)
    /\ next' = next + 1
    /\ UNCHANGED <<environment, results>>

\* outfile.close() flushes the buffer; nothing looks at its outcome, and
\* write_file returns true.
CloseFile ==
    /\ phase = "write"
    /\ next = NumPieces
    /\ Flush(buffer)
    /\ buffer' = <<>>
    /\ Exit(0)
    /\ UNCHANGED <<environment, results, next>>

-----------------------------------------------------------------------------
\* A signal ends the process; its buffers are lost.
Kill ==
    /\ phase # "ended"
    /\ Exit(Killed)
    /\ buffer' = <<>>
    /\ UNCHANGED <<environment, results, next, file>>

\* The program is started again, perhaps with another argument and after
\* room has been made on the disk.
Rerun ==
    /\ phase = "ended"
    /\ runs < MaxRuns
    /\ runs' = runs + 1
    /\ argument' \in Arguments
    /\ room' \in {r \in Room : file = NoFile \/ r >= Len(file)}
    /\ phase' = "start"
    /\ exit_code' = Running
    /\ results' = {}
    /\ next' = 0
    /\ UNCHANGED <<buffer, file>>

Next == \/ ParseFile \/ GetPeers \/ Download \/ CheckMissing
        \/ OpenFile \/ WritePiece \/ CloseFile \/ Kill \/ Rerun

Spec == Init /\ [][Next]_clientVars

-----------------------------------------------------------------------------
(* Properties *)

Contents == Bytes(0, TotalLength)

\* The file never has a hole: whatever is killed, refused or cut short, what
\* is on the disk is the beginning of the torrent's contents ("Take all
\* downloaded pieces (in order) and write them sequentially").
FileIsPrefix == file = NoFile \/ IsPrefix(file, Contents)

\* Success is reported only when no more of the file is missing than the stream
\* may have held when it was closed.
SavedOnSuccess ==
    exit_code = 0 => file # NoFile /\ TotalLength - Len(file) <= StreamBuffer
=============================================================================

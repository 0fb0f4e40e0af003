# A verified model of BitTorrentCPP

BitTorrentCPP is a BitTorrent client: it reads a `.torrent` file, asks the
tracker for peers, downloads the pieces from up to five peers in parallel, one
thread per peer, and writes the file. This directory holds TLA+ modules
translated from its sources (`src/src/`), the TLC configurations that check
them on small instances, and proofs that TLAPS checks for every instance.

    tlc -workers 2 -config OrchestratorAny.cfg MCOrchestrator.tla
    tlapm OrchestratorProofs.tla

## 1. The system

| component | sources | state | operations |
|---|---|---|---|
| download orchestrator | `orchestrate_peer.{h,cpp}` | `PieceQueue` (a `std::queue` and its mutex), the result vector and its mutex; per thread a `PeerConnection`, `piece_index`, `skip_count` | `push`, `peek`, `pop`, `empty`; `peer_worker`; `download_all_pieces` |
| peer wire protocol | `peer_connect.{h,cpp}` | `PeerConnection`: `socket_fd`, choking flags, `bitfield`; the bytes in flight | `connect_to_peer`, `perform_handshake`, `receive_message`, `send_message`, `handle_message`, `send_request`, `download_piece`, `disconnect` |
| file writer | `orchestrate_peer.cpp:171-211` | the stream and the file | `write_file` |
| program flow | `main.cpp` | the argument, the exit code | `main` |
| bencode codec | `bencode.{h,cpp}` | none (a position in the input) | `decode*`, `encode` |
| torrent parser | `calc_hash.{h,cpp}` | none | `read_file_bytes`, `parse_torrent`, `sha1_hash`, `split_piece_hashes` |
| tracker client | `get_peers.{h,cpp}` | none | `build_tracker_url`, `http_get`, `parse_peers`, `get_peers` |
| extension protocol | `extension.{h,cpp}` | - | stubs that return empty results |
| magnet links | `magnet.{h,cpp}` | - | stubs, called by nothing |

**How they interact.** `main` calls the parser, the tracker client and
`download_all_pieces` one after the other. `download_all_pieces` fills the
queue, spawns the threads and joins them. A thread connects, shakes hands, waits
for a Bitfield, sends Interested, waits for an Unchoke and then loops: it peeks
at the front of the queue; a piece its peer lacks is moved to the back; a piece
its peer has is popped and downloaded block by block, one request at a time; a
verified piece is stored, a failed one pushed back. The thread ends when it
finds the queue empty or has skipped more than `num_pieces` times in a row.
Threads share the queue, the results and, which the code does not say, the
process's table of descriptors. `main` then writes the file if no piece is
missing.

**What is hard.** The queue's operations are atomic one by one, but the worker
uses them in pairs (peek, then pop; pop, then push) and other threads run in
between. An empty queue is taken for the end of the work although pieces may be
in other threads' hands. A connection has requests outstanding when the worker
gives a piece up. Errors close a socket in one function and leave its number in
use in another. `receive_message` returns fields it never assigned. There is no
timeout anywhere, nothing handles SIGPIPE, and nothing checks the flush of the
file. The complete list, line by line, is under "hazards" in `PROJECT.json`.

**What makes the components correct.**

- Orchestrator: a piece is never lost, never worked on by two threads, asked
  only of a peer that has it; the download ends, with every piece that the
  peers have.
- Wire: only the genuine bytes of a piece are stored under its index; answers
  stay in step with requests; a connection is used by its own thread only.
- Geometry: the last piece and the last block have the right length, also for
  files longer than 32 bits can count; every byte of a piece is fetched once.
- File and program: the file never has a hole; success means it is complete.
- Codec, parser, tracker: decoding inverts encoding; the info hash is that of
  the torrent; the peers are those the tracker sent.

## 2. The modules

    Orchestrator      PieceQueue, peer_worker, download_all_pieces; abstract peers
      |- OrchestratorProofs   theorems about it, and about one thread
      |- MCOrchestrator       named bitfield assignments for TLC
      '- Swarm        the same with the messages; implements Orchestrator
           |- SwarmProofs     that it does, and what is stored
           |    '- QuietSwarmProofs   theorems about peers that only answer
           '- MCSwarm
    PieceGeometry     lengths and offsets of pieces and blocks, in 32 bits
      '- Transfer     handshake and one piece over a stream of bytes
           |- TransferProofs  theorems about both
           '- MCTransfer
    SocketTable       the descriptors the threads share
      '- SocketTableProofs
    BencodeValue      bytes, values and the outcomes of decoding
      |- BencodeCalls the codec's functions, one call at a time
      |    |- Bencode        the calls tied together: the codec
      |    '- BencodeProofs  that decoding inverts encoding
      '- Metainfo     parse_torrent, split_piece_hashes, get_peers, the metadata,
           |            with any codec
           |- MetainfoProofs  with BencodeProofs: what becomes of torrents and replies
           '- MCMetainfo      Metainfo with Bencode for its codec
    Client            main.cpp and write_file
      '- ClientProofs

### Orchestrator

One step of a thread goes from one access to shared state up to the next:
`pc[w]` says where the thread of peer `w` is.

| `pc[w]` | code (`orchestrate_peer.cpp`) | actions |
|---|---|---|
| `unborn` | before `threads.emplace_back`, 161-163 | `Spawn` |
| `connect`, `handshake` | 48-57 | `Connect`, `Handshake` |
| `await_bitfield`, `await_unchoke` | the two receive loops, 58-89 | `AwaitBitfield`, `AwaitUnchoke`, `UpdateBitfield`, `ReadGarbage` |
| `peek` | 91-97 | `PeekEmpty`, `PeekMiss`, `PeekHit` |
| `skip_pop`, `skip_push` | 98-108 | `SkipPop`, `SkipPush` |
| `pop` | 112-116 | `PopEmpty`, `PopFront` |
| `download` | 117-131 | `Succeed`, `Fail` |
| `exit` | the thread function has returned | |

`main` is where `download_all_pieces` is (spawning, joining, returned).
`results` is the set of pieces whose entry is filled: `results_mutex` makes a
store one step. What the second loop hands to `handle_message` may set a bit of
the bitfield (Have) or replace all of them (another Bitfield): `UpdateBitfield`.
`link[w] = "down"` is a connection that has been lost; reads on
it return at once with the uninitialised `PeerMessage` that `receive_message`
returns on failure, which the setup loops may take for anything (`ReadGarbage`).
`Advertises` and `Faults` say what the peers may send and what may fail.

`PieceQueue` is used at `orchestrate_peer.h:110` before it is declared at line
187, and nothing declares it earlier; the model takes the class as declared.

### Swarm

Swarm extends Orchestrator. The queue's and coordinator's actions are taken over
as they are; the conversation is written out: `inbox[w]` is the TCP stream from
the peer, `asked[w]` the requests it has not dealt with, `peer[w]` the state of
the peer itself (external code, modelled from what `peer_connect.cpp` relies
on). `receive_message` never assigns `msg.length` for a message with a body, and
every caller takes `length == 0` for a keep-alive. What the field holds is
whatever the memory held, and a keep-alive leaves a zero there, so any message
at all may be skipped (`SkipMessage`), in every run. A Have for a piece past the
end of `conn.bitfield` is ignored; `bitfield_size[w]` is the number of its bits
as far as they stand for pieces (the padding of the last byte stands for none).
A request or an
Interested sent after the peer has hung up may be lost, fail, or kill the
process by SIGPIPE (`Send`). A block of the wrong bytes, or too short a one that
`memcpy` reads past, is a value other than the genuine one; SHA-1 is taken to be
free of collisions. `Quirks` says what a peer may do besides answering: send a
Have, a Choke, a keep-alive or a second bitfield (`"again"`) unasked, a bitfield
with too few bits (`"brief"`) or none (`"bare"`), spoiled or short blocks; with
`"split"` the length of a message may arrive in two pieces, which
`receive_message` takes for the end of the connection (`LoseConnection`).

Swarm **implements** Orchestrator: `RefinesOrchestrator` instantiates it with
every fault allowed and the same variables. A lost connection is mapped as lost
from the moment the thread closes the socket; a closed socket stays dead here,
and what happens when its number is given out again is SocketTable's subject.
The refinement says that no failing path of the wire does to queue and results
what the Orchestrator does not allow; that the wire makes progress it cannot
say, since a process killed by SIGPIPE, or a thread that waits, is a stutter.

### SocketTable

`owner[n]` is the thread whose connection descriptor `n` is, `socket_fd[w]` the
number thread `w` keeps. The kernel gives out the lowest free number, or none
(`OpenFails`).
`connect_to_peer`, `send_message` and `disconnect` close and forget;
`perform_handshake` and `receive_message` close and keep. `peer_worker` calls
`disconnect` after a failed handshake, so that number is closed twice, and
leaves its download loop without closing at all.

### PieceGeometry

For one piece of one file: `ComputeLength` is `orchestrate_peer.cpp:117-121`,
with the 32-bit product and the truncation; `RequestBlock` is one turn of the
loop of `download_piece`. `num_pieces` is what `main.cpp:31` counts, the hashes,
and is free: nothing in the code compares it with the length. `Agrees` says that
a torrent is well formed, that is, has a hash for every piece; it is a hypothesis
of `LengthIsTrue` and of nothing else. `Countable` excludes piece lengths within
16 KB of 4 GB, for which `piece_length + 16383` wraps.

### Transfer

The same piece over a TCP connection, byte by byte. `wire` are the bytes the
peer has sent and the client has not read; `recv` returns any number of them
from one up to what was asked for, so that every way in which the stream can be
cut is a behaviour. `perform_handshake` and the length of a message are one call
of `recv` (`Handshake`, `ReadLength`: fewer bytes than asked for close the
socket), the body is the loop of `peer_connect.cpp:119-129` (`ReadBody`, one
turn a step). Messages are sequences of bytes; ids, indices, offsets and lengths
are four-byte numbers in network order, taken apart as the code takes them apart
(`Matches`, `Data`). Every byte of the file tells its position, so that a block
copied from or to the wrong place shows. The peer answers one request at a time,
may send keep-alives or a Choke unasked (`Interject`), and may hang up with any
end of its last bytes lost. `TakeForKeepAlive` is the unassigned `msg.length`
that happens to be zero. `TakeBlock` is `RequestBlock` of PieceGeometry with the
copy it stands for. The torrent is well formed here and its pieces are countable
(`TransferInit`). Swarm has whole messages and many peers,
Transfer has the bytes and one; SIGPIPE and several threads are Swarm's.

### Bencode and Metainfo

`BencodeCalls` translates the encoder and the four decoders one call at a time:
the calls that a call makes are its parameters. `Bencode` ties them together as
recursive operators, which TLC runs; the prover cannot read recursive operators,
so the proofs are about the calls. A byte is a string of one character, and a name such as `announce` counts as one
byte that sorts where the name does. `Decode` yields a value and a position, or
one of three failures: an exception; a read past the end of the text (its
outcome is undefined, nothing is claimed after it); or decoding that never ends.
The last is exact: what a call or a turn of a loop does depends on its position
only, so it never ends just when it comes back to a position in progress. It can
come back because `find` returns `npos` when a `:` or an `e` is missing, and
`npos + 1` is 0.

`Metainfo` runs the parser on a file and the tracker's response. The codec it
calls, `encode` and `decode`, are constants: MCMetainfo puts Bencode in their
place, and `Promised` is what parser and tracker client need of them. The file is the
encoding of a dictionary or a beginning of it; so is the response, because
`http_get` returns what has arrived even when the transfer failed. Map access by
`operator[]` enters defaults (`Accessed`). SHA-1 is one to one. `url_encode` has
no return statement: `BuildUrl` leaves open whether the process goes on, and
whether it asks for this torrent or for another, of which the tracker knows
nothing. `BuildMetadata` is the part of `main` that copies the strings which
`split_piece_hashes` returned into arrays of twenty bytes, from a hash that is
cut short as well: one byte short, it gets the terminating zero; shorter, the
copy reads past the end.

### Client

`main` from its argument to its exit code, `write_file` piece by piece, crashes
at any point, and second runs over the file the first one left. The download is
what Orchestrator says of it: any set of the pieces. The file is a sequence of
bytes, each of which tells its position. An `ofstream` keeps what it likes, up
to `StreamBuffer` bytes, and writes the rest: of what it held and of the piece
it is given, `WritePiece` lets any number of bytes through that leaves no more
than that behind. So the standard library may write a long piece through
(libstdc++) or keep its tail (libc++, which a build against CommonCrypto would
use). `CloseFile` writes what is left and looks at nothing. `Room` is what the
disk takes.

## 3. What is checked

| run | question | bounds |
|---|---|---|
| `OrchestratorAny` | Is a piece ever lost, whatever fails (`TypeOK`, `NoPieceLost`, `MissingIsQueued`, `EntryBound`)? With fair threads and peers of which nothing is assumed: does a thread that is not stuck with its own peer end (`SurvivorsEnd`), and does a download from complete peers complete unless a thread is stuck (`HealthyCompletes`)? | 3 peers, 2 threads, 2 pieces, all bitfields, all faults; 490 thousand states |
| `SwarmSolo` | Message by message, with every quirk and fault, any message dropped: `SwarmTypeOK`, `StoredIsGenuine`, `ExitsSatisfied` (the skip counter gives up exactly when all the peer has is stored), `RefinesOrchestrator` | 1 peer, 3 pieces of 2 blocks, one unsolicited message; 1.05 million states |
| `SwarmQuiet` | With complete peers that only answer, any message dropped, any block spoiled: `InStep`, `ClaimedOnce`, and under fairness `SwarmCompletes` | 2 peers, 2 pieces of 2 blocks, one keep-alive each; 73 thousand states |
| `Transfer` | Byte by byte: `LengthIsTrue`, `BufferIsFilled`, `PieceIsTheFiles`, `RejectsOnlyOthers` | files up to 12 bytes, pieces up to 6, blocks of 2, words of 8 values, one keep-alive or Choke; 281 thousand states |
| `SocketAny` | When any call may fail: `AliasedByOpening` | 3 threads; 8 thousand states |
| `Metainfo` | Does the codec invert itself and reject what is cut short (`CodecInverts`), and what do parser and tracker client make of it? `TorrentIsTheFiles`, `TruncatedRejected`, `PeersAreTheTrackers`, `HashForEveryPiece` | 62 torrents, 8 replies and a refusal, cut at every byte; contents that look like syntax, nested lists and dictionaries, unknown keys, hashes of every length; 86 thousand states |
| `ClientSaves` | With crashes, full disk, second runs: `FileIsPrefix`, `SavedOnSuccess` | 8 bytes in 3 pieces, a stream that keeps 2, 2 runs; 1778 states |
| `OrchestratorGrab` | *violated*: `ClaimedOnce` when peers lack pieces | 3 peers, 1 piece |
| `OrchestratorSplit` | *violated*: `Completes` when two peers have all pieces between them | 2 peers, 2 pieces |
| `SwarmLag` | *violated*: `SwarmCompletes` when a complete, answering peer chokes once | 1 peer, 2 pieces of 2 blocks |
| `TransferSplit` | *violated*: `ClosedOnlyByPeer` when a length arrives in two pieces | as `Transfer`, no unasked messages |
| `SocketDoubleClose` | *violated*: `OwnSocket` when a handshake fails | 3 threads |

**Why the bounds are enough.** Two threads show every pairwise interleaving of
peek, pop and push; a third peer that has no thread shows the cap on threads,
and the theorems of section 4 remove the bounds for the safety of the queue.
A
thread can meet a queue the others have emptied, one they have rotated, and one
they have left alone; a second thread is all a thread needs beside it that is lost, or
that rotates the queue. SwarmSolo has a third piece, so that the skip counter
passes over a queue that is longer than what the peer has. Two
blocks give a first and a last one; one unsolicited message is enough to put a
conversation out of step. In Transfer files are
longer than a word, so that products wrap, pieces are shorter and longer than
blocks and the last piece has every length; one message that was not asked for
can come between any two bytes that matter. Three threads are the least number in which one thread's stale
number can meet another's socket while a third still connects. The torrents of
Metainfo have contents that look like the syntax around them (an `e`, a `1:`, a
whole integer, an open dictionary), nested lists and dictionaries under a key the
client does not know, and are cut at every byte, so that every terminator is
missing in some file; a hash and a peer have 3 bytes each, so that one byte of
the last can be missing, or more. One
torrent and one response are long enough that, cut inside a length, they send the
decoder to a position where it can go on (see below).

**Fairness.** The operating system runs every thread that can run: weak fairness
of a thread's own steps, a mutex being held only within a step. That is all
`LiveSpec` assumes, besides that a `connect` ends. A peer may keep silent, in any
call that waits for it; a download may fail at every attempt; and on a lost
connection a thread may spin in the setup loops. No strong fairness is assumed:
nothing obliges a block to arrive at some attempt, and after one unexpected
message all may fail (`SwarmLag`). `AnsweredSpec`, for `OrchestratorSplit` only,
adds peers that answer, so that its counterexample is the threads' doing.
In `SwarmLiveSpec` a peer greets, unchokes the client sooner or later whenever
it chokes it, and deals with the requests it has (weak fairness); nothing obliges
it to chat, to stay or to send the right bytes, or a message to be read as what
it is. TCP justifies that what is sent arrives in order.

**What liveness holds.** A thread may be stuck with its own peer (`Stuck`): it
waits for it for ever, as no call has a timeout, or fails its pieces for ever.
A worker whose connection is lost does neither; it pops, fails and pushes back.
`SurvivorsEnd` says that none of them holds up the others: a thread that is not
stuck and keeps its connection ends, unless the queue hands it again and again a
piece that is stored already. That exception is real, and TLC shows it when it is
left out: a piece entered twice by the skip is downloaded by this thread and put
back by the lost one time after time.
The counters alone do not give the property: a thread whose skip counter did not
count would be kept for ever (the mutant). `HealthyCompletes` says that with
complete peers that stay the order of the threads' steps is never to blame: the
download completes unless a thread is stuck. `SwarmCompletes` says it of the
messages, where being stuck has only two causes: the thread has read the message
it waits for and taken it for a keep-alive (`Deaf`), or the peer spoils blocks
for ever (`Spoiled`). It holds of peers that speak only when asked, and fails of
one that chokes (`SwarmLag`).

**What the violations show.**

- `OrchestratorGrab`: the skip ignores the result of its `pop` (line 99). If
  another thread has taken the last entry since the peek, `piece_index` still
  names that piece and `push` enters it a second time; a third thread then
  downloads what is being downloaded. Harmless to the file, since both store the
  same bytes, but not what `orchestrate_peer.h:184` promises.
- `OrchestratorSplit`: two healthy peers have all pieces between them. A thread
  that finds the queue empty while the other holds a piece in its skip, or whose
  skip counter runs out while the other rotates the queue, ends for good, and the
  pieces only its peer has are never fetched: the "other thread" of
  `orchestrate_peer.h:132` is not there any more.
- `SwarmLag`: a Choke takes the place of the block awaited and fails the piece,
  with its request still out; after the Unchoke its answer comes while the thread
  awaits another piece's block, and fails that. Two pieces go back to the queue
  by turns, for ever, although the peer answers every request with the right
  block. The Choke is also lost to `handle_message` (`WrongReply`), as a Have
  would be.
- `SocketDoubleClose`: between the close in `perform_handshake` and the one in
  `disconnect` another thread's `socket()` may return the same number; the
  second close then ends that thread's connection.
- `TransferSplit`: `receive_message` promises to read exactly four bytes and
  asks for them once. When a segment ends inside the length of a message, the
  call returns fewer, and the client closes the connection to a peer that is
  there and answers. The body is read in a loop and does not have this flaw
  (`PieceIsTheFiles`, `RejectsOnlyOthers`).

**Other things met while modelling**, present in the modules' actions but
claimed by no property:

- The piece popped at line 113 need not be the one peeked and tested at line 93,
  and is not tested again (`PopFront`): with two threads it may be requested from
  a peer that lacks it, against `orchestrate_peer.h:129`. The request may go
  unanswered, and the thread then waits for ever.
- `receive_message` assigns `msg.length` only for a keep-alive. When the field of
  another message reads zero, the block awaited is skipped as if it were a
  keep-alive (`SkipMessage`), and the thread waits for what it has thrown away.
- The setup loops do not notice a lost connection (`ReadGarbage`), and a worker
  on a lost connection goes round the download loop, popping and pushing.
- A Have before any Bitfield is ignored, and a peer that sends no Bitfield, as a
  peer without pieces need not, holds its thread for ever.
- A torrent of several files has no `length`: the access enters one, with the
  value 0, into the dictionary that is then encoded and hashed, so the info hash
  is wrong and the file is taken to be empty (`ParseTorrent`;
  `TorrentIsTheFiles` is about torrents with a length).
- A torrent file cut off inside the length of a string can make the decoder loop
  for ever: `d1` is the shortest (`Diverges`). It may also be accepted. Without a
  `:` the contents are taken from the start of the file and decoding goes on at
  the position that the digits name: with an announce URL that begins
  `http://ee` and hashes of 2100 bytes, a file that ends in `6:pieces21` goes on
  in the URL, finds both dictionaries closed, and is a torrent whose hashes are
  the first 21 bytes of the file. The same happens to a response with about 30
  peers. `TruncatedRejected` and `PeersAreTheTrackers` except a cut inside a
  length (`Torn`) and nothing else; without that exception TLC finds both cases.
- `url_encode` (`get_peers.cpp:9-26`) has no return statement, so what the
  tracker is asked is undefined (`BuildUrl`).
- `num_pieces` is counted from the hashes and `total_length` is the torrent's, 0
  for one of several files. With hashes too many the subtraction wraps around,
  and a buffer of up to 4 GB is allocated for the last piece; with too few it is
  longer than a piece (`ComputeLength` without `Agrees`).
- `close` of the output file is not checked (`CloseFile`): on a disk that fills up
  then, the end of the file is missing although the program reports success.
  `SavedOnSuccess` says that no more is missing than the stream's buffer holds.
- The peer id sent to the tracker is not the one of the handshake
  (`get_peers.cpp:64`, `main.cpp:79-85`).
- A magnet link is opened as a file; a tracker that is not reached ends the
  program by an uncaught exception (`ParseFile`, `GetPeers`).

## 4. What is proved

| module | theorem | property | hypothesis |
|---|---|---|---|
| `OrchestratorProofs` | `TypeCorrect` | `TypeOK` | |
| | `PiecesKept` | `NoPieceLost` | |
| | `MissingQueued` | `MissingIsQueued` | |
| | `EntriesBounded` | `EntryBound` | |
| | `ClaimsExclusive` | `ClaimedOnce` | every peer advertises every piece, no connection is lost |
| | `LoneSatisfied` | `ExitsSatisfied` | one thread |
| `SwarmProofs` | `WireTypes` | `SwarmTypeOK` | |
| | `StoredGenuine` | `StoredIsGenuine` | |
| | `WireImplements` | `RefinesOrchestrator` | |
| | `WireLosesNothing` | `NoPieceLost`, of the Swarm | |
| | `WireSatisfied` | `ExitsSatisfied`, of the Swarm | one thread |
| `QuietSwarmProofs` | `RequestsInStep` | `InStep` | quiet peers |
| | `NoWrongReply` | no step is a `WrongReply` | quiet peers |
| `TransferProofs` | `LengthsTrue` | `LengthIsTrue` | |
| | `BuffersFilled` | `BufferIsFilled` | |
| | `PieceRight` | `PieceIsTheFiles` | |
| | `RejectsRight` | `RejectsOnlyOthers` | |
| `SocketTableProofs` | `SharedByOpening` | `AliasedByOpening` | |
| `BencodeProofs` | `DecodeInverts` | decoding inverts encoding, for every dictionary | `EncodeCalls`, `DecodeCalls` |
| | `DecodeOrderly` | what decoding any text can come to | `DecodeCalls` |
| `MetainfoProofs` | `CodecKept` | `CodecInverts` | `IsCodec`, `AuthoredTrees` |
| | `TorrentParsed` | `TorrentIsTheFiles` | the same |
| | `CutFilesRejected` | `TruncatedRejected` | the same |
| | `PeersRight` | `PeersAreTheTrackers` | the same |
| | `HashesRight` | `HashForEveryPiece` | the same |
| `ClientProofs` | `NoHoles` | `FileIsPrefix` | |
| | `SavedWhenReported` | `SavedOnSuccess` | |

Each holds for every value of the constants that its module's `ASSUME` allows;
apart from the hypotheses named here the proofs assume nothing else. The
hypotheses are needed: OrchestratorGrab refutes `ClaimedOnce` where peers lack
pieces, and with two threads the races of peek, pop and skip break
`ExitsSatisfied`. Quiet peers have every piece, stay, send nothing unasked but
keep-alives, and may answer with corrupt or short blocks (`Quiet`); which messages
their threads take for keep-alives is left open. A Choke or a Have in the
download loop takes the place of a reply and puts the conversation out of step
for good (`SwarmLag`); a bitfield that is not complete does it too, because the
piece popped need not be the one peeked, and a peer does not answer for a piece
it lacks.

The hypotheses of the codec say which functions it is made of, not what they do.
`EncodeCalls` and `DecodeCalls` are the definitions of Bencode written as
equations: what encoding a value, decoding at a position or a turn of a loop does
is one call of BencodeCalls, which makes the others. They have to be hypotheses
because the prover takes no recursive operator; and they are stated only where
the recursion ends: for values that are finite trees (`IsTree`), and for sets of
positions inside the text, which a call or a turn enlarges until one recurs.
`IsCodec` adds that parser and tracker client call this codec, as MCMetainfo has
it. `AuthoredTrees` says that torrents are values that the code's types can hold
(`bencode.h:13-21`): TLC checks it of the run's torrents (`TorrentsAreTrees`).
Integers and the lengths of strings are unbounded in all of this; the code's have
64 and, through `stoi`, 32 bits.

**Orchestrator.** None of the properties is inductive. `IInv` adds to
`TypeOK` that a thread runs from its spawn on (`ThreadsRun`: so a spawn does not
reset a thread that holds a piece), that a thread that has not ended has skips
left (`SkipsLeft`: so its counter stays in range), and that after the join every
thread has ended (`JoinedThreads`). The proof that each action keeps it goes
coordinator, setup, loop, with one step per action.

*Pieces kept.* Three lemmas about the queue (`PushQueued`, `FrontIsPiece`,
`PopQueued`) say what an entry's fate is in each operation; `PutsBack` and
`TakesFront` combine them with the locals of the thread that acts. `MissingQueued`
follows: at the return no thread holds anything.

*Entries bounded.* `SkipPop` on an emptied queue is the one step that raises the
sum of entries and holders. It needs a queue with no entry and a thread that
holds none, so the sum is then below the number of threads, which `Spawn` keeps
at most `MaxThreads` (`FiniteThreads`, `NextThreadsBounded`).

*Claims exclusive.* With complete bitfields no thread ever misses, so no thread
skips (`NextNeverSkips`); then the queue has no duplicates, and pieces queued,
held and stored are disjoint (`ClaimInv`), which every pop and push keeps.

*A single thread.* With nobody else at the queue, peek and pop see the same
front (`InTurn`), and the entries never outnumber the pieces (`Fits`). The last
`skip_count` entries of the queue are ones the peer lacks (`Rear`): a skip turns
the queue by one and a hit resets the counter. When the counter passes
`num_pieces` they are the whole queue, so by `NoPieceLost` what the peer has is
stored.

**Swarm.** Each action of the wire is shown to be an action of the Orchestrator
with every fault allowed, or a stutter (`StepAllowed`, one lemma per group of
actions). Three things are not local to a step. A Bitfield that is handled in a
setup loop must be one its peer may send: all that are under way are
(`Greeted`). A Have must not set a bit before there is a bitfield: until the
first one is read its size is 0 (`Unheard`). And what is under way has the types
the actions rely on (`SwarmTypeOK`, `PeerType`, `StepsFit`), which rests on the
types of the Orchestrator's variables; so `WireInv` and the Orchestrator's `IInv`
are carried through the steps together (`NextWire`). The instance of the proof
module, with `FaultKinds` for `Faults`, then gives its theorems for the Swarm.
`StoredGenuine` needs of all this only that the thread that stores holds a piece.

**Quiet peers.** `InStep` says what is owed while a block is awaited and between
blocks; it becomes inductive with what comes before them (`QuietAt`). Any message
may be dropped, so a thread may never get past the setup; but if it does, nothing
is left over from it. At most one Bitfield and one Unchoke are ever under way,
and none before it was sent (`AtMostOne`, `SetupInStep`); a thread leaves the
first loop with the one and the second with the other, so that nothing but
keep-alives can come before the first reply. From then on at most one message
that is not a keep-alive is under way or a request is, never both; and when a
reply is dropped nothing is owed any more, and nothing more is asked for
(`ThreadInStep`). This leans on the types of what is under way, so `QuietInv` is
carried through the steps together with `WireInv` and the Orchestrator's `IInv`.
Messages are counted as sets of places in the stream, of which a read removes the
first and a send adds the last (`ReadPlaces`, `SayPlaces`, `ReadOthers`,
`SayOthers`).

**PieceGeometry** (in TransferProofs). The remainders of the wrapping product and
of the difference differ by a multiple of the word, and the true length is below
the word if hashes and length agree (`LengthComputed`). The blocks taken so far
cover the buffer from its start (`BlocksAreBeginning`), the last one being cut to
what is left, for any length whose blocks can be counted; products are named and
only their bounds are used. `GeometryInv` holds of Transfer too, whose steps leave
its variables alone or are its own; there hashes and length agree (`WellFormed`).

**Transfer.** The stream that is still to be read is whole messages one after the
other (`Framed`), of which the last may lack its end when the peer has hung up. A
client that is about to read a length stands where a message begins
(`Standing`); while it reads a body, what it has and what is still to come are
together the message (`Current`), however the stream is cut into segments. At
most one answer is under way, and it is the one to the block that is awaited
(`Aligned`): a peer answers a request once, and a block is asked for only after
the last one has been taken. So `TakeBlock` copies bytes of the block it
asked for, and `Assembled` grows by them: the buffer holds the piece's bytes up
to the block that is awaited. Taking a number apart into four bytes and putting it
together again yields it for numbers of four bytes (`FourBytes`), as which the
assumptions declare words, indices and the lengths of messages; no message that
was not asked for has the id of a piece.

**SocketTable.** Only `OpenSocket` gives out a number; every other action takes
numbers away (`NoSharingAnew`), and a thread opens one socket. Nothing is proved
of what is shared by then: such a number can still close another thread's socket.

**Codec.** Induction over numbers is derived from sets: a set of numbers that
holds a number whenever it holds all that are less holds every number
(`AllNumbers`). The text that is decoded agrees with the whole encoding as far as
it goes, and it may end early, though not inside a length (`IsCut`). Then the
claim for a value at a position (`Reads`) is that decoding gives the value and
the position after it if the text goes that far (`Fits`); if it does not,
decoding fails or goes on at position 0 or one past the end (`Dead`), because
what is missing is a terminator, or contents that may end in the zero past the
text. That cannot be claimed to fail: the jump to 0 is a legal return. But
the loop that made the call is then back at the `d` the text begins with and
fails: a list finds a dictionary whose decoding is in progress, for a dictionary
`d` is not the length of a key (`StuckItems`, `StuckEntries`). Numerals are read
back as the numbers they were written for (`Decimal`, `Stoi`, `Number`), and no
digit is a `:` or an `e`, so `find` stops where the numeral ends. The claim for a value follows
from the claims for the values in it (`Meets`, and the two loops by induction on
the items that are left), so for all by induction on depth (`AllRead`). That keys
come back under their names, whatever the order of the map writes them in, is
`Sorted` being a numbering of them. `DecodeOrderly` is about any text, so it
cannot go by the value: it goes by the positions that are not in progress yet,
which a call or a turn makes one less (`Left`, `OneLess`).

**Metainfo.** `MetaInv` follows the two texts from what was sent to what the
program keeps. Two things need an argument. What the parser reads by `operator[]`
is what its author wrote because no key that is asked for is missing
(`AllAccessed`), and a value that is missing has the wrong type
(`AccessedOther`); so the dictionary that is hashed is the one in the file
(`FileParsed`). And cutting a string into parts and putting parts together are
inverse to each other for any sizes (`JoinedCut`, `CutJoined`), while the byte
that completes the last hash leaves the others as they are (`WholePart`): a
position below m parts lies in one part at one place (`Place`).

**Client.** While the file is written, the disk and the stream's buffer together
hold the bytes of the pieces below the loop counter, in order, and the buffer no
more of them than it may (`HalfWritten`). A flush that does not fit leaves a
beginning of them (`FlushKeepsOrder`).

**Only model-checked**: liveness (`SurvivorsEnd`, `HealthyCompletes`,
`SwarmCompletes`), which the prover cannot do. That the recursive operators TLC
runs satisfy `EncodeCalls` and `DecodeCalls` is how Bencode defines them.

## 5. What is not modelled

- Extension protocol and magnet links: the functions are stubs that return empty
  results, and nothing calls them.
- SHA-1 and libcurl: external. SHA-1 is collision-free, the HTTP exchange an
  outcome.
- A `send` that writes part of what it was given (it is treated as an error by
  the code, as a failing one is).
- Memory: a message's length is allocated as it comes from the wire.
- The spelling of the tracker's URL and the peer id; overflow of decoded
  integers.
- Metadata whose length and hashes disagree, over the wire: PieceGeometry and its
  theorems have them, Transfer starts from a torrent that is well formed. Pieces within 16 KB of 4 GB.
- The info hash of a torrent of several files, which is wrong.

## 6. Plan

All the modules planned are written, and every invariant and refinement that a
passing run checks is proved. What is left:

1. The download of a torrent whose metadata disagree, with the outcome of the
   allocation.
2. `RequestsInStep` under the weaker hypothesis that a thread pops only pieces
   its peer has.
3. The codec with the code's widths: what `to_string` and `stoi` do with lengths
   of more than 31 bits and `decode_integer` with integers of more than 64.

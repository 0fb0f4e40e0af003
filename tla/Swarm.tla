------------------------------- MODULE Swarm -------------------------------
(***************************************************************************)
(* The orchestrator of module Orchestrator with the conversations of       *)
(* peer_connect.cpp in place of their abstract outcomes: the messages each *)
(* peer sends over its TCP connection, receive_message, handle_message,    *)
(* send_message, send_request and download_piece block by block.           *)
(*                                                                         *)
(* The actions of the queue and of the coordinator are those of the        *)
(* Orchestrator.  What a thread does with its connection is written here   *)
(* from the code, and RefinesOrchestrator says that it is nothing the      *)
(* Orchestrator does not allow.  There, link[w] = "down" means that the    *)
(* thread has closed the socket after an error; receive_message and        *)
(* send_message do so, and every later call on the connection fails.       *)
(***************************************************************************)
EXTENDS Orchestrator

CONSTANTS
    NumBlocks,     \* blocks per piece, ceil(piece_length / 16384)
    Quirks,        \* what a peer may do besides answering: see QuirkKinds
    MaxChatter     \* bound: how many unsolicited messages a peer sends

\* "have", "choke", "keepalive": the peer sends such messages on its own.
\* "again":   the peer sends further bitfields.
\* "brief":   a bitfield may have fewer bits than there are pieces.
\* "bare":    the peer sends no bitfield (it need not when it has no piece).
\* "corrupt": a block may carry wrong bytes.
\* "short":   a block may carry fewer bytes than were requested.
\* "split":   TCP may deliver the length of a message in pieces.
QuirkKinds == {"have", "choke", "keepalive", "again", "brief", "bare",
               "corrupt", "short", "split"}

ASSUME SwarmAssumption ==
    /\ NumBlocks \in Nat \ {0}
    /\ Quirks \subseteq QuirkKinds
    /\ MaxChatter \in Nat

VARIABLES
    step,          \* step[w]: the call in progress inside an Orchestrator step
    block,         \* block[w]: the loop counter of download_piece
    piece_data,    \* piece_data[w]: the buffer of download_piece, by block
    stored,        \* the entries of the result vector, by block
    peer_choking,  \* peer_choking[w]: conn.peer_choking
    bitfield_size, \* bitfield_size[w]: conn.bitfield.size(), up to num_pieces
    inbox,         \* inbox[w]: messages from the peer, in TCP order
    asked,         \* asked[w]: requests the peer has not dealt with yet
    peer,          \* peer[w]: the state of the peer itself (external)
    killed         \* the process has died of a signal

heard    == <<peer_choking, bitfield_size>>
wireVars == <<step, block, piece_data, stored, heard, inbox, asked, peer,
              killed>>
swarmVars == <<vars, wireVars>>

Blocks == 0 .. NumBlocks - 1

\* Contents of a block: the bytes of block b of piece p, or something else.
Genuine(p, b) == <<p, b>>
Unset   == <<NumPieces, 0>>   \* the zero bytes the buffer starts with
Corrupt == <<NumPieces, 1>>
Short   == <<NumPieces, 2>>   \* a payload shorter than the requested length

Contents == {Genuine(p, b) : p \in Pieces, b \in Blocks}
            \cup {Unset, Corrupt, Short}

EmptyPiece      == [b \in Blocks |-> Unset]
GenuinePiece(p) == [b \in Blocks |-> Genuine(p, b)]

Plain(id)       == [id |-> id]
HaveMsg(p)      == [id |-> "Have", piece |-> p]
PieceMsg(r, d)  == [id |-> "Piece", request |-> r, data |-> d]

\* n bits, of which those of the pieces in s are set.
BitfieldMsg(s, n) == [id |-> "Bitfield", pieces |-> s, size |-> n]

Bitfields(sets, sizes) == {m \in {BitfieldMsg(s, n) : s \in sets, n \in sizes} :
                               \A p \in m.pieces : p < m.size}

Messages == {Plain(id) : id \in {"KeepAlive", "Choke", "Unchoke"}}
            \cup Bitfields(SUBSET Pieces, 0 .. NumPieces)
            \cup {HaveMsg(p) : p \in Pieces}
            \cup {PieceMsg(r, d) : r \in Pieces \X Blocks, d \in Contents}

SwarmInit ==
    /\ Init
    /\ step = [w \in Peers |-> "idle"]
    /\ block = [w \in Peers |-> 0]
    /\ piece_data = [w \in Peers |-> EmptyPiece]
    /\ stored = [p \in Pieces |-> EmptyPiece]
    /\ peer_choking = [w \in Peers |-> TRUE]
    /\ bitfield_size = [w \in Peers |-> 0]
    /\ inbox = [w \in Peers |-> <<>>]
    /\ asked = [w \in Peers |-> <<>>]
    /\ peer = [w \in Peers |-> [open |-> TRUE, spoken |-> FALSE,
                                unchoking |-> FALSE, has |-> {},
                                chatter |-> 0]]
    /\ killed = FALSE

-----------------------------------------------------------------------------
(* The peer at the other end, as far as the code relies on it. *)

Connected(w) == /\ pc[w] \notin {"unborn", "connect", "handshake", "exit"}
                /\ link[w] = "up"
                /\ peer[w].open
                /\ ~killed

Say(w, m) == inbox' = [inbox EXCEPT ![w] = Append(@, m)]

PeerUnchanged == UNCHANGED <<vars, step, block, piece_data, stored, heard,
                             killed>>

\* What the peer may send as its bitfield.
Sizes == IF "brief" \in Quirks THEN 0 .. NumPieces ELSE {NumPieces}

Greetings(w) == Bitfields(Advertises[w], Sizes)

Greet(w) ==
    /\ Connected(w) /\ ~peer[w].spoken
    /\ \E m \in Greetings(w) :
          /\ Say(w, m)
          /\ peer' = [peer EXCEPT ![w].spoken = TRUE, ![w].has = m.pieces]
    /\ PeerUnchanged /\ UNCHANGED asked

Unchoke(w) ==
    /\ Connected(w) /\ ~peer[w].unchoking
    /\ peer[w].spoken \/ "bare" \in Quirks
    /\ Say(w, Plain("Unchoke"))
    /\ peer' = [peer EXCEPT ![w].spoken = TRUE, ![w].unchoking = TRUE]
    /\ PeerUnchanged /\ UNCHANGED asked

\* Unsolicited messages.  A peer that chokes ignores what was requested.
Chat(w) ==
    /\ Connected(w) /\ peer[w].chatter < MaxChatter
    /\ \/ /\ "keepalive" \in Quirks
          /\ Say(w, Plain("KeepAlive"))
          /\ peer' = [peer EXCEPT ![w].chatter = @ + 1]
       \/ /\ "choke" \in Quirks
          /\ peer[w].unchoking
          /\ Say(w, Plain("Choke"))
          /\ peer' = [peer EXCEPT ![w].chatter = @ + 1,
                                  ![w].unchoking = FALSE]
       \/ /\ "again" \in Quirks
          /\ peer[w].spoken
          /\ \E m \in Greetings(w) :
                /\ Say(w, m)
                /\ peer' = [peer EXCEPT ![w].chatter = @ + 1,
                                        ![w].has = m.pieces]
       \/ /\ "have" \in Quirks
          /\ peer[w].spoken \/ "bare" \in Quirks
          /\ \E p \in Pieces \ peer[w].has :
                /\ Say(w, HaveMsg(p))
                /\ peer' = [peer EXCEPT ![w].chatter = @ + 1,
                                        ![w].spoken = TRUE,
                                        ![w].has = @ \cup {p}]
    /\ PeerUnchanged /\ UNCHANGED asked

MaySend(r) == {Genuine(r[1], r[2])}
              \cup (IF "corrupt" \in Quirks THEN {Corrupt} ELSE {})
              \cup (IF "short" \in Quirks THEN {Short} ELSE {})

\* Requests are dealt with in order: answered, or ignored by a peer that
\* chokes or lacks the piece.
Answer(w) ==
    /\ Connected(w) /\ asked[w] # <<>>
    /\ LET r == Head(asked[w])
       IN IF peer[w].unchoking /\ r[1] \in peer[w].has
          THEN \E d \in MaySend(r) : Say(w, PieceMsg(r, d))
          ELSE UNCHANGED inbox
    /\ asked' = [asked EXCEPT ![w] = Tail(@)]
    /\ PeerUnchanged /\ UNCHANGED peer

\* The peer ends the connection; what it has sent can still be read.
HangUp(w) ==
    /\ "drop" \in Faults
    /\ Connected(w)
    /\ peer' = [peer EXCEPT ![w].open = FALSE]
    /\ asked' = [asked EXCEPT ![w] = <<>>]
    /\ PeerUnchanged /\ UNCHANGED inbox

-----------------------------------------------------------------------------
(* receive_message.  It never assigns msg.length for a message that has a  *)
(* body, so the callers' test "msg.length == 0" reads whatever the memory  *)
(* held: any message may be dropped as if it were a keep-alive.            *)

Listening(w) == /\ ~killed
                /\ \/ pc[w] = "await_bitfield"
                   \/ pc[w] = "await_unchoke" /\ step[w] = "idle"
                   \/ pc[w] = "download" /\ step[w] = "reply"

Message(w) == Head(inbox[w])

Receive(w) == /\ Listening(w)
              /\ link[w] = "up"
              /\ inbox[w] # <<>>
              /\ inbox' = [inbox EXCEPT ![w] = Tail(@)]

\* Mutant: a keep-alive is handed to the caller like any other message.
DeliveredAlways(w) == TRUE

\* The message is acted upon: its length does not read 0.
Delivered(w) == Message(w).id # "KeepAlive"

\* The message is taken for a keep-alive: the caller sleeps and reads again.
SkipMessage(w) ==
    /\ Receive(w)
    /\ UNCHANGED <<vars, step, block, piece_data, stored, heard, asked, peer,
                   killed>>

\* The read fails, or yields less than a length: the socket is closed, the
\* message returned is garbage.  Module Transfer has the bytes.
LoseConnection(w) ==
    /\ Listening(w)
    /\ link[w] = "up"
    /\ \/ inbox[w] = <<>> /\ ~peer[w].open
       \/ inbox[w] # <<>> /\ "split" \in Quirks
    /\ link' = [link EXCEPT ![w] = "down"]
    /\ UNCHANGED <<coordinator, pc, bitfield, loopLocals, shared, wireVars>>

(* handle_message.  A Have for a piece past the end of the bitfield, which *)
(* has no bits before the first Bitfield, is ignored.                      *)

HandleMessage(w, m) ==
    /\ peer_choking' = [peer_choking EXCEPT ![w] =
           m.id = "Choke" \/ (m.id # "Unchoke" /\ @)]
    /\ bitfield_size' = [bitfield_size EXCEPT ![w] =
           IF m.id = "Bitfield" THEN m.size ELSE @]
    /\ bitfield' = [bitfield EXCEPT ![w] =
           IF m.id = "Bitfield" THEN m.pieces
           ELSE IF m.id = "Have" /\ m.piece < bitfield_size[w]
           THEN @ \cup {m.piece} ELSE @]

-----------------------------------------------------------------------------
(* peer_worker: the two receive loops, with send_message in between *)

SetUnchanged == UNCHANGED <<block, piece_data, stored, asked, peer, killed>>

ReceiveBitfield(w) ==
    /\ pc[w] = "await_bitfield"
    /\ Receive(w) /\ Delivered(w)
    /\ HandleMessage(w, Message(w))
    /\ IF Message(w).id = "Bitfield"
       THEN Goto(w, "await_unchoke") /\ step' = [step EXCEPT ![w] = "interested"]
       ELSE UNCHANGED <<pc, step>>
    /\ SetUnchanged
    /\ UNCHANGED <<coordinator, link, loopLocals, shared>>

ReceiveUnchoke(w) ==
    /\ pc[w] = "await_unchoke"
    /\ Receive(w) /\ Delivered(w)
    /\ HandleMessage(w, Message(w))
    /\ IF Message(w).id = "Unchoke" THEN Goto(w, "peek") ELSE UNCHANGED pc
    /\ SetUnchanged
    /\ UNCHANGED <<coordinator, link, loopLocals, shared, step>>

\* Garbage from a closed socket: it may pass for the message awaited (an
\* Unchoke, or a Bitfield without a payload), after others that only choked
\* or unchoked.
ReceiveGarbage(w) ==
    /\ Listening(w)
    /\ ReadGarbage(w)
    /\ step' = [step EXCEPT ![w] =
           IF pc[w] = "await_bitfield" THEN "interested" ELSE "idle"]
    /\ \E choked \in BOOLEAN :
          peer_choking' = [peer_choking EXCEPT ![w] =
                               choked /\ pc'[w] # "peek"]
    /\ bitfield_size' = [bitfield_size EXCEPT ![w] =
           IF pc'[w] = "peek" THEN @ ELSE 0]
    /\ SetUnchanged /\ UNCHANGED inbox

\* send: on a closed socket it fails.  When the peer has hung up the bytes
\* are lost, or it fails and the socket is closed, or SIGPIPE, which nothing
\* in the program handles, ends the process.
Send(w, delivered) ==
    IF link[w] = "down" THEN UNCHANGED <<link, asked, killed>>
    ELSE IF peer[w].open THEN delivered /\ UNCHANGED <<link, killed>>
    ELSE /\ \/ UNCHANGED <<link, killed>>
            \/ link' = [link EXCEPT ![w] = "down"] /\ UNCHANGED killed
            \/ killed' = TRUE /\ UNCHANGED link
         /\ UNCHANGED asked

SendInterested(w) ==
    /\ ~killed
    /\ step[w] = "interested"
    /\ Send(w, UNCHANGED asked)
    /\ step' = [step EXCEPT ![w] = "idle"]
    /\ UNCHANGED <<coordinator, pc, bitfield, loopLocals, shared, block,
                   piece_data, stored, heard, inbox, peer>>

-----------------------------------------------------------------------------
(* download_piece *)

\* Called with the piece just popped.
StartPiece(w) ==
    /\ ~killed
    /\ PopFront(w)
    /\ step' = [step EXCEPT ![w] = "request"]
    /\ block' = [block EXCEPT ![w] = 0]
    /\ piece_data' = [piece_data EXCEPT ![w] = EmptyPiece]
    /\ UNCHANGED <<stored, heard, inbox, asked, peer, killed>>

Request(w) == <<piece_index[w], block[w]>>

\* Nothing here looks at conn.peer_choking.
SendRequest(w) ==
    /\ ~killed
    /\ pc[w] = "download" /\ step[w] = "request"
    /\ Send(w, asked' = [asked EXCEPT ![w] = Append(@, Request(w))])
    /\ step' = [step EXCEPT ![w] = "reply"]
    /\ UNCHANGED <<coordinator, pc, bitfield, loopLocals, shared, block,
                   piece_data, stored, heard, inbox, peer>>

Matches(w) == /\ Message(w).id = "Piece"
              /\ Message(w).request = Request(w)

\* Mutant: the piece that failed is not put back.
GiveBackForgets(w) == /\ Goto(w, "peek")
                      /\ step' = [step EXCEPT ![w] = "idle"]
                      /\ block' = [block EXCEPT ![w] = 0]
                      /\ piece_data' = [piece_data EXCEPT ![w] = EmptyPiece]
                      /\ UNCHANGED <<shared, stored>>

\* Back in peer_worker with an empty vector: the piece is put back.
GiveBack(w) == /\ Push(piece_index[w])
               /\ Goto(w, "peek")
               /\ step' = [step EXCEPT ![w] = "idle"]
               /\ block' = [block EXCEPT ![w] = 0]
               /\ piece_data' = [piece_data EXCEPT ![w] = EmptyPiece]
               /\ UNCHANGED <<results, stored>>

\* Whatever arrives instead of the block awaited fails the piece, and is not
\* passed to handle_message.
WrongReply(w) ==
    /\ pc[w] = "download"
    /\ Receive(w) /\ Delivered(w)
    /\ ~Matches(w)
    /\ GiveBack(w)
    /\ UNCHANGED <<coordinator, conversation, loopLocals, heard, asked,
                   peer, killed>>

GarbageReply(w) ==
    /\ Listening(w)
    /\ pc[w] = "download"
    /\ link[w] = "down"
    /\ GiveBack(w)
    /\ UNCHANGED <<coordinator, conversation, loopLocals, heard, inbox,
                   asked, peer, killed>>

\* The block as memcpy puts it into the buffer: a short payload is read past
\* its end.
Copied(d) == IF d = Short THEN Corrupt ELSE d

\* Mutant: the loop asks for one block too many.
NextBlockBeyond(w) ==
    /\ pc[w] = "download"
    /\ block[w] + 1 <= NumBlocks
    /\ Receive(w) /\ Delivered(w)
    /\ Matches(w)
    /\ piece_data' = [piece_data EXCEPT ![w][block[w]] = Copied(Message(w).data)]
    /\ block' = [block EXCEPT ![w] = @ + 1]
    /\ step' = [step EXCEPT ![w] = "request"]
    /\ UNCHANGED <<vars, stored, heard, asked, peer, killed>>

NextBlock(w) ==
    /\ pc[w] = "download"
    /\ block[w] + 1 < NumBlocks
    /\ Receive(w) /\ Delivered(w)
    /\ Matches(w)
    /\ piece_data' = [piece_data EXCEPT ![w][block[w]] = Copied(Message(w).data)]
    /\ block' = [block EXCEPT ![w] = @ + 1]
    /\ step' = [step EXCEPT ![w] = "request"]
    /\ UNCHANGED <<vars, stored, heard, asked, peer, killed>>

Assembled(w) == [piece_data[w] EXCEPT ![block[w]] = Copied(Message(w).data)]

\* Mutant: the assembled piece is returned without its hash being compared.
LastBlockUnverified(w) ==
    /\ pc[w] = "download"
    /\ block[w] + 1 = NumBlocks
    /\ Receive(w) /\ Delivered(w)
    /\ Matches(w)
    /\ stored' = [stored EXCEPT ![piece_index[w]] = Assembled(w)]
    /\ results' = results \cup {piece_index[w]}
    /\ Goto(w, "peek")
    /\ step' = [step EXCEPT ![w] = "idle"]
    /\ block' = [block EXCEPT ![w] = 0]
    /\ piece_data' = [piece_data EXCEPT ![w] = EmptyPiece]
    /\ UNCHANGED piece_queue
    /\ UNCHANGED <<coordinator, conversation, loopLocals, heard, asked,
                   peer, killed>>

\* The last block: the SHA-1 of the buffer is that of the piece only if every
\* block is the genuine one; then peer_worker stores it.
LastBlock(w) ==
    /\ pc[w] = "download"
    /\ block[w] + 1 = NumBlocks
    /\ Receive(w) /\ Delivered(w)
    /\ Matches(w)
    /\ IF Assembled(w) = GenuinePiece(piece_index[w])
       THEN /\ stored' = [stored EXCEPT ![piece_index[w]] = Assembled(w)]
            /\ results' = results \cup {piece_index[w]}
            /\ Goto(w, "peek")
            /\ step' = [step EXCEPT ![w] = "idle"]
            /\ block' = [block EXCEPT ![w] = 0]
            /\ piece_data' = [piece_data EXCEPT ![w] = EmptyPiece]
            /\ UNCHANGED piece_queue
       ELSE GiveBack(w)
    /\ UNCHANGED <<coordinator, conversation, loopLocals, heard, asked,
                   peer, killed>>

\* Reading past the end of a short payload may also end the process.
Overread(w) ==
    /\ pc[w] = "download"
    /\ Receive(w) /\ Delivered(w)
    /\ Matches(w)
    /\ Message(w).data = Short
    /\ killed' = TRUE
    /\ UNCHANGED <<vars, step, block, piece_data, stored, heard, asked,
                   peer>>

-----------------------------------------------------------------------------
QueueSteps(w) == PeekEmpty(w) \/ PeekMiss(w) \/ PeekHit(w) \/ SkipPop(w)
                 \/ SkipPush(w) \/ PopEmpty(w)

\* The steps of the Orchestrator in which no connection is used.
ThreadAlone(w) == /\ ~killed
                  /\ Connect(w) \/ Handshake(w) \/ QueueSteps(w)
                  /\ UNCHANGED wireVars

Coordinator == /\ ~killed
               /\ BeginJoin \/ Return \/ \E w \in Peers : Spawn(w)
               /\ UNCHANGED wireVars

DownloadPiece(w) == StartPiece(w) \/ SendRequest(w) \/ WrongReply(w)
                    \/ GarbageReply(w) \/ NextBlock(w) \/ LastBlock(w)

Converse(w) == SkipMessage(w) \/ LoseConnection(w) \/ ReceiveBitfield(w)
               \/ ReceiveUnchoke(w) \/ ReceiveGarbage(w) \/ SendInterested(w)

PeerStep(w) == Greet(w) \/ Unchoke(w) \/ Chat(w) \/ Answer(w) \/ HangUp(w)

\* The process has died, or download_all_pieces has returned.
Over == (killed \/ main = "returned") /\ UNCHANGED swarmVars

SwarmNext == \/ Coordinator
             \/ \E w \in Peers : \/ ThreadAlone(w) \/ Converse(w)
                                 \/ DownloadPiece(w) \/ Overread(w)
                                 \/ PeerStep(w)
             \/ Over

SwarmSpec == SwarmInit /\ [][SwarmNext]_swarmVars

(***************************************************************************)
(* Fairness: threads run while their connections last; a peer greets,      *)
(* unchokes the client sooner or later whenever it chokes it, and deals    *)
(* with the requests it has.  Nothing obliges a peer to chat, to stay or   *)
(* to send what was asked for, or a message to be read as one.             *)
(***************************************************************************)
SwarmLiveSpec ==
    /\ SwarmSpec
    /\ WF_swarmVars(Coordinator)
    /\ \A w \in Peers :
          /\ WF_swarmVars(ThreadAlone(w))
          /\ WF_swarmVars(link[w] = "up" /\ (Converse(w) \/ DownloadPiece(w)))
          /\ WF_swarmVars(Greet(w))
          /\ WF_swarmVars(Unchoke(w))
          /\ WF_swarmVars(Answer(w))

-----------------------------------------------------------------------------
(* Properties *)

\* The connection's state has the values its declarations allow, and no bit is
\* set past the end of the bitfield.
SwarmTypeOK ==
    /\ step \in [Peers -> {"idle", "interested", "request", "reply"}]
    /\ \A w \in Peers : pc[w] = "download" <=> step[w] \in {"request", "reply"}
    /\ block \in [Peers -> Blocks]
    /\ piece_data \in [Peers -> [Blocks -> Contents \ {Short}]]
    /\ stored \in [Pieces -> [Blocks -> Contents \ {Short}]]
    /\ peer_choking \in [Peers -> BOOLEAN]
    /\ bitfield_size \in [Peers -> 0 .. NumPieces]
    /\ \A w \in Peers : \A p \in bitfield[w] : p < bitfield_size[w]
    /\ inbox \in [Peers -> Seq(Messages)]
    /\ asked \in [Peers -> Seq(Pieces \X Blocks)]
    /\ killed \in BOOLEAN

\* Whatever the peers send, in whatever order, and however late, an entry of
\* the result vector is filled only with the genuine blocks of its own piece
\* ("SHA-1 hash the buffer ... If not -> data was corrupted, discard").
StoredIsGenuine ==
    \A p \in Pieces : stored[p] = IF p \in results THEN GenuinePiece(p)
                                                   ELSE EmptyPiece

\* The Orchestrator whose peers may fail in every way.
Abstract == INSTANCE Orchestrator WITH Faults <- FaultKinds

\* What the threads do with their connections is what the Orchestrator allows.
RefinesOrchestrator == Abstract!Spec

Replies(w) == {k \in DOMAIN inbox[w] : inbox[w][k].id # "KeepAlive"}

NothingOwed(w) == asked[w] = <<>> /\ Replies(w) = {}

BlockOwed(w) ==
    \/ asked[w] = <<Request(w)>> /\ Replies(w) = {}
    \/ asked[w] = <<>> /\ \E k \in DOMAIN inbox[w] :
                              /\ Replies(w) = {k}
                              /\ inbox[w][k].id = "Piece"
                              /\ inbox[w][k].request = Request(w)

\* A peer that never speaks out of turn owes a thread that waits for a block
\* exactly that block, as the request or as the reply, or nothing, when the
\* reply was taken for a keep-alive; and it owes nothing to any other thread.
\* So what the unassigned length does to a reply never puts requests and
\* replies out of step, nor do blocks that fail their piece.
InStep ==
    ~killed => \A w \in Peers :
        /\ step[w] = "reply" => BlockOwed(w) \/ NothingOwed(w)
        /\ step[w] = "request" => NothingOwed(w)
        /\ pc[w] \in {"peek", "pop", "skip_pop", "skip_push"} => NothingOwed(w)

\* w waits for a message that it has taken for a keep-alive: everything the
\* peer had to say has been read.
Deaf(w) == /\ Listening(w)
           /\ peer[w].spoken /\ peer[w].unchoking
           /\ inbox[w] = <<>> /\ asked[w] = <<>>

\* A block with other bytes than the torrent's is on its way to w.
Spoiled(w) == \E k \in DOMAIN inbox[w] :
                  /\ inbox[w][k].id = "Piece"
                  /\ inbox[w][k].data # Genuine(inbox[w][k].request[1],
                                               inbox[w][k].request[2])

\* The download completes, unless a thread for ever waits for a message it has
\* dropped or a peer for ever sends spoiled blocks.
SwarmCompletes == \/ <>(main = "returned" /\ results = Pieces)
                  \/ \E w \in Peers : <>[]Deaf(w) \/ []<>Spoiled(w)
=============================================================================

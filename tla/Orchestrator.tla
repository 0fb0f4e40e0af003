---------------------------- MODULE Orchestrator ----------------------------
(***************************************************************************)
(* The download orchestrator of orchestrate_peer.cpp: download_all_pieces  *)
(* fills one PieceQueue with every piece index, spawns one thread per peer *)
(* (at most five) that runs peer_worker, and joins them.  The threads      *)
(* share the queue, each of whose operations locks the queue's mutex, and  *)
(* the result vector, which is written under results_mutex.                *)
(*                                                                         *)
(* One step of a thread is what the code does up to and including its next *)
(* access to shared state, so every interleaving of the mutex-protected    *)
(* operations is a behaviour.  The conversation with the peer is abstract  *)
(* here (a connection, a bitfield, the outcome of download_piece); module  *)
(* Swarm has its messages and implements this specification.               *)
(***************************************************************************)
EXTENDS Integers, Sequences, FiniteSets

CONSTANTS
    Peers,       \* the peers the tracker returned
    MaxThreads,  \* how many of them get a thread (5 in the code)
    NumPieces,   \* metadata.num_pieces
    Advertises,  \* Advertises[w]: the bitfields peer w may send
    Faults       \* what may go wrong: a subset of FaultKinds

Pieces == 0 .. NumPieces - 1

\* "refuse": connect_to_peer or perform_handshake fails.
\* "drop":   the connection is lost after the handshake.
\* "block":  download_piece fails on a live connection (unexpected message,
\*           wrong block, hash mismatch).
FaultKinds == {"refuse", "drop", "block"}

ASSUME OrchestratorAssumption ==
    /\ IsFiniteSet(Peers)
    /\ MaxThreads \in Nat
    /\ NumPieces \in Nat
    /\ Advertises \in [Peers -> SUBSET SUBSET Pieces]
    /\ Faults \subseteq FaultKinds

VARIABLES
    main,         \* where download_all_pieces is
    threads,      \* the peers whose thread has been spawned
    pc,           \* pc[w]: where the thread of peer w is
    link,         \* link[w]: "down" once the connection of w is lost
    bitfield,     \* bitfield[w]: the pieces set in conn.bitfield
    piece_index,  \* piece_index[w]: the local variable of peer_worker
    skip_count,   \* skip_count[w]: likewise
    piece_queue,  \* the shared PieceQueue
    results       \* the pieces whose entry of the result vector is filled

vars == <<main, threads, pc, link, bitfield, piece_index, skip_count,
          piece_queue, results>>

conversation == <<link, bitfield>>
loopLocals   == <<piece_index, skip_count>>
shared       == <<piece_queue, results>>
coordinator  == <<main, threads>>

Labels == {"unborn", "connect", "handshake", "await_bitfield",
           "await_unchoke", "peek", "skip_pop", "skip_push", "pop",
           "download", "exit"}

-----------------------------------------------------------------------------
(* The class PieceQueue: each operation runs under its mutex, so it is one *)
(* step.  pop and peek return false on an empty queue and then leave their *)
(* output argument alone.                                                  *)

Queued(p) == \E i \in 1 .. Len(piece_queue) : piece_queue[i] = p

Push(p) == piece_queue' = Append(piece_queue, p)

QueueIsEmpty == piece_queue = <<>>

Peek(w) == piece_index' = [piece_index EXCEPT ![w] = Head(piece_queue)]

Pop(w) == /\ piece_queue' = Tail(piece_queue)
          /\ piece_index' = [piece_index EXCEPT ![w] = Head(piece_queue)]

-----------------------------------------------------------------------------
(* download_all_pieces *)

\* The queue is filled and the result vector allocated before any thread runs.
Init ==
    /\ main = "spawn"
    /\ threads = {}
    /\ pc = [w \in Peers |-> "unborn"]
    /\ link = [w \in Peers |-> "up"]
    /\ bitfield = [w \in Peers |-> {}]
    /\ piece_index = [w \in Peers |-> 0]
    /\ skip_count = [w \in Peers |-> 0]
    /\ piece_queue = [i \in 1 .. NumPieces |-> i - 1]
    /\ results = {}

\* The order of the peers in the tracker's list is arbitrary.
Spawn(w) ==
    /\ main = "spawn"
    /\ w \notin threads
    /\ Cardinality(threads) < MaxThreads
    /\ threads' = threads \cup {w}
    /\ pc' = [pc EXCEPT ![w] = "connect"]
    /\ UNCHANGED <<main, conversation, loopLocals, shared>>

BeginJoin ==
    /\ main = "spawn"
    /\ threads = Peers \/ Cardinality(threads) >= MaxThreads
    /\ main' = "join"
    /\ UNCHANGED <<threads, pc, conversation, loopLocals, shared>>

\* Mutant: returns as soon as one thread has ended.
ReturnAfterFirst ==
    /\ main = "join"
    /\ \E w \in threads : pc[w] = "exit"
    /\ main' = "returned"
    /\ UNCHANGED <<threads, pc, conversation, loopLocals, shared>>

Return ==
    /\ main = "join"
    /\ \A w \in threads : pc[w] = "exit"
    /\ main' = "returned"
    /\ UNCHANGED <<threads, pc, conversation, loopLocals, shared>>

-----------------------------------------------------------------------------
(* peer_worker: setting up the conversation *)

Goto(w, label) == pc' = [pc EXCEPT ![w] = label]

Connect(w) ==
    /\ pc[w] = "connect"
    /\ \/ Goto(w, "handshake")
       \/ "refuse" \in Faults /\ Goto(w, "exit")
    /\ UNCHANGED <<coordinator, conversation, loopLocals, shared>>

Handshake(w) ==
    /\ pc[w] = "handshake"
    /\ \/ Goto(w, "await_bitfield")
       \/ "refuse" \in Faults /\ Goto(w, "exit")
    /\ UNCHANGED <<coordinator, conversation, loopLocals, shared>>

\* The first receive loop ends when a message with id Bitfield arrives.
AwaitBitfield(w) ==
    /\ pc[w] = "await_bitfield"
    /\ link[w] = "up"
    /\ \E b \in Advertises[w] : bitfield' = [bitfield EXCEPT ![w] = b]
    /\ Goto(w, "await_unchoke")
    /\ UNCHANGED <<coordinator, link, loopLocals, shared>>

\* The second receive loop ends when an Unchoke arrives.
AwaitUnchoke(w) ==
    /\ pc[w] = "await_unchoke"
    /\ link[w] = "up"
    /\ Goto(w, "peek")
    /\ UNCHANGED <<coordinator, conversation, loopLocals, shared>>

\* Until then it handles what else comes: a Have sets one bit, and another
\* Bitfield replaces them all.
UpdateBitfield(w) ==
    /\ pc[w] = "await_unchoke"
    /\ link[w] = "up"
    /\ \E b \in {bitfield[w] \cup {p} : p \in Pieces} \cup Advertises[w] :
          bitfield' = [bitfield EXCEPT ![w] = b]
    /\ UNCHANGED <<coordinator, pc, link, loopLocals, shared>>

\* On a lost connection receive_message fails, returns at once and leaves
\* msg.length and msg.id uninitialized, with an empty payload: each loop goes
\* on reading, or takes the message for the one it waits for, or (second loop)
\* takes it for a Bitfield that clears conn.bitfield.
ReadGarbage(w) ==
    /\ link[w] = "down"
    /\ \/ /\ pc[w] = "await_bitfield"
          /\ Goto(w, "await_unchoke")
          /\ bitfield' = [bitfield EXCEPT ![w] = {}]
       \/ /\ pc[w] = "await_unchoke"
          /\ Goto(w, "peek")
          /\ UNCHANGED bitfield
       \/ /\ pc[w] = "await_unchoke"
          /\ bitfield' = [bitfield EXCEPT ![w] = {}]
          /\ UNCHANGED pc
    /\ UNCHANGED <<coordinator, link, loopLocals, shared>>

\* The peer or the network ends the connection.
Drop(w) ==
    /\ "drop" \in Faults
    /\ pc[w] \notin {"unborn", "connect", "handshake", "exit"}
    /\ link[w] = "up"
    /\ link' = [link EXCEPT ![w] = "down"]
    /\ UNCHANGED <<coordinator, pc, bitfield, loopLocals, shared>>

-----------------------------------------------------------------------------
(* peer_worker: the download loop *)

PeekEmpty(w) ==
    /\ pc[w] = "peek"
    /\ QueueIsEmpty
    /\ Goto(w, "exit")
    /\ UNCHANGED <<coordinator, conversation, loopLocals, shared>>

\* The front piece is one the peer lacks: it will be moved to the back.
PeekMiss(w) ==
    /\ pc[w] = "peek"
    /\ ~QueueIsEmpty
    /\ Head(piece_queue) \notin bitfield[w]
    /\ Peek(w)
    /\ Goto(w, "skip_pop")
    /\ UNCHANGED <<coordinator, conversation, skip_count, shared>>

PeekHit(w) ==
    /\ pc[w] = "peek"
    /\ ~QueueIsEmpty
    /\ Head(piece_queue) \in bitfield[w]
    /\ Peek(w)
    /\ skip_count' = [skip_count EXCEPT ![w] = 0]
    /\ Goto(w, "pop")
    /\ UNCHANGED <<coordinator, conversation, shared>>

\* The result of this pop is ignored: it removes whatever is in front by now,
\* and on an emptied queue it leaves piece_index at the piece peeked before.
SkipPop(w) ==
    /\ pc[w] = "skip_pop"
    /\ IF QueueIsEmpty THEN UNCHANGED <<piece_index, piece_queue>> ELSE Pop(w)
    /\ Goto(w, "skip_push")
    /\ UNCHANGED <<coordinator, conversation, skip_count, results>>

\* Mutant: gives up one turn of the queue too early.
SkipPushEager(w) ==
    /\ pc[w] = "skip_push"
    /\ Push(piece_index[w])
    /\ skip_count' = [skip_count EXCEPT ![w] = @ + 1]
    /\ Goto(w, IF skip_count'[w] >= NumPieces - 1 THEN "exit" ELSE "peek")
    /\ UNCHANGED <<coordinator, conversation, piece_index, results>>

\* Mutant: counts its skips but never gives up.
SkipPushUnbounded(w) ==
    /\ pc[w] = "skip_push"
    /\ Push(piece_index[w])
    /\ skip_count' = [skip_count EXCEPT ![w] = @ + 1]
    /\ Goto(w, "peek")
    /\ UNCHANGED <<coordinator, conversation, piece_index, results>>

\* Mutant: never gives up, and does not count.
SkipPushForever(w) ==
    /\ pc[w] = "skip_push"
    /\ Push(piece_index[w])
    /\ Goto(w, "peek")
    /\ UNCHANGED <<coordinator, conversation, loopLocals, results>>

SkipPush(w) ==
    /\ pc[w] = "skip_push"
    /\ Push(piece_index[w])
    /\ skip_count' = [skip_count EXCEPT ![w] = @ + 1]
    /\ Goto(w, IF skip_count'[w] > NumPieces THEN "exit" ELSE "peek")
    /\ UNCHANGED <<coordinator, conversation, piece_index, results>>

PopEmpty(w) ==
    /\ pc[w] = "pop"
    /\ QueueIsEmpty
    /\ Goto(w, "exit")
    /\ UNCHANGED <<coordinator, conversation, loopLocals, shared>>

\* Mutant: takes the piece it peeked without removing it from the queue.
PopKeeps(w) ==
    /\ pc[w] = "pop"
    /\ ~QueueIsEmpty
    /\ Goto(w, "download")
    /\ UNCHANGED <<coordinator, conversation, loopLocals, shared>>

\* The piece popped need not be the one peeked, and is not checked again.
PopFront(w) ==
    /\ pc[w] = "pop"
    /\ ~QueueIsEmpty
    /\ Pop(w)
    /\ Goto(w, "download")
    /\ UNCHANGED <<coordinator, conversation, skip_count, results>>

\* download_piece returned the verified piece; it is stored.
Succeed(w) ==
    /\ pc[w] = "download"
    /\ link[w] = "up"
    /\ results' = results \cup {piece_index[w]}
    /\ Goto(w, "peek")
    /\ UNCHANGED <<coordinator, conversation, loopLocals, piece_queue>>

\* Mutant: a piece that failed is not put back.
FailForgets(w) ==
    /\ pc[w] = "download"
    /\ link[w] = "down" \/ "block" \in Faults
    /\ Goto(w, "peek")
    /\ UNCHANGED <<coordinator, conversation, loopLocals, shared>>

\* download_piece returned an empty vector; the piece goes back.  On a lost
\* connection this is the only outcome, besides never returning.
Fail(w) ==
    /\ pc[w] = "download"
    /\ link[w] = "down" \/ "block" \in Faults
    /\ Push(piece_index[w])
    /\ Goto(w, "peek")
    /\ UNCHANGED <<coordinator, conversation, loopLocals, results>>

-----------------------------------------------------------------------------
Setup(w) == Connect(w) \/ Handshake(w) \/ AwaitBitfield(w) \/ AwaitUnchoke(w)
            \/ UpdateBitfield(w) \/ ReadGarbage(w)

Loop(w) == PeekEmpty(w) \/ PeekMiss(w) \/ PeekHit(w) \/ SkipPop(w)
           \/ SkipPush(w) \/ PopEmpty(w) \/ PopFront(w)

\* The only state in which the program may stop: download_all_pieces is over.
Finished == main = "returned" /\ UNCHANGED vars

Next == \/ \E w \in Peers : \/ Spawn(w) \/ Setup(w) \/ Drop(w) \/ Loop(w)
                            \/ Succeed(w) \/ Fail(w)
        \/ BeginJoin
        \/ Return
        \/ Finished

Spec == Init /\ [][Next]_vars

(***************************************************************************)
(* Fairness.  The operating system runs every thread that can run, so a    *)
(* connect ends and the loop goes on.  LiveSpec assumes nothing of a peer, *)
(* which may say nothing for ever, nor of what a thread reads on a lost    *)
(* connection, where it may spin.                                          *)
(***************************************************************************)
ThreadFairness(w) == WF_vars(Connect(w)) /\ WF_vars(Loop(w))

LiveSpec ==
    /\ Spec
    /\ WF_vars(BeginJoin \/ Return \/ \E w \in Peers : Spawn(w))
    /\ \A w \in Peers : ThreadFairness(w)

\* Peers that do not keep the client waiting: they shake hands, send their
\* bitfield and their unchoke, and answer, one way or the other, when they are
\* asked for a piece they advertised.
PeerFairness(w) ==
    /\ WF_vars(Handshake(w))
    /\ WF_vars(AwaitBitfield(w))
    /\ WF_vars(AwaitUnchoke(w))
    /\ WF_vars(piece_index[w] \in bitfield[w] /\ (Succeed(w) \/ Fail(w)))

AnsweredSpec == LiveSpec /\ \A w \in Peers : PeerFairness(w)

-----------------------------------------------------------------------------
(* Properties *)

\* w holds the piece in its local piece_index: it has popped it (or, for an
\* emptied queue, believes so) and owes it to the queue or to the results.
Holds(w) == pc[w] \in {"skip_push", "download"}

Holders == {w \in Peers : Holds(w)}

\* The variables have the values their declarations allow; a skip count never
\* passes num_pieces + 1, so its comparison with (int)num_pieces is exact.
TypeOK ==
    /\ main \in {"spawn", "join", "returned"}
    /\ threads \subseteq Peers
    /\ pc \in [Peers -> Labels]
    /\ link \in [Peers -> {"up", "down"}]
    /\ bitfield \in [Peers -> SUBSET Pieces]
    /\ piece_index \in [Peers -> Int]
    /\ \A w \in Peers : Holds(w) \/ pc[w] \in {"skip_pop", "pop"}
                            => piece_index[w] \in Pieces
    /\ skip_count \in [Peers -> 0 .. NumPieces + 1]
    /\ piece_queue \in Seq(Pieces)
    /\ results \subseteq Pieces

\* Between the pops, pushes and stores of all threads no piece is ever lost:
\* each one is stored, or waits in the queue, or is held by a thread.
NoPieceLost ==
    \A p \in Pieces : \/ p \in results
                      \/ Queued(p)
                      \/ \E w \in Peers : Holds(w) /\ piece_index[w] = p

\* When download_all_pieces returns, every entry of the result vector that is
\* still empty is a piece left in the queue: no thread took it along, so what
\* main reports as missing is exactly what no peer delivered.
MissingIsQueued ==
    main = "returned" => \A p \in Pieces : p \in results \/ Queued(p)

\* The emptied-queue branch of the skip can enter a piece a second time, but
\* the entries in the queue and in the hands of the threads never outnumber
\* both the pieces and the threads.
EntryBound ==
    Len(piece_queue) + Cardinality(Holders)
        <= IF NumPieces >= MaxThreads THEN NumPieces ELSE MaxThreads

\* Two threads never download the same piece, and no piece that is being
\* downloaded or stored is offered again ("Uses a mutex to prevent two threads
\* from grabbing the same piece").
ClaimedOnce ==
    /\ \A v, w \in Peers : pc[v] = "download" /\ pc[w] = "download"
           /\ piece_index[v] = piece_index[w] => v = w
    /\ \A w \in Peers : pc[w] = "download" => ~Queued(piece_index[w])
    /\ \A p \in results : ~Queued(p)

\* A single thread ends only when every piece its peer has is stored.
ExitsSatisfied ==
    \A w \in Peers : pc[w] = "exit" => bitfield[w] \subseteq results

\* download_all_pieces returns with every piece stored.
Completes == <>(main = "returned" /\ results = Pieces)

\* w is in a call that waits for its peer.
Waits(w) == pc[w] \in {"handshake", "await_bitfield", "await_unchoke",
                       "download"}

\* The two ways in which a peer can keep its thread from ending: it makes it
\* wait for ever, or it fails its pieces for ever.
Stuck(w) == <>[]Waits(w) \/ []<><<Fail(w)>>_vars

\* A thread that is not stuck with its peer ends, whatever becomes of the
\* others, unless its connection is lost or the queue again and again hands it
\* a piece that is stored (entered twice by the skip).  So neither a thread that
\* pops and returns pieces for ever nor one that skips for ever keeps the others
\* from their end, nor does a piece that was popped but never peeked.
SurvivorsEnd ==
    \A w \in Peers : \/ [](w \notin threads)
                     \/ <>(pc[w] = "exit")
                     \/ <>(link[w] = "down")
                     \/ Stuck(w)
                     \/ []<>(pc[w] = "download" /\ piece_index[w] \in results)

\* When every thread gets a complete bitfield and keeps its connection, the
\* download completes, however many blocks fail, unless some thread is stuck
\* with its peer: no order of the threads' steps is to blame.
HealthyCompletes ==
    \/ <>(\E w \in Peers : link[w] = "down")
    \/ <>(\E w \in Peers : pc[w] \in {"peek", "exit"} /\ bitfield[w] # Pieces)
    \/ \E w \in Peers : Stuck(w)
    \/ Completes
=============================================================================

------------------------- MODULE OrchestratorProofs -------------------------
(***************************************************************************)
(* Safety of the Orchestrator for any peers, bitfields, faults, number of  *)
(* pieces and number of threads.                                           *)
(*                                                                         *)
(* The properties of the queue are not inductive: that no piece is lost at *)
(* a spawn needs that a thread is spawned once, that what a thread pushes  *)
(* is a piece needs the types of its locals, and that a skip counter stays *)
(* in range needs that a thread past the limit has ended.  IInv adds these *)
(* facts.                                                                  *)
(***************************************************************************)
EXTENDS Orchestrator, FiniteSetTheorems, TLAPS

\* A thread runs from its spawn on.
ThreadsRun == \A w \in Peers : w \in threads <=> pc[w] # "unborn"

\* join has waited for every thread.
JoinedThreads == main = "returned" => \A w \in threads : pc[w] = "exit"

\* A thread that has not ended may still skip.
SkipsLeft == \A w \in Peers : pc[w] # "exit" => skip_count[w] <= NumPieces

IInv == TypeOK /\ ThreadsRun /\ JoinedThreads /\ SkipsLeft

-----------------------------------------------------------------------------
(* The queue *)

\* push adds its argument and nothing else.
LEMMA PushQueued ==
    ASSUME piece_queue \in Seq(Pieces), NEW x \in Pieces, Push(x)
    PROVE  /\ piece_queue' \in Seq(Pieces)
           /\ Len(piece_queue') = Len(piece_queue) + 1
           /\ \A p : Queued(p)' <=> Queued(p) \/ p = x
  BY DEF Push, Queued

LEMMA FrontIsPiece ==
    ASSUME piece_queue \in Seq(Pieces), ~QueueIsEmpty
    PROVE  Head(piece_queue) \in Pieces /\ Head(piece_queue) \in Int
  <1>1. Head(piece_queue) \in Pieces
    BY DEF QueueIsEmpty
  <1> QED BY <1>1, OrchestratorAssumption DEF Pieces

\* A successful pop takes the front entry and leaves the others.
LEMMA PopQueued ==
    ASSUME piece_queue \in Seq(Pieces), ~QueueIsEmpty,
           NEW w \in Peers, piece_index \in [Peers -> Int], Pop(w)
    PROVE  /\ piece_queue' \in Seq(Pieces)
           /\ Len(piece_queue') = Len(piece_queue) - 1
           /\ Head(piece_queue) \in Pieces
           /\ \A p : Queued(p) => Queued(p)' \/ p = Head(piece_queue)
  <1>1. /\ piece_queue' \in Seq(Pieces)
        /\ Len(piece_queue') = Len(piece_queue) - 1
        /\ Len(piece_queue) \in Nat \ {0}
        /\ Head(piece_queue) = piece_queue[1]
        /\ Head(piece_queue) \in Pieces
        /\ \A i \in 1 .. Len(piece_queue) - 1 :
               piece_queue'[i] = piece_queue[i + 1]
    BY DEF Pop, QueueIsEmpty
  <1>2. ASSUME NEW p, Queued(p), p # Head(piece_queue)
        PROVE  Queued(p)'
    <2>1. PICK i \in 1 .. Len(piece_queue) : piece_queue[i] = p
      BY <1>2 DEF Queued
    <2>2. i - 1 \in 1 .. Len(piece_queue') /\ piece_queue'[i - 1] = p
      BY <1>1, <1>2, <2>1
    <2> QED BY <2>2 DEF Queued
  <1> QED BY <1>1, <1>2
-----------------------------------------------------------------------------
(* Types *)

LEMMA InitIInv == Init => IInv
  <1> SUFFICES ASSUME Init PROVE IInv
    OBVIOUS
  <1>1. piece_queue \in Seq(Pieces)
    BY OrchestratorAssumption DEF Init, Pieces
  <1> QED
    BY <1>1, OrchestratorAssumption
    DEF Init, IInv, TypeOK, ThreadsRun, JoinedThreads, SkipsLeft, Labels, Holds

\* The coordinator's steps.
LEMMA CoordinatorIInv ==
    ASSUME IInv, (\E w \in Peers : Spawn(w)) \/ BeginJoin \/ Return
    PROVE  IInv'
  <1> USE DEF IInv, TypeOK, ThreadsRun, JoinedThreads, SkipsLeft, Labels,
              Holds, conversation, loopLocals, shared
  <1>1. ASSUME NEW w \in Peers, Spawn(w) PROVE IInv'
    BY <1>1 DEF Spawn
  <1>2. CASE BeginJoin
    BY <1>2 DEF BeginJoin
  <1>3. CASE Return
    BY <1>3 DEF Return
  <1> QED BY <1>1, <1>2, <1>3

\* The steps that set up the conversation, and its loss.
LEMMA SetupIInv ==
    ASSUME IInv, NEW w \in Peers, Setup(w) \/ Drop(w)
    PROVE  IInv'
  <1> USE DEF IInv, TypeOK, ThreadsRun, JoinedThreads, SkipsLeft, Labels,
              Holds, Goto, coordinator, conversation, loopLocals, shared
  <1>1. CASE Connect(w)
    BY <1>1 DEF Connect
  <1>2. CASE Handshake(w)
    BY <1>2 DEF Handshake
  <1>3. CASE AwaitBitfield(w)
    <2>1. PICK b \in Advertises[w] : bitfield' = [bitfield EXCEPT ![w] = b]
      BY <1>3 DEF AwaitBitfield
    <2>2. b \in SUBSET Pieces
      BY <2>1, OrchestratorAssumption
    <2>3. bitfield' \in [Peers -> SUBSET Pieces]
      BY <2>1, <2>2
    <2> QED BY <1>3, <2>3 DEF AwaitBitfield
  <1>4. CASE AwaitUnchoke(w)
    BY <1>4 DEF AwaitUnchoke
  <1>5. CASE ReadGarbage(w)
    BY <1>5 DEF ReadGarbage
  <1>6. CASE Drop(w)
    BY <1>6 DEF Drop
  <1>7. CASE UpdateBitfield(w)
    <2>1. PICK b \in {bitfield[w] \cup {p} : p \in Pieces} \cup Advertises[w] :
                  bitfield' = [bitfield EXCEPT ![w] = b]
      BY <1>7 DEF UpdateBitfield
    <2>2. b \in SUBSET Pieces
      <3>1. Advertises[w] \subseteq SUBSET Pieces
        BY OrchestratorAssumption
      <3>2. bitfield[w] \subseteq Pieces
        OBVIOUS
      <3> QED BY <2>1, <3>1, <3>2
    <2>3. bitfield' \in [Peers -> SUBSET Pieces]
      BY <2>1, <2>2
    <2> QED BY <1>7, <2>3 DEF UpdateBitfield
  <1> QED BY <1>1, <1>2, <1>3, <1>4, <1>5, <1>6, <1>7 DEF Setup

\* The steps of the download loop.
LEMMA LoopIInv ==
    ASSUME IInv, NEW w \in Peers, Loop(w) \/ Succeed(w) \/ Fail(w)
    PROVE  IInv'
  <1> USE OrchestratorAssumption
      DEF IInv, TypeOK, ThreadsRun, JoinedThreads, SkipsLeft, Labels, Holds,
          Goto, coordinator, conversation, loopLocals, shared
  <1>1. CASE PeekEmpty(w)
    BY <1>1 DEF PeekEmpty
  <1>2. CASE PeekMiss(w)
    BY <1>2, FrontIsPiece DEF PeekMiss, Peek
  <1>3. CASE PeekHit(w)
    BY <1>3, FrontIsPiece DEF PeekHit, Peek
  <1>4. CASE SkipPop(w)
    <2>1. CASE QueueIsEmpty
      BY <1>4, <2>1 DEF SkipPop
    <2>2. CASE ~QueueIsEmpty
      <3>1. Pop(w)
        BY <1>4, <2>2 DEF SkipPop
      <3>2. piece_queue' \in Seq(Pieces)
        BY <2>2, <3>1, PopQueued
      <3> QED BY <1>4, <2>2, <3>1, <3>2, FrontIsPiece DEF SkipPop, Pop
    <2> QED BY <2>1, <2>2
  <1>5. CASE SkipPush(w)
    <2>1. piece_queue' \in Seq(Pieces)
      BY <1>5, PushQueued DEF SkipPush
    <2>2. skip_count' = [skip_count EXCEPT ![w] = skip_count[w] + 1]
      BY <1>5 DEF SkipPush
    <2>3. skip_count' \in [Peers -> 0 .. NumPieces + 1]
      BY <1>5, <2>2 DEF SkipPush
    <2>4. pc' \in [Peers -> Labels]
      BY <1>5 DEF SkipPush
    <2>5. \A v \in Peers : pc'[v] # "exit" => skip_count'[v] <= NumPieces
      BY <1>5, <2>2 DEF SkipPush
    <2>6. \A v \in Peers : v # w => pc'[v] = pc[v]
      BY <1>5 DEF SkipPush
    <2>7. pc'[w] \in {"exit", "peek"}
      BY <1>5 DEF SkipPush
    <2> QED BY <1>5, <2>1, <2>3, <2>4, <2>5, <2>6, <2>7 DEF SkipPush
  <1>6. CASE PopEmpty(w)
    BY <1>6 DEF PopEmpty
  <1>7. CASE PopFront(w)
    <2>1. piece_queue' \in Seq(Pieces)
      BY <1>7, PopQueued DEF PopFront
    <2> QED BY <1>7, <2>1, FrontIsPiece DEF PopFront, Pop
  <1>8. CASE Succeed(w)
    BY <1>8 DEF Succeed
  <1>9. CASE Fail(w)
    BY <1>9, PushQueued DEF Fail
  <1> QED
    BY <1>1, <1>2, <1>3, <1>4, <1>5, <1>6, <1>7, <1>8, <1>9 DEF Loop

LEMMA NextIInv == IInv /\ [Next]_vars => IInv'
  <1> SUFFICES ASSUME IInv, [Next]_vars PROVE IInv'
    OBVIOUS
  <1>1. CASE UNCHANGED vars
    BY <1>1 DEF vars, IInv, TypeOK, ThreadsRun, JoinedThreads, SkipsLeft, Holds
  <1>2. CASE Next
    BY <1>1, <1>2, CoordinatorIInv, SetupIInv, LoopIInv DEF Next, Finished
  <1> QED BY <1>1, <1>2

\* The strengthened invariant holds in every state.
THEOREM Inductive == Spec => []IInv
  BY InitIInv, NextIInv, PTL DEF Spec

\* Every variable keeps its type; in particular the skip counter never passes
\* num_pieces + 1, whatever the peers advertise and however they fail.
THEOREM TypeCorrect == Spec => []TypeOK
  BY Inductive, PTL DEF IInv

-----------------------------------------------------------------------------
(* No piece is lost *)

\* A step that leaves the queue and the results alone and takes no piece out
\* of a thread's hands.
LEMMA KeepsPieces ==
    ASSUME NoPieceLost, UNCHANGED shared,
           \A v \in Peers :
               Holds(v) => Holds(v)' /\ piece_index'[v] = piece_index[v]
    PROVE  NoPieceLost'
  BY DEF NoPieceLost, shared, Queued

\* A thread that puts back the piece it holds.
LEMMA PutsBack ==
    ASSUME IInv, NoPieceLost, NEW w \in Peers, Holds(w),
           Push(piece_index[w]), UNCHANGED <<results, piece_index>>,
           \A v \in Peers \ {w} : pc'[v] = pc[v]
    PROVE  NoPieceLost'
  <1>1. \A p : Queued(p)' <=> Queued(p) \/ p = piece_index[w]
    BY PushQueued DEF IInv, TypeOK
  <1>2. \A v \in Peers : v # w /\ Holds(v)
            => Holds(v)' /\ piece_index'[v] = piece_index[v]
    BY DEF Holds
  <1> QED BY <1>1, <1>2 DEF NoPieceLost

\* A thread that takes the front entry in its hands.
LEMMA TakesFront ==
    ASSUME IInv, NoPieceLost, NEW w \in Peers, ~Holds(w), ~QueueIsEmpty,
           Pop(w), UNCHANGED results, Holds(w)',
           \A v \in Peers \ {w} : pc'[v] = pc[v]
    PROVE  NoPieceLost'
  <1>1. \A p : Queued(p) => Queued(p)' \/ p = Head(piece_queue)
    BY PopQueued DEF IInv, TypeOK
  <1>2. piece_index' = [piece_index EXCEPT ![w] = Head(piece_queue)]
    BY DEF Pop
  <1>3. piece_index'[w] = Head(piece_queue)
    BY <1>2 DEF IInv, TypeOK
  <1>4. \A v \in Peers : v # w /\ Holds(v)
            => Holds(v)' /\ piece_index'[v] = piece_index[v]
    BY <1>2 DEF Holds, IInv, TypeOK
  <1> QED BY <1>1, <1>3, <1>4 DEF NoPieceLost

LEMMA InitNoPieceLost == Init => NoPieceLost
  <1> SUFFICES ASSUME Init, NEW p \in Pieces PROVE Queued(p)
    BY DEF NoPieceLost
  <1>1. p + 1 \in 1 .. Len(piece_queue) /\ piece_queue[p + 1] = p
    BY OrchestratorAssumption DEF Init, Pieces
  <1> QED BY <1>1 DEF Queued

LEMMA NextNoPieceLost == IInv /\ NoPieceLost /\ [Next]_vars => NoPieceLost'
  <1> SUFFICES ASSUME IInv, NoPieceLost, [Next]_vars PROVE NoPieceLost'
    OBVIOUS
  <1> USE DEF IInv, TypeOK, Labels
  <1>1. ASSUME NEW w \in Peers, Spawn(w) PROVE NoPieceLost'
    <2>1. w \notin threads /\ pc[w] = "unborn"
      BY <1>1 DEF Spawn, ThreadsRun
    <2> QED BY <1>1, <2>1, KeepsPieces DEF Spawn, Holds, loopLocals, shared
  <1>2. ASSUME NEW w \in Peers, Setup(w) \/ Drop(w) PROVE NoPieceLost'
    <2>1. /\ \/ UNCHANGED pc
             \/ /\ pc[w] \notin {"skip_push", "download"}
                /\ \A v \in Peers : v # w => pc'[v] = pc[v]
          /\ UNCHANGED <<loopLocals, shared>>
      BY <1>2 DEF Setup, Connect, Handshake, AwaitBitfield, AwaitUnchoke,
                  UpdateBitfield, ReadGarbage, Drop, Goto
    <2>2. \A v \in Peers :
              Holds(v) => Holds(v)' /\ piece_index'[v] = piece_index[v]
      BY <2>1 DEF Holds, loopLocals
    <2> QED BY <2>1, <2>2, KeepsPieces
  <1>3. ASSUME NEW w \in Peers,
               PeekEmpty(w) \/ PeekMiss(w) \/ PeekHit(w) \/ PopEmpty(w)
        PROVE  NoPieceLost'
    <2>1. /\ pc[w] \notin {"skip_push", "download"}
          /\ \A v \in Peers : v # w => /\ pc'[v] = pc[v]
                                       /\ piece_index'[v] = piece_index[v]
          /\ UNCHANGED shared
      BY <1>3 DEF PeekEmpty, PeekMiss, PeekHit, PopEmpty, Peek, Goto,
                  loopLocals
    <2> QED BY <2>1, KeepsPieces DEF Holds
  <1>4. ASSUME NEW w \in Peers, SkipPop(w) PROVE NoPieceLost'
    <2>1. /\ pc[w] = "skip_pop" /\ pc'[w] = "skip_push"
          /\ \A v \in Peers : v # w => pc'[v] = pc[v]
          /\ UNCHANGED results
      BY <1>4 DEF SkipPop, Goto
    <2>2. CASE QueueIsEmpty
      BY <1>4, <2>1, <2>2, KeepsPieces DEF SkipPop, Holds, shared
    <2>3. CASE ~QueueIsEmpty
      BY <1>4, <2>1, <2>3, TakesFront DEF SkipPop, Holds
    <2> QED BY <2>2, <2>3
  <1>5. ASSUME NEW w \in Peers, PopFront(w) PROVE NoPieceLost'
    <2>1. /\ pc[w] = "pop" /\ pc'[w] = "download"
          /\ \A v \in Peers : v # w => pc'[v] = pc[v]
          /\ UNCHANGED results
      BY <1>5 DEF PopFront, Goto
    <2> QED BY <1>5, <2>1, TakesFront DEF PopFront, Holds
  <1>6. ASSUME NEW w \in Peers, SkipPush(w) \/ Fail(w) PROVE NoPieceLost'
    <2>1. /\ Holds(w)
          /\ Push(piece_index[w])
          /\ UNCHANGED <<results, piece_index>>
          /\ \A v \in Peers \ {w} : pc'[v] = pc[v]
      BY <1>6 DEF SkipPush, Fail, Goto, Holds, loopLocals
    <2> QED BY <2>1, PutsBack
  <1>7. ASSUME NEW w \in Peers, Succeed(w) PROVE NoPieceLost'
    <2>1. /\ results' = results \cup {piece_index[w]}
          /\ UNCHANGED <<piece_queue, piece_index>>
          /\ \A v \in Peers : v # w => pc'[v] = pc[v]
      BY <1>7 DEF Succeed, Goto, loopLocals
    <2> QED BY <2>1 DEF NoPieceLost, Queued, Holds
  <1>8. CASE BeginJoin \/ Return \/ Finished \/ UNCHANGED vars
    BY <1>8, KeepsPieces
    DEF BeginJoin, Return, Finished, vars, Holds, loopLocals, shared
  <1> QED
    BY <1>1, <1>2, <1>3, <1>4, <1>5, <1>6, <1>7, <1>8 DEF Next, Loop

\* Between the pops, pushes and stores of all threads, no piece is ever lost.
THEOREM PiecesKept == Spec => []NoPieceLost
  BY Inductive, InitNoPieceLost, NextNoPieceLost, PTL DEF Spec

\* When download_all_pieces returns, no thread holds a piece any more: what is
\* missing from the results is in the queue.
THEOREM MissingQueued == Spec => []MissingIsQueued
  <1>1. IInv /\ NoPieceLost => MissingIsQueued
    <2> SUFFICES ASSUME IInv, NoPieceLost, main = "returned", NEW p \in Pieces
                 PROVE  p \in results \/ Queued(p)
      BY DEF MissingIsQueued
    <2>1. \A w \in Peers : pc[w] \in {"unborn", "exit"}
      BY DEF IInv, ThreadsRun, JoinedThreads
    <2> QED BY <2>1 DEF NoPieceLost, Holds
  <1> QED BY <1>1, Inductive, PiecesKept, PTL

-----------------------------------------------------------------------------
(* The number of entries *)

\* No more than MaxThreads threads are spawned.
ThreadsBounded == Cardinality(threads) <= MaxThreads

LEMMA FiniteThreads ==
    ASSUME IInv
    PROVE  /\ IsFiniteSet(threads) /\ Cardinality(threads) \in Nat
           /\ IsFiniteSet(Holders) /\ Cardinality(Holders) \in Nat
           /\ Cardinality(Holders) <= Cardinality(threads)
  <1>1. IsFiniteSet(threads)
    BY OrchestratorAssumption, FS_Subset DEF IInv, TypeOK
  <1>2. Holders \subseteq threads
    BY DEF IInv, ThreadsRun, Holders, Holds
  <1> QED BY <1>1, <1>2, FS_Subset, FS_CardinalityType

LEMMA NextThreadsBounded ==
    IInv /\ ThreadsBounded /\ [Next]_vars => ThreadsBounded'
  <1> SUFFICES ASSUME IInv, ThreadsBounded, [Next]_vars PROVE ThreadsBounded'
    OBVIOUS
  <1>1. ASSUME NEW w \in Peers, Spawn(w) PROVE ThreadsBounded'
    <2>1. Cardinality(threads \cup {w}) = Cardinality(threads) + 1
      BY <1>1, FiniteThreads, FS_AddElement DEF Spawn
    <2> QED
      BY <1>1, <2>1, FiniteThreads, OrchestratorAssumption
      DEF Spawn, ThreadsBounded
  <1>2. CASE UNCHANGED threads
    BY <1>2 DEF ThreadsBounded
  <1> QED
    BY <1>1, <1>2
    DEF Next, Setup, Drop, Loop, Succeed, Fail, Connect, Handshake,
        AwaitBitfield, AwaitUnchoke, UpdateBitfield, ReadGarbage, PeekEmpty, PeekMiss,
        PeekHit, SkipPop, SkipPush, PopEmpty, PopFront, BeginJoin, Return,
        Finished, vars, coordinator

\* A step that changes neither the queue nor who holds a piece.
LEMMA SameEntries ==
    ASSUME EntryBound, UNCHANGED piece_queue,
           \A v \in Peers : Holds(v)' <=> Holds(v)
    PROVE  EntryBound'
  <1>1. Holders' = Holders
    BY DEF Holders
  <1> QED BY <1>1 DEF EntryBound

\* A thread that takes a piece in its hands, from the queue or not.
LEMMA OneMoreHolder ==
    ASSUME IInv, NEW w \in Peers, ~Holds(w), Holds(w)',
           \A v \in Peers \ {w} : Holds(v)' <=> Holds(v)
    PROVE  Cardinality(Holders') = Cardinality(Holders) + 1
  <1>1. Holders' = Holders \cup {w} /\ w \notin Holders
    BY DEF Holders
  <1> QED BY <1>1, FiniteThreads, FS_AddElement

LEMMA OneHolderLess ==
    ASSUME IInv, NEW w \in Peers, Holds(w), ~Holds(w)',
           \A v \in Peers \ {w} : Holds(v)' <=> Holds(v)
    PROVE  Cardinality(Holders') = Cardinality(Holders) - 1
  <1>1. Holders' = Holders \ {w} /\ w \in Holders
    BY DEF Holders
  <1> QED BY <1>1, FiniteThreads, FS_RemoveElement

LEMMA InitEntryBound == Init => ThreadsBounded /\ EntryBound
  <1> SUFFICES ASSUME Init PROVE ThreadsBounded /\ EntryBound
    OBVIOUS
  <1>1. Cardinality(threads) = 0
    BY FS_EmptySet DEF Init
  <1>2. Holders = {} /\ Cardinality(Holders) = 0
    BY FS_EmptySet DEF Init, Holders, Holds
  <1>3. Len(piece_queue) = NumPieces
    BY OrchestratorAssumption DEF Init
  <1> QED
    BY <1>1, <1>2, <1>3, OrchestratorAssumption
    DEF ThreadsBounded, EntryBound

LEMMA NextEntryBound ==
    IInv /\ IInv' /\ ThreadsBounded' /\ EntryBound /\ [Next]_vars => EntryBound'
  <1> SUFFICES ASSUME IInv, IInv', ThreadsBounded', EntryBound, [Next]_vars
               PROVE  EntryBound'
    OBVIOUS
  <1> USE DEF IInv, TypeOK, Labels
  <1>1. ASSUME NEW w \in Peers, Spawn(w) PROVE EntryBound'
    <2>1. pc[w] = "unborn" /\ pc'[w] = "connect"
      BY <1>1 DEF Spawn, ThreadsRun
    <2> QED BY <1>1, <2>1, SameEntries DEF Spawn, Holds, shared
  <1>2. ASSUME NEW w \in Peers, Setup(w) \/ Drop(w) PROVE EntryBound'
    <2>1. /\ UNCHANGED piece_queue
          /\ \A v \in Peers : Holds(v)' <=> Holds(v)
      BY SMTT(30), <1>2 DEF Setup, Connect, Handshake, AwaitBitfield, AwaitUnchoke,
                  UpdateBitfield, ReadGarbage, Drop, Goto, Holds, shared
    <2> QED BY <2>1, SameEntries
  <1>3. ASSUME NEW w \in Peers,
               PeekEmpty(w) \/ PeekMiss(w) \/ PeekHit(w) \/ PopEmpty(w)
        PROVE  EntryBound'
    <2>1. /\ UNCHANGED piece_queue
          /\ \A v \in Peers : Holds(v)' <=> Holds(v)
      BY <1>3 DEF PeekEmpty, PeekMiss, PeekHit, PopEmpty, Goto, Holds, shared
    <2> QED BY <2>1, SameEntries
  <1>4. ASSUME NEW w \in Peers, SkipPop(w) \/ PopFront(w) PROVE EntryBound'
    <2>1. /\ ~Holds(w) /\ Holds(w)'
          /\ \A v \in Peers \ {w} : Holds(v)' <=> Holds(v)
      BY <1>4 DEF SkipPop, PopFront, Goto, Holds
    <2>2. Cardinality(Holders') = Cardinality(Holders) + 1
      BY <2>1, OneMoreHolder
    <2>3. CASE QueueIsEmpty
      <3>1. Len(piece_queue') = 0
        BY <1>4, <2>3 DEF SkipPop, PopFront, QueueIsEmpty
      <3>2. Cardinality(Holders') <= Cardinality(threads')
        <4>1. IsFiniteSet(threads') /\ Holders' \subseteq threads'
          BY OrchestratorAssumption, FS_Subset
          DEF ThreadsRun, Holders, Holds
        <4> QED BY <4>1, FS_Subset
      <3>3. Cardinality(Holders') \in Nat /\ Cardinality(threads') \in Nat
        BY OrchestratorAssumption, FS_Subset, FS_CardinalityType DEF Holders
      <3> QED
        BY <3>1, <3>2, <3>3, OrchestratorAssumption
        DEF EntryBound, ThreadsBounded
    <2>4. CASE ~QueueIsEmpty
      <3>1. Len(piece_queue') = Len(piece_queue) - 1
        BY <1>4, <2>4, PopQueued DEF SkipPop, PopFront
      <3>2. Len(piece_queue) \in Nat /\ Cardinality(Holders) \in Nat
        BY FiniteThreads
      <3> QED BY <2>2, <3>1, <3>2 DEF EntryBound
    <2> QED BY <2>3, <2>4
  <1>5. ASSUME NEW w \in Peers, SkipPush(w) \/ Fail(w) PROVE EntryBound'
    <2>1. /\ Holds(w) /\ ~Holds(w)'
          /\ \A v \in Peers \ {w} : Holds(v)' <=> Holds(v)
          /\ Push(piece_index[w])
      BY <1>5 DEF SkipPush, Fail, Goto, Holds
    <2>2. Cardinality(Holders') = Cardinality(Holders) - 1
      BY <2>1, OneHolderLess
    <2>3. Len(piece_queue') = Len(piece_queue) + 1
      BY <2>1, PushQueued
    <2>4. Len(piece_queue) \in Nat /\ Cardinality(Holders) \in Nat
      BY FiniteThreads
    <2> QED BY <2>2, <2>3, <2>4 DEF EntryBound
  <1>6. ASSUME NEW w \in Peers, Succeed(w) PROVE EntryBound'
    <2>1. /\ Holds(w) /\ ~Holds(w)'
          /\ \A v \in Peers \ {w} : Holds(v)' <=> Holds(v)
          /\ UNCHANGED piece_queue
      BY <1>6 DEF Succeed, Goto, Holds
    <2>2. Cardinality(Holders') = Cardinality(Holders) - 1
      BY <2>1, OneHolderLess
    <2>3. Len(piece_queue) \in Nat /\ Cardinality(Holders) \in Nat
      BY FiniteThreads
    <2> QED BY <2>1, <2>2, <2>3, OrchestratorAssumption DEF EntryBound
  <1>7. CASE BeginJoin \/ Return \/ Finished \/ UNCHANGED vars
    BY <1>7, SameEntries DEF BeginJoin, Return, Finished, vars, Holds, shared
  <1> QED
    BY <1>1, <1>2, <1>3, <1>4, <1>5, <1>6, <1>7 DEF Next, Loop

\* The skip on an emptied queue may enter a piece twice, but the entries never
\* outnumber both the pieces and the threads, however many of either.
THEOREM EntriesBounded == Spec => []EntryBound
  <1>1. Spec => []ThreadsBounded
    BY Inductive, InitEntryBound, NextThreadsBounded, PTL DEF Spec
  <1> QED
    BY <1>1, Inductive, InitEntryBound, NextEntryBound, PTL DEF Spec

-----------------------------------------------------------------------------
(* Exclusive claims, when every peer has every piece *)

\* A piece is queued once.
QueuedOnce == \A i, j \in 1 .. Len(piece_queue) :
                  piece_queue[i] = piece_queue[j] => i = j

\* What is peeked is never skipped, so a pop always takes what was queued.
NeverSkips ==
    \A w \in Peers :
        /\ link[w] = "up"
        /\ pc[w] \notin {"skip_pop", "skip_push"}
        /\ pc[w] \in {"await_unchoke", "peek", "pop", "download"}
               => bitfield[w] = Pieces

\* A piece being downloaded is not stored yet.
Unstored == \A w \in Peers : pc[w] = "download" => piece_index[w] \notin results

ClaimInv == IInv /\ NeverSkips /\ QueuedOnce /\ Unstored /\ ClaimedOnce

\* Every peer has every piece, and no connection is lost.
CompletePeers == /\ \A w \in Peers : Advertises[w] = {Pieces}
                 /\ "drop" \notin Faults

LEMMA PopClaims ==
    ASSUME IInv, QueuedOnce, NEW w \in Peers, ~QueueIsEmpty, Pop(w)
    PROVE  /\ QueuedOnce'
           /\ Queued(Head(piece_queue))
           /\ \A p : Queued(p)' <=> Queued(p) /\ p # Head(piece_queue)
  <1>1. /\ Len(piece_queue') = Len(piece_queue) - 1
        /\ Len(piece_queue) \in Nat \ {0}
        /\ Head(piece_queue) = piece_queue[1]
        /\ \A i \in 1 .. Len(piece_queue) - 1 :
               piece_queue'[i] = piece_queue[i + 1]
    BY DEF Pop, QueueIsEmpty, IInv, TypeOK
  <1>2. QueuedOnce'
    BY <1>1 DEF QueuedOnce
  <1>3. Queued(Head(piece_queue))
    BY <1>1 DEF Queued
  <1>4. ASSUME NEW p, Queued(p)'
        PROVE  Queued(p) /\ p # Head(piece_queue)
    <2>1. PICK i \in 1 .. Len(piece_queue) - 1 : piece_queue[i + 1] = p
      BY <1>1, <1>4 DEF Queued
    <2>2. i + 1 \in 1 .. Len(piece_queue) /\ i + 1 # 1
      BY <1>1, <2>1
    <2>3. piece_queue[1] # p
      BY <1>1, <2>1, <2>2 DEF QueuedOnce
    <2> QED BY <1>1, <2>1, <2>2, <2>3 DEF Queued
  <1>5. \A p : Queued(p) => Queued(p)' \/ p = Head(piece_queue)
    BY PopQueued DEF IInv, TypeOK
  <1> QED BY <1>2, <1>3, <1>4, <1>5

LEMMA PushClaims ==
    ASSUME IInv, QueuedOnce, NEW x \in Pieces, ~Queued(x), Push(x)
    PROVE  QueuedOnce'
  <1>1. /\ Len(piece_queue) \in Nat
        /\ Len(piece_queue') = Len(piece_queue) + 1
        /\ piece_queue'[Len(piece_queue) + 1] = x
        /\ \A i \in 1 .. Len(piece_queue) : piece_queue'[i] = piece_queue[i]
    BY DEF Push, IInv, TypeOK
  <1>2. \A i \in 1 .. Len(piece_queue) : piece_queue[i] # x
    BY DEF Queued
  <1> QED BY <1>1, <1>2 DEF QueuedOnce

LEMMA InitClaims == Init => ClaimInv
  <1> SUFFICES ASSUME Init PROVE ClaimInv
    OBVIOUS
  <1>1. IInv
    BY InitIInv
  <1>2. QueuedOnce
    BY OrchestratorAssumption DEF Init, QueuedOnce
  <1>3. NeverSkips /\ Unstored /\ ClaimedOnce
    BY DEF Init, NeverSkips, Unstored, ClaimedOnce
  <1> QED BY <1>1, <1>2, <1>3 DEF ClaimInv

\* Steps that touch neither the queue nor the results nor a download.
LEMMA SameClaims ==
    ASSUME QueuedOnce, Unstored, ClaimedOnce, UNCHANGED shared,
           \A v \in Peers : pc'[v] = "download"
               => pc[v] = "download" /\ piece_index'[v] = piece_index[v]
    PROVE  QueuedOnce' /\ Unstored' /\ ClaimedOnce'
  <1>1. \A p : Queued(p)' <=> Queued(p)
    BY DEF Queued, shared
  <1> QED BY <1>1 DEF QueuedOnce, Unstored, ClaimedOnce, shared

LEMMA NextNeverSkips ==
    ASSUME CompletePeers, IInv, NeverSkips, [Next]_vars
    PROVE  NeverSkips'
  <1> USE DEF IInv, TypeOK, NeverSkips, Goto, coordinator, conversation,
              loopLocals, shared
  <1>1. ASSUME NEW w \in Peers, Spawn(w) PROVE NeverSkips'
    BY <1>1 DEF Spawn
  <1>2. ASSUME NEW w \in Peers, AwaitBitfield(w) PROVE NeverSkips'
    <2>1. PICK b \in Advertises[w] : bitfield' = [bitfield EXCEPT ![w] = b]
      BY <1>2 DEF AwaitBitfield
    <2>2. b = Pieces
      BY <2>1 DEF CompletePeers
    <2> QED BY <1>2, <2>1, <2>2 DEF AwaitBitfield
  <1>3. ASSUME NEW w \in Peers, AwaitUnchoke(w) \/ UpdateBitfield(w) PROVE NeverSkips'
    <2>1. CASE AwaitUnchoke(w)
      BY <2>1 DEF AwaitUnchoke
    <2>2. CASE UpdateBitfield(w)
      <3>1. PICK b \in {bitfield[w] \cup {p} : p \in Pieces} \cup Advertises[w] :
                    bitfield' = [bitfield EXCEPT ![w] = b]
        BY <2>2 DEF UpdateBitfield
      <3>2. b = Pieces \/ b = bitfield[w]
        <4>1. bitfield[w] = Pieces
          BY <2>2 DEF UpdateBitfield
        <4>2. CASE b \in Advertises[w]
          BY <4>2 DEF CompletePeers
        <4>3. ASSUME NEW p \in Pieces, b = bitfield[w] \cup {p} PROVE b = bitfield[w]
          BY <4>1, <4>3
        <4> QED BY <3>1, <4>2, <4>3
      <3> QED BY <2>2, <3>1, <3>2 DEF UpdateBitfield
    <2> QED BY <1>3, <2>1, <2>2
  <1>4. ASSUME NEW w \in Peers, Connect(w) \/ Handshake(w) PROVE NeverSkips'
    BY <1>4 DEF Connect, Handshake
  <1>5. ASSUME NEW w \in Peers, ReadGarbage(w) \/ Drop(w) PROVE NeverSkips'
    BY <1>5 DEF ReadGarbage, Drop, CompletePeers
  <1>6. ASSUME NEW w \in Peers, PeekMiss(w) PROVE NeverSkips'
    <2>1. Head(piece_queue) \in Pieces
      BY <1>6, FrontIsPiece DEF PeekMiss
    <2> QED BY <1>6, <2>1 DEF PeekMiss
  <1>7. ASSUME NEW w \in Peers,
               PeekEmpty(w) \/ PeekHit(w) \/ PopEmpty(w) \/ PopFront(w)
        PROVE  NeverSkips'
    BY <1>7 DEF PeekEmpty, PeekHit, PopEmpty, PopFront
  <1>8. ASSUME NEW w \in Peers, SkipPop(w) \/ SkipPush(w) PROVE NeverSkips'
    BY <1>8 DEF SkipPop, SkipPush
  <1>9. ASSUME NEW w \in Peers, Succeed(w) \/ Fail(w) PROVE NeverSkips'
    BY <1>9 DEF Succeed, Fail
  <1>10. CASE BeginJoin \/ Return \/ Finished \/ UNCHANGED vars
    BY <1>10 DEF BeginJoin, Return, Finished, vars
  <1> QED
    BY <1>1, <1>2, <1>3, <1>4, <1>5, <1>6, <1>7, <1>8, <1>9, <1>10
    DEF Next, Setup, Loop

LEMMA NextClaims ==
    ASSUME CompletePeers, ClaimInv, [Next]_vars
    PROVE  ClaimInv'
  <1>1. IInv' /\ NeverSkips'
    BY NextIInv, NextNeverSkips DEF ClaimInv
  <1> SUFFICES QueuedOnce' /\ Unstored' /\ ClaimedOnce'
    BY <1>1 DEF ClaimInv
  <1> USE DEF ClaimInv, IInv, TypeOK
  <1>2. ASSUME NEW w \in Peers,
               Spawn(w) \/ Setup(w) \/ Drop(w) \/ PeekEmpty(w) \/ PeekMiss(w)
               \/ PeekHit(w) \/ PopEmpty(w)
        PROVE  QueuedOnce' /\ Unstored' /\ ClaimedOnce'
    <2>1. /\ UNCHANGED shared
          /\ \A v \in Peers : pc'[v] = "download"
                 => pc[v] = "download" /\ piece_index'[v] = piece_index[v]
      BY <1>2 DEF Spawn, Setup, Connect, Handshake, AwaitBitfield,
                  AwaitUnchoke, UpdateBitfield, ReadGarbage, Drop, PeekEmpty, PeekMiss,
                  PeekHit, PopEmpty, Peek, Goto, loopLocals, shared
    <2> QED BY <2>1, SameClaims
  <1>3. ASSUME NEW w \in Peers, SkipPop(w) \/ SkipPush(w) PROVE FALSE
    BY <1>3 DEF SkipPop, SkipPush, NeverSkips
  <1>4. ASSUME NEW w \in Peers, PopFront(w)
        PROVE  QueuedOnce' /\ Unstored' /\ ClaimedOnce'
    <2>1. /\ QueuedOnce'
          /\ Queued(Head(piece_queue))
          /\ \A p : Queued(p)' <=> Queued(p) /\ p # Head(piece_queue)
      BY <1>4, PopClaims DEF PopFront
    <2>2. /\ results' = results
          /\ piece_index'[w] = Head(piece_queue)
          /\ \A v \in Peers : v # w => /\ pc'[v] = pc[v]
                                       /\ piece_index'[v] = piece_index[v]
      BY <1>4 DEF PopFront, Pop, Goto
    <2>3. Head(piece_queue) \notin results
      BY <2>1 DEF ClaimedOnce
    <2>4. Unstored'
      BY <2>2, <2>3 DEF Unstored
    <2>5. \A v \in Peers : v # w /\ pc'[v] = "download"
              => piece_index'[v] # Head(piece_queue)
      BY <2>1, <2>2 DEF ClaimedOnce
    <2>6. \A u, v \in Peers :
              /\ pc'[u] = "download" /\ pc'[v] = "download"
              /\ piece_index'[u] = piece_index'[v]
              => u = v
      BY SMTT(30), <2>2, <2>5 DEF ClaimedOnce
    <2>7. \A v \in Peers : pc'[v] = "download" => ~Queued(piece_index[v])'
      BY <2>1, <2>2 DEF ClaimedOnce
    <2>8. \A p \in results' : ~Queued(p)'
      BY <2>1, <2>2 DEF ClaimedOnce
    <2> QED BY <2>1, <2>4, <2>6, <2>7, <2>8 DEF ClaimedOnce
  <1>5. ASSUME NEW w \in Peers, Succeed(w)
        PROVE  QueuedOnce' /\ Unstored' /\ ClaimedOnce'
    <2>1. /\ pc[w] = "download" /\ pc'[w] = "peek"
          /\ results' = results \cup {piece_index[w]}
          /\ UNCHANGED <<piece_queue, piece_index>>
          /\ \A v \in Peers : v # w => pc'[v] = pc[v]
      BY <1>5 DEF Succeed, Goto, loopLocals
    <2>2. \A p : Queued(p)' <=> Queued(p)
      BY <2>1 DEF Queued
    <2> QED BY <2>1, <2>2 DEF QueuedOnce, Unstored, ClaimedOnce
  <1>6. ASSUME NEW w \in Peers, Fail(w)
        PROVE  QueuedOnce' /\ Unstored' /\ ClaimedOnce'
    <2>1. /\ pc[w] = "download" /\ pc'[w] = "peek"
          /\ Push(piece_index[w])
          /\ piece_index[w] \in Pieces
          /\ UNCHANGED <<results, piece_index>>
          /\ \A v \in Peers : v # w => pc'[v] = pc[v]
      BY <1>6 DEF Fail, Goto, loopLocals, Holds
    <2>2. ~Queued(piece_index[w]) /\ piece_index[w] \notin results
      BY <2>1 DEF ClaimedOnce, Unstored
    <2>3. QueuedOnce'
      BY <2>1, <2>2, PushClaims
    <2>4. \A p : Queued(p)' <=> Queued(p) \/ p = piece_index[w]
      BY <2>1, PushQueued
    <2> QED BY <2>1, <2>2, <2>3, <2>4 DEF Unstored, ClaimedOnce
  <1>7. CASE BeginJoin \/ Return \/ Finished \/ UNCHANGED vars
    BY <1>7, SameClaims DEF BeginJoin, Return, Finished, vars, loopLocals, shared
  <1> QED
    BY <1>2, <1>3, <1>4, <1>5, <1>6, <1>7 DEF Next, Loop

\* When every peer has every piece and none hangs up, no piece is downloaded
\* by two threads, offered while it is downloaded, or offered once stored: the
\* peek-then-pop race is harmless exactly because nothing is ever skipped.
THEOREM ClaimsExclusive ==
    ASSUME CompletePeers
    PROVE  Spec => []ClaimedOnce
  <1>1. ClaimInv /\ [Next]_vars => ClaimInv'
    BY NextClaims
  <1>2. ClaimInv => ClaimedOnce
    BY DEF ClaimInv
  <1> QED BY <1>1, <1>2, InitClaims, PTL DEF Spec

-----------------------------------------------------------------------------
(***************************************************************************)
(* A download with a single thread: it downloads only what its peer        *)
(* advertised, and it ends only when it has stored all of it.  With no     *)
(* other thread at the queue, peek and pop see the same front, and a skip  *)
(* turns the queue by one: the pieces skipped since the last hit are its   *)
(* rear, so that after NumPieces + 1 skips the peer has none that is left. *)
(***************************************************************************)

OneThread == MaxThreads = 1 \/ \A v, w \in Peers : v = w

Alone == \A v, w \in threads : v = w

\* No more entries than pieces, in the queue and in the thread's hands.
Fits == /\ Len(piece_queue) <= NumPieces
        /\ \A w \in Peers : Holds(w) => Len(piece_queue) < NumPieces

Beginning == {"unborn", "connect", "handshake"}

Rear(w) == \A i \in 1 .. Len(piece_queue) :
               i > Len(piece_queue) - skip_count[w]
                   => piece_queue[i] \notin bitfield[w]

InTurn(w) ==
    /\ pc[w] \in Beginning => bitfield[w] = {}
    /\ pc[w] \in Beginning \cup {"await_bitfield", "await_unchoke", "pop",
                                 "download"}
           => skip_count[w] = 0
    /\ pc[w] \in {"skip_pop", "pop"}
           => ~QueueIsEmpty /\ piece_index[w] = Head(piece_queue)
    /\ pc[w] \in {"pop", "download"} => piece_index[w] \in bitfield[w]
    /\ pc[w] \in {"skip_pop", "skip_push"} => piece_index[w] \notin bitfield[w]
    /\ pc[w] \in {"peek", "skip_pop", "skip_push"} => Rear(w)
    /\ pc[w] = "exit" => bitfield[w] \subseteq results

LoneInv == /\ IInv /\ NoPieceLost
           /\ Alone /\ Fits
           /\ \A w \in Peers : InTurn(w)

-----------------------------------------------------------------------------
LEMMA InitLone == Init => LoneInv
  <1> SUFFICES ASSUME Init PROVE LoneInv
    OBVIOUS
  <1>1. IInv /\ NoPieceLost
    BY InitIInv, InitNoPieceLost
  <1>2. Fits
    BY OrchestratorAssumption DEF Init, Fits, Holds
  <1>3. Alone /\ \A w \in Peers : InTurn(w)
    BY DEF Init, Alone, InTurn, Beginning
  <1> QED BY <1>1, <1>2, <1>3 DEF LoneInv

LEMMA NextAlone ==
    ASSUME OneThread, IInv, Alone, [Next]_vars
    PROVE  Alone'
  <1>1. ASSUME NEW w \in Peers, Spawn(w) PROVE Alone'
    <2>1. CASE MaxThreads = 1
      <3>1. Cardinality(threads) = 0
        BY <1>1, <2>1, FiniteThreads DEF Spawn
      <3>2. threads = {}
        BY <3>1, FiniteThreads, FS_EmptySet
      <3> QED BY <1>1, <3>2 DEF Spawn, Alone
    <2>2. CASE \A u, v \in Peers : u = v
      BY <1>1, <2>2 DEF Spawn, Alone, IInv, TypeOK
    <2> QED BY <2>1, <2>2 DEF OneThread
  <1>2. CASE UNCHANGED threads
    BY <1>2 DEF Alone
  <1> QED
    BY <1>1, <1>2
    DEF Next, Setup, Drop, Loop, Succeed, Fail, Connect, Handshake,
        AwaitBitfield, AwaitUnchoke, UpdateBitfield, ReadGarbage, PeekEmpty, PeekMiss,
        PeekHit, SkipPop, SkipPush, PopEmpty, PopFront, BeginJoin, Return,
        Finished, vars, coordinator

\* While w runs no other thread does.
LEMMA OthersUnborn ==
    ASSUME IInv, Alone, NEW w \in Peers, pc[w] # "unborn",
           NEW v \in Peers, v # w
    PROVE  pc[v] = "unborn"
  BY DEF IInv, ThreadsRun, Alone

\* What the thread changes is nobody else's.
LEMMA OthersInTurn ==
    ASSUME LoneInv, NEW w \in Peers, pc[w] # "unborn",
           NEW v \in Peers, v # w,
           pc'[v] = pc[v], bitfield'[v] = bitfield[v],
           skip_count'[v] = skip_count[v]
    PROVE  InTurn(v)'
  <1>1. pc[v] = "unborn"
    BY OthersUnborn DEF LoneInv
  <1> QED BY <1>1 DEF LoneInv, InTurn, Beginning

\* The steps before the download loop, and those outside of the thread.
LEMMA SetupLone ==
    ASSUME LoneInv, NEW w \in Peers, Spawn(w) \/ Setup(w) \/ Drop(w)
    PROVE  Fits' /\ InTurn(w)'
  <1> USE DEF LoneInv, InTurn, Beginning, Fits, Holds, Goto, coordinator,
              conversation, loopLocals, shared, IInv, TypeOK
  <1>1. CASE Spawn(w)
    <2>1. pc[w] = "unborn"
      BY <1>1 DEF Spawn, ThreadsRun
    <2> QED BY <1>1, <2>1 DEF Spawn
  <1>2. CASE Connect(w)
    BY <1>2 DEF Connect
  <1>3. CASE Handshake(w)
    BY <1>3 DEF Handshake
  <1>4. CASE AwaitBitfield(w)
    BY <1>4 DEF AwaitBitfield
  <1>5. CASE AwaitUnchoke(w) \/ UpdateBitfield(w)
    <2>1. Fits'
      BY <1>5 DEF AwaitUnchoke, UpdateBitfield
    <2>2. pc[w] = "await_unchoke" /\ skip_count'[w] = 0
      BY <1>5 DEF AwaitUnchoke, UpdateBitfield
    <2>3. pc'[w] \in {"await_unchoke", "peek"}
      BY <1>5 DEF AwaitUnchoke, UpdateBitfield
    <2>4. Rear(w)'
      BY <1>5, <2>2 DEF AwaitUnchoke, UpdateBitfield, Rear
    <2> QED BY <2>1, <2>2, <2>3, <2>4
  <1>6. CASE ReadGarbage(w)
    <2>1. Fits'
      BY <1>6 DEF ReadGarbage
    <2>2. /\ pc[w] \in {"await_bitfield", "await_unchoke"}
          /\ skip_count'[w] = 0
          /\ pc'[w] \in {"await_unchoke", "peek"}
      BY <1>6 DEF ReadGarbage
    <2>3. Rear(w)'
      BY <1>6, <2>2 DEF ReadGarbage, Rear
    <2> QED BY <2>1, <2>2, <2>3
  <1>7. CASE Drop(w)
    BY <1>7 DEF Drop, Rear, QueueIsEmpty
  <1> QED BY <1>1, <1>2, <1>3, <1>4, <1>5, <1>6, <1>7 DEF Setup

\* A single thread at the peek holds nothing, and nobody else does.
LEMMA AllAccounted ==
    ASSUME LoneInv, NEW w \in Peers, pc[w] \in {"peek", "skip_push"},
           NEW p \in bitfield[w], p # piece_index[w] \/ pc[w] = "peek"
    PROVE  p \in results \/ Queued(p)
  <1>1. p \in Pieces
    BY DEF LoneInv, IInv, TypeOK
  <1>2. \A v \in Peers : Holds(v) => v = w /\ pc[w] = "skip_push"
    BY OthersUnborn DEF LoneInv, Holds
  <1> QED BY <1>1, <1>2 DEF LoneInv, NoPieceLost

LEMMA LoopLone ==
    ASSUME LoneInv, NEW w \in Peers, Loop(w) \/ Succeed(w) \/ Fail(w)
    PROVE  Fits' /\ InTurn(w)'
  <1> USE OrchestratorAssumption
      DEF InTurn, Beginning, Holds, Goto, coordinator, conversation, loopLocals,
          shared
  <1>1. /\ pc \in [Peers -> Labels] /\ skip_count \in [Peers -> Nat]
        /\ piece_index \in [Peers -> Int] /\ piece_queue \in Seq(Pieces)
        /\ bitfield[w] \subseteq Pieces /\ Len(piece_queue) \in Nat
        /\ InTurn(w) /\ Fits
        /\ \A v \in Peers : v # w => pc[w] = "unborn" \/ pc[v] = "unborn"
    BY OthersUnborn DEF LoneInv, IInv, TypeOK
  <1>2. CASE PeekEmpty(w)
    <2>1. /\ pc[w] = "peek" /\ pc'[w] = "exit" /\ piece_queue = <<>>
          /\ UNCHANGED <<piece_queue, bitfield, results>>
      BY <1>1, <1>2 DEF PeekEmpty, QueueIsEmpty
    <2>2. bitfield[w] \subseteq results
      BY <2>1, AllAccounted DEF Queued
    <2>3. Fits'
      BY <1>1, <1>2 DEF PeekEmpty, Fits
    <2> QED BY <2>1, <2>2, <2>3
  <1>3. CASE PeekMiss(w)
    BY <1>1, <1>3 DEF PeekMiss, Peek, Fits, Rear, QueueIsEmpty
  <1>4. CASE PeekHit(w)
    BY <1>1, <1>4 DEF PeekHit, Peek, Fits, QueueIsEmpty
  <1>5. CASE SkipPop(w)
    <2>1. /\ pc[w] = "skip_pop" /\ pc'[w] = "skip_push"
          /\ ~QueueIsEmpty /\ Pop(w)
          /\ UNCHANGED <<bitfield, skip_count, results>>
          /\ \A v \in Peers : v # w => pc'[v] = "unborn"
      BY <1>1, <1>5 DEF SkipPop
    <2>2. /\ Len(piece_queue') = Len(piece_queue) - 1
          /\ \A i \in 1 .. Len(piece_queue) - 1 :
                 piece_queue'[i] = piece_queue[i + 1]
      BY <1>1, <2>1 DEF Pop, QueueIsEmpty
    <2>3. piece_index'[w] \notin bitfield[w]
      BY <1>1, <2>1 DEF Pop
    <2>4. Rear(w)'
      <3> SUFFICES ASSUME NEW i \in 1 .. Len(piece_queue'),
                          i > Len(piece_queue') - skip_count'[w]
                   PROVE  piece_queue'[i] \notin bitfield'[w]
        BY DEF Rear
      <3>1. /\ i + 1 \in 1 .. Len(piece_queue)
            /\ i + 1 > Len(piece_queue) - skip_count[w]
        BY <1>1, <2>1, <2>2
      <3> QED BY <1>1, <2>1, <2>2, <3>1 DEF Rear
    <2>5. Fits'
      BY <1>1, <2>1, <2>2 DEF Fits
    <2> QED BY <2>1, <2>3, <2>4, <2>5
  <1>6. CASE SkipPush(w)
    <2>1. /\ pc[w] = "skip_push" /\ Push(piece_index[w])
          /\ skip_count'[w] = skip_count[w] + 1
          /\ UNCHANGED <<bitfield, results>>
          /\ pc' = [pc EXCEPT ![w] =
                        IF skip_count'[w] > NumPieces THEN "exit" ELSE "peek"]
      BY <1>1, <1>6 DEF SkipPush
    <2>2. /\ Len(piece_queue') = Len(piece_queue) + 1
          /\ piece_queue'[Len(piece_queue) + 1] = piece_index[w]
          /\ \A i \in 1 .. Len(piece_queue) : piece_queue'[i] = piece_queue[i]
      BY <1>1, <2>1 DEF Push
    <2>3. Rear(w)'
      <3> SUFFICES ASSUME NEW i \in 1 .. Len(piece_queue'),
                          i > Len(piece_queue') - skip_count'[w]
                   PROVE  piece_queue'[i] \notin bitfield'[w]
        BY DEF Rear
      <3>1. CASE i = Len(piece_queue) + 1
        BY <1>1, <2>1, <2>2, <3>1
      <3>2. CASE i # Len(piece_queue) + 1
        <4>1. /\ i \in 1 .. Len(piece_queue)
              /\ i > Len(piece_queue) - skip_count[w]
          BY <1>1, <2>1, <2>2, <3>2
        <4> QED BY <1>1, <2>1, <2>2, <4>1 DEF Rear
      <3> QED BY <3>1, <3>2
    <2>4. Fits'
      BY <1>1, <2>1, <2>2 DEF Fits, Labels
    <2>5. ASSUME pc'[w] = "exit" PROVE bitfield[w] \subseteq results
      <3>1. skip_count'[w] > NumPieces
        BY <1>1, <2>1, <2>5
      <3>2. \A i \in 1 .. Len(piece_queue) : piece_queue[i] \notin bitfield[w]
        <4> SUFFICES ASSUME NEW i \in 1 .. Len(piece_queue)
                     PROVE  piece_queue'[i] \notin bitfield[w]
          BY <2>2
        <4>1. /\ i \in 1 .. Len(piece_queue')
              /\ i > Len(piece_queue') - skip_count'[w]
          BY <1>1, <2>1, <2>2, <2>4, <3>1 DEF Fits
        <4> QED BY <2>1, <2>3, <4>1 DEF Rear
      <3>3. piece_index[w] \notin bitfield[w]
        BY <1>1, <2>1
      <3> QED BY <2>1, <3>2, <3>3, AllAccounted DEF Queued
    <2>6. pc'[w] \in {"peek", "exit"}
      BY <1>1, <2>1
    <2> QED BY <2>1, <2>3, <2>4, <2>5, <2>6
  <1>7. CASE PopEmpty(w)
    BY <1>1, <1>7 DEF PopEmpty
  <1>8. CASE PopFront(w)
    <2>1. Len(piece_queue') = Len(piece_queue) - 1
      BY <1>1, <1>8 DEF PopFront, Pop, QueueIsEmpty
    <2>2. /\ pc[w] = "pop" /\ pc'[w] = "download" /\ piece_index'[w] \in bitfield[w]
          /\ UNCHANGED <<bitfield, skip_count>>
          /\ \A v \in Peers : v # w => pc'[v] = "unborn"
      BY <1>1, <1>8 DEF PopFront, Pop
    <2>3. Fits'
      BY <1>1, <2>1, <2>2 DEF Fits
    <2> QED BY <1>1, <2>2, <2>3
  <1>9. CASE Succeed(w)
    <2>1. Fits' /\ pc'[w] = "peek" /\ skip_count'[w] = 0
      BY <1>1, <1>9 DEF Succeed, Fits
    <2>2. Rear(w)'
      BY <1>1, <1>9, <2>1 DEF Succeed, Rear
    <2> QED BY <2>1, <2>2
  <1>10. CASE Fail(w)
    <2>1. pc[w] = "download" /\ pc'[w] = "peek" /\ skip_count'[w] = 0
      BY <1>1, <1>10 DEF Fail
    <2>2. piece_queue' \in Seq(Pieces) /\ Len(piece_queue') = Len(piece_queue) + 1
      <3>1. piece_index[w] \in Pieces
        BY <1>1, <2>1
      <3> QED BY <1>1, <1>10, <3>1 DEF Fail, Push
    <2>3. Rear(w)'
      BY <2>1, <2>2 DEF Rear
    <2>4. Fits'
      BY <1>1, <1>10, <2>1, <2>2 DEF Fail, Fits, Labels
    <2> QED BY <2>1, <2>3, <2>4
  <1> QED
    BY <1>2, <1>3, <1>4, <1>5, <1>6, <1>7, <1>8, <1>9, <1>10 DEF Loop

LEMMA NextLone ==
    ASSUME OneThread, LoneInv, [Next]_vars
    PROVE  LoneInv'
  <1>1. IInv' /\ NoPieceLost' /\ Alone'
    BY NextIInv, NextNoPieceLost, NextAlone DEF LoneInv
  <1>2. ASSUME NEW w \in Peers, Spawn(w)
        PROVE  Fits' /\ \A v \in Peers : InTurn(v)'
    <2>1. ASSUME NEW v \in Peers, v # w PROVE InTurn(v)'
      BY <1>2, <2>1
      DEF LoneInv, IInv, TypeOK, Spawn, conversation, loopLocals, shared,
          InTurn, Rear, QueueIsEmpty
    <2> QED BY <1>2, <2>1, SetupLone
  <1>3. ASSUME NEW w \in Peers,
               Setup(w) \/ Drop(w) \/ Loop(w) \/ Succeed(w) \/ Fail(w)
        PROVE  Fits' /\ \A v \in Peers : InTurn(v)'
    <2>1. /\ pc[w] # "unborn"
          /\ \A v \in Peers : v # w => /\ pc'[v] = pc[v]
                                       /\ bitfield'[v] = bitfield[v]
                                       /\ skip_count'[v] = skip_count[v]
      BY <1>3
      DEF LoneInv, IInv, TypeOK, Goto, conversation, loopLocals, Setup, Drop,
          Loop, Succeed, Fail, Connect, Handshake, AwaitBitfield, AwaitUnchoke,
          UpdateBitfield, ReadGarbage, PeekEmpty, PeekMiss, PeekHit, SkipPop, SkipPush,
          PopEmpty, PopFront
    <2>2. ASSUME NEW v \in Peers, v # w PROVE InTurn(v)'
      BY <2>1, <2>2, OthersInTurn
    <2> QED BY <1>3, <2>2, SetupLone, LoopLone
  <1>4. ASSUME BeginJoin \/ Return \/ Finished \/ UNCHANGED vars
        PROVE  Fits' /\ \A v \in Peers : InTurn(v)'
    <2>1. UNCHANGED <<pc, bitfield, piece_index, skip_count, piece_queue, results>>
      BY <1>4
      DEF BeginJoin, Return, Finished, vars, conversation, loopLocals, shared
    <2>2. Fits'
      BY <2>1 DEF LoneInv, Fits, Holds
    <2>3. ASSUME NEW v \in Peers PROVE InTurn(v)'
      <3>1. Rear(v)' <=> Rear(v)
        BY <2>1 DEF Rear
      <3> QED BY <2>1, <3>1 DEF LoneInv, InTurn, QueueIsEmpty
    <2> QED BY <2>2, <2>3
  <1>5. Fits' /\ \A v \in Peers : InTurn(v)'
    <2>1. CASE \E w \in Peers : \/ Spawn(w) \/ Setup(w) \/ Drop(w) \/ Loop(w)
                                \/ Succeed(w) \/ Fail(w)
      <3>1. PICK w \in Peers : \/ Spawn(w) \/ Setup(w) \/ Drop(w) \/ Loop(w)
                              \/ Succeed(w) \/ Fail(w)
        BY <2>1
      <3> QED BY <1>2, <1>3, <3>1
    <2> QED BY <1>4, <2>1 DEF Next
  <1> QED BY <1>1, <1>5 DEF LoneInv

LEMMA LoneInductive ==
    ASSUME OneThread
    PROVE  Spec => []LoneInv
  <1>1. LoneInv /\ [Next]_vars => LoneInv'
    BY NextLone
  <1> QED BY <1>1, InitLone, PTL DEF Spec

\* One thread that ends, for whatever reason, has stored every piece that is in
\* its peer's bitfield: the limit on the skips is not one too small.
THEOREM LoneSatisfied ==
    ASSUME OneThread
    PROVE  Spec => []ExitsSatisfied
  <1>1. LoneInv => ExitsSatisfied
    BY DEF LoneInv, InTurn, ExitsSatisfied
  <1> QED BY <1>1, LoneInductive, PTL
=============================================================================

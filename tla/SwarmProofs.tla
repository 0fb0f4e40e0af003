---------------------------- MODULE SwarmProofs ----------------------------
(***************************************************************************)
(* The wire implements the Orchestrator, for any peers, bitfields, pieces, *)
(* blocks, quirks and faults, and so what is proved of the Orchestrator    *)
(* holds of the program that talks to real peers; and what is stored is    *)
(* genuine.                                                                *)
(*                                                                         *)
(* Two facts are not local to a step: every Bitfield under way is one its  *)
(* peer may send (Greeted), and before the first is read there are no bits *)
(* for a Have to set (Unheard).  The types of the messages under way rest  *)
(* on those of the queue, which OrchestratorProofs shows to be inductive;  *)
(* both are carried through the steps together.                            *)
(***************************************************************************)
EXTENDS Swarm, TLAPS

Proved == INSTANCE OrchestratorProofs WITH Faults <- FaultKinds

LEMMA FaultKindsAllowed ==
    /\ Proved!IsFiniteSet(Peers)
    /\ MaxThreads \in Nat
    /\ NumPieces \in Nat
    /\ Advertises \in [Peers -> SUBSET SUBSET Proved!Pieces]
    /\ FaultKinds \subseteq Proved!FaultKinds
  <1>1. Proved!IsFiniteSet(Peers)
    BY OrchestratorAssumption DEF Proved!IsFiniteSet, IsFiniteSet
  <1> QED
    BY <1>1, OrchestratorAssumption
    DEF Proved!FaultKinds, FaultKinds, Proved!Pieces, Pieces

-----------------------------------------------------------------------------
(* Messages under way *)

\* Every Bitfield of q is one of s.
Advertised(q, s) == \A k \in 1 .. Len(q) : q[k].id = "Bitfield" => q[k].pieces \in s

Talking == {"await_unchoke", "peek", "skip_pop", "skip_push", "pop", "download"}

Greeted == \A w \in Peers : Advertised(inbox[w], Advertises[w])

\* Until the first Bitfield is read there is none.
Early == {"unborn", "connect", "handshake", "await_bitfield"}

Unheard == \A w \in Peers : pc[w] \in Early => bitfield_size[w] = 0

PeerStates == [open : BOOLEAN, spoken : BOOLEAN, unchoking : BOOLEAN,
               has : SUBSET Pieces, chatter : Nat]

PeerType == peer \in [Peers -> PeerStates]

\* Only between its bitfield and its Unchoke is Interested to be sent.
StepsFit == \A w \in Peers : step[w] = "interested" => pc[w] = "await_unchoke"

WireInv == SwarmTypeOK /\ PeerType /\ StepsFit /\ Unheard /\ Greeted

LEMMA MessageFields ==
    ASSUME NEW m \in Messages
    PROVE  /\ m.id = "Piece" => m.data \in Contents
           /\ m.id = "Bitfield" => /\ m.pieces \in SUBSET Pieces
                                   /\ m.size \in 0 .. NumPieces
                                   /\ \A p \in m.pieces : p < m.size
           /\ m.id = "Have" => m.piece \in Pieces
  BY DEF Messages, Bitfields, Plain, BitfieldMsg, HaveMsg, PieceMsg

LEMMA ReadOne ==
    ASSUME NEW q \in Seq(Messages), q # <<>>, NEW s, Advertised(q, s)
    PROVE  /\ Head(q) \in Messages
           /\ Tail(q) \in Seq(Messages)
           /\ Advertised(Tail(q), s)
           /\ Head(q).id = "Bitfield" => Head(q).pieces \in s
  <1>1. /\ Len(q) \in Nat \ {0}
        /\ Head(q) = q[1] /\ Head(q) \in Messages
        /\ Tail(q) \in Seq(Messages) /\ Len(Tail(q)) = Len(q) - 1
        /\ \A k \in 1 .. Len(q) - 1 : Tail(q)[k] = q[k + 1]
    OBVIOUS
  <1>2. ASSUME NEW k \in 1 .. Len(Tail(q)), Tail(q)[k].id = "Bitfield"
        PROVE  Tail(q)[k].pieces \in s
    <2>1. k + 1 \in 1 .. Len(q) /\ Tail(q)[k] = q[k + 1]
      BY <1>1
    <2> QED BY <1>2, <2>1 DEF Advertised
  <1> QED BY <1>1, <1>2 DEF Advertised

LEMMA SayOne ==
    ASSUME NEW q \in Seq(Messages), NEW m \in Messages, NEW s, Advertised(q, s),
           m.id = "Bitfield" => m.pieces \in s
    PROVE  Append(q, m) \in Seq(Messages) /\ Advertised(Append(q, m), s)
  <1>1. /\ Len(q) \in Nat
        /\ Append(q, m) \in Seq(Messages)
        /\ Len(Append(q, m)) = Len(q) + 1
        /\ Append(q, m)[Len(q) + 1] = m
        /\ \A k \in 1 .. Len(q) : Append(q, m)[k] = q[k]
    OBVIOUS
  <1> QED BY <1>1 DEF Advertised

-----------------------------------------------------------------------------
(* Every step on the wire is one of the Orchestrator, or none *)

LEMMA TypesAgree == Proved!IInv => TypeOK
  BY DEF Proved!IInv, Proved!TypeOK, TypeOK, Proved!Pieces, Pieces,
         Proved!Labels, Labels, Proved!Holds, Holds

\* Without a connection the Orchestrator's steps are taken as they are.
LEMMA AloneAllowed ==
    ASSUME NEW w \in Peers
    PROVE  /\ Connect(w) => Proved!Connect(w)
           /\ Handshake(w) => Proved!Handshake(w)
           /\ QueueSteps(w) => Proved!Loop(w)
           /\ PopFront(w) => Proved!Loop(w)
  <1> USE DEF Proved!Goto, Goto, Proved!coordinator, coordinator,
              Proved!conversation, conversation, Proved!loopLocals, loopLocals,
              Proved!shared, shared, Proved!QueueIsEmpty, QueueIsEmpty
  <1>1. Connect(w) => Proved!Connect(w)
    BY OrchestratorAssumption DEF Connect, Proved!Connect, FaultKinds
  <1>2. Handshake(w) => Proved!Handshake(w)
    BY OrchestratorAssumption DEF Handshake, Proved!Handshake, FaultKinds
  <1>3. PeekEmpty(w) => Proved!PeekEmpty(w)
    BY DEF PeekEmpty, Proved!PeekEmpty
  <1>4. PeekMiss(w) => Proved!PeekMiss(w)
    BY DEF PeekMiss, Proved!PeekMiss, Peek, Proved!Peek
  <1>5. PeekHit(w) => Proved!PeekHit(w)
    BY DEF PeekHit, Proved!PeekHit, Peek, Proved!Peek
  <1>6. SkipPop(w) => Proved!SkipPop(w)
    BY DEF SkipPop, Proved!SkipPop, Pop, Proved!Pop
  <1>7. SkipPush(w) => Proved!SkipPush(w)
    BY DEF SkipPush, Proved!SkipPush, Push, Proved!Push
  <1>8. PopEmpty(w) => Proved!PopEmpty(w)
    BY DEF PopEmpty, Proved!PopEmpty
  <1>9. PopFront(w) => Proved!PopFront(w)
    BY DEF PopFront, Proved!PopFront, Pop, Proved!Pop
  <1> QED
    BY <1>1, <1>2, <1>3, <1>4, <1>5, <1>6, <1>7, <1>8, <1>9
    DEF QueueSteps, Proved!Loop

LEMMA CoordinatorAllowed == Coordinator => Proved!Next
  <1> SUFFICES ASSUME Coordinator PROVE Proved!Next
    OBVIOUS
  <1> USE DEF Proved!conversation, conversation, Proved!loopLocals, loopLocals,
              Proved!shared, shared
  <1>1. ASSUME NEW w \in Peers, Spawn(w) PROVE Proved!Spawn(w)
    BY <1>1 DEF Spawn, Proved!Spawn, Cardinality, Proved!Cardinality
  <1>2. BeginJoin => Proved!BeginJoin
    BY DEF BeginJoin, Proved!BeginJoin, Cardinality, Proved!Cardinality
  <1>3. Return => Proved!Return
    BY DEF Return, Proved!Return
  <1> QED BY <1>1, <1>2, <1>3 DEF Coordinator, Proved!Next

\* A socket that is closed after an error is a connection that is lost.
LEMMA LossAllowed ==
    ASSUME NEW w \in Peers, link[w] = "up", pc[w] \in Talking \cup {"await_bitfield"},
           link' = [link EXCEPT ![w] = "down"],
           UNCHANGED <<coordinator, pc, bitfield, loopLocals, shared>>
    PROVE  Proved!Drop(w)
  BY DEF Proved!Drop, FaultKinds, Proved!coordinator, coordinator,
         Proved!loopLocals, loopLocals, Proved!shared, shared, Talking

LEMMA GiveBackAllowed ==
    ASSUME NEW w \in Peers, pc[w] = "download", GiveBack(w),
           UNCHANGED <<coordinator, conversation, loopLocals>>
    PROVE  Proved!Fail(w)
  BY DEF Proved!Fail, GiveBack, FaultKinds, Proved!Push, Push, Proved!Goto, Goto,
         Proved!coordinator, coordinator, Proved!conversation, conversation,
         Proved!loopLocals, loopLocals

\* What handle_message does to the bitfield in the two setup loops.
LEMMA SetupAllowed ==
    ASSUME TypeOK, WireInv, NEW w \in Peers,
           ReceiveBitfield(w) \/ ReceiveUnchoke(w)
    PROVE  [Proved!Setup(w)]_vars
  <1> DEFINE m == Message(w)
  <1>1. /\ link[w] = "up" /\ inbox[w] \in Seq(Messages) /\ inbox[w] # <<>>
        /\ Advertised(inbox[w], Advertises[w])
        /\ m = Head(inbox[w])
        /\ bitfield \in [Peers -> SUBSET Pieces]
    BY DEF ReceiveBitfield, ReceiveUnchoke, Receive, WireInv, SwarmTypeOK,
           Greeted, Message, TypeOK
  <1>2. /\ m \in Messages
        /\ m.id = "Bitfield" => m.pieces \in Advertises[w]
    BY <1>1, ReadOne
  <1>3. m.id = "Have" => m.piece \in Pieces
    BY <1>2, MessageFields
  <1> USE DEF Proved!Goto, Goto, Proved!coordinator, coordinator,
              Proved!loopLocals, loopLocals, Proved!shared, shared,
              Proved!conversation, conversation, Proved!Pieces, HandleMessage
  <1>4. CASE ReceiveBitfield(w)
    <2>1. CASE m.id = "Bitfield"
      <3>1. Proved!AwaitBitfield(w)
        BY <1>1, <1>2, <1>4, <2>1 DEF ReceiveBitfield, Proved!AwaitBitfield
      <3> QED BY <3>1 DEF Proved!Setup
    <2>2. CASE m.id # "Bitfield"
      <3>1. bitfield_size[w] = 0 /\ bitfield_size[w] \in Nat
        BY <1>4 DEF ReceiveBitfield, WireInv, Unheard, Early
      <3>2. m.id = "Have" => ~(m.piece < bitfield_size[w])
        BY <1>3, <3>1, OrchestratorAssumption DEF Pieces
      <3>3. bitfield' = bitfield
        BY <1>1, <1>4, <2>2, <3>2 DEF ReceiveBitfield
      <3> QED BY <1>4, <2>2, <3>3 DEF ReceiveBitfield, vars
    <2> QED BY <2>1, <2>2
  <1>5. CASE ReceiveUnchoke(w)
    <2>1. pc[w] = "await_unchoke"
      BY <1>5 DEF ReceiveUnchoke
    <2>2. CASE m.id = "Unchoke"
      <3>1. bitfield' = bitfield
        BY <1>1, <1>5, <2>2 DEF ReceiveUnchoke
      <3>2. Proved!AwaitUnchoke(w)
        BY <1>1, <1>5, <2>2, <3>1 DEF ReceiveUnchoke, Proved!AwaitUnchoke
      <3> QED BY <3>2 DEF Proved!Setup
    <2>3. ASSUME m.id # "Unchoke",
                 NEW b \in {bitfield[w] \cup {p} : p \in Pieces} \cup Advertises[w],
                 bitfield' = [bitfield EXCEPT ![w] = b]
          PROVE  [Proved!Setup(w)]_vars
      <3>1. Proved!UpdateBitfield(w)
        <4>1. UNCHANGED <<coordinator, pc, link, loopLocals, shared>>
          BY <1>5, <2>3 DEF ReceiveUnchoke
        <4> HIDE DEF HandleMessage
        <4> QED BY <1>1, <2>1, <2>3, <4>1 DEF Proved!UpdateBitfield, Pieces
      <3> QED BY <3>1 DEF Proved!Setup
    <2>4. CASE m.id = "Bitfield"
      <3>1. bitfield' = [bitfield EXCEPT ![w] = m.pieces]
        BY <1>5, <2>4 DEF ReceiveUnchoke
      <3> QED BY <1>2, <2>3, <2>4, <3>1
    <2>5. CASE m.id = "Have" /\ m.piece < bitfield_size[w]
      <3>1. bitfield' = [bitfield EXCEPT ![w] = bitfield[w] \cup {m.piece}]
        BY <1>5, <2>5 DEF ReceiveUnchoke
      <3>2. bitfield[w] \cup {m.piece} \in {bitfield[w] \cup {p} : p \in Pieces}
        BY <1>3, <2>5
      <3> QED BY <2>3, <2>5, <3>1, <3>2
    <2>6. CASE m.id \notin {"Unchoke", "Bitfield"}
               /\ ~(m.id = "Have" /\ m.piece < bitfield_size[w])
      <3>1. bitfield' = bitfield
        BY <1>1, <1>5, <2>6 DEF ReceiveUnchoke
      <3> QED BY <1>5, <2>6, <3>1 DEF ReceiveUnchoke, vars
    <2> QED BY <2>2, <2>4, <2>5, <2>6
  <1> QED BY <1>4, <1>5

\* The calls of send lose the connection or change nothing of the Orchestrator.
LEMMA SendAllowed ==
    ASSUME TypeOK, WireInv, NEW w \in Peers, SendInterested(w) \/ SendRequest(w)
    PROVE  [Proved!Drop(w)]_vars
  <1>1. /\ pc[w] \in Talking
        /\ UNCHANGED <<coordinator, pc, bitfield, loopLocals, shared>>
    BY DEF SendInterested, SendRequest, WireInv, StepsFit, Talking
  <1>2. \/ UNCHANGED link
        \/ link[w] # "down" /\ link' = [link EXCEPT ![w] = "down"]
    BY DEF SendInterested, SendRequest, Send
  <1>3. CASE UNCHANGED link
    BY <1>1, <1>3 DEF vars, coordinator, loopLocals, shared
  <1>4. CASE link[w] # "down" /\ link' = [link EXCEPT ![w] = "down"]
    <2>1. link[w] = "up"
      BY <1>4 DEF TypeOK
    <2> QED BY <1>1, <1>4, <2>1, LossAllowed
  <1> QED BY <1>2, <1>3, <1>4

LEMMA DownloadAllowed ==
    ASSUME NEW w \in Peers, WireInv, DownloadPiece(w), ~SendRequest(w)
    PROVE  [Proved!Loop(w) \/ Proved!Succeed(w) \/ Proved!Fail(w)]_vars
  <1>1. CASE StartPiece(w)
    BY <1>1, AloneAllowed DEF StartPiece
  <1>2. CASE WrongReply(w)
    BY <1>2, GiveBackAllowed DEF WrongReply
  <1>3. CASE GarbageReply(w)
    BY <1>3, GiveBackAllowed DEF GarbageReply
  <1>4. CASE NextBlock(w)
    BY <1>4 DEF NextBlock
  <1>5. CASE LastBlock(w)
    <2>1. CASE Assembled(w) = GenuinePiece(piece_index[w])
      BY <1>5, <2>1
      DEF LastBlock, Receive, Proved!Succeed, Proved!Goto, Goto,
          Proved!coordinator, coordinator, Proved!conversation, conversation,
          Proved!loopLocals, loopLocals
    <2>2. CASE Assembled(w) # GenuinePiece(piece_index[w])
      BY <1>5, <2>2, GiveBackAllowed DEF LastBlock
    <2> QED BY <2>1, <2>2
  <1> QED BY <1>1, <1>2, <1>3, <1>4, <1>5 DEF DownloadPiece

LEMMA ConverseAllowed ==
    ASSUME TypeOK, WireInv, NEW w \in Peers, Converse(w)
    PROVE  [Proved!Setup(w) \/ Proved!Drop(w)]_vars
  <1>1. CASE SkipMessage(w)
    BY <1>1 DEF SkipMessage
  <1>2. CASE LoseConnection(w)
    <2>1. pc[w] \in Talking \cup {"await_bitfield"}
      BY <1>2 DEF LoseConnection, Listening, Talking
    <2> QED BY <1>2, <2>1, LossAllowed DEF LoseConnection
  <1>3. CASE ReceiveBitfield(w) \/ ReceiveUnchoke(w)
    BY <1>3, SetupAllowed
  <1>4. CASE ReceiveGarbage(w)
    <2>1. Proved!ReadGarbage(w)
      BY <1>4
      DEF ReceiveGarbage, ReadGarbage, Proved!ReadGarbage, Goto, Proved!Goto,
          Proved!coordinator, coordinator, Proved!loopLocals, loopLocals,
          Proved!shared, shared
    <2> QED BY <2>1 DEF Proved!Setup
  <1>5. CASE SendInterested(w)
    BY <1>5, SendAllowed
  <1> QED BY <1>1, <1>2, <1>3, <1>4, <1>5 DEF Converse

LEMMA StepAllowed ==
    ASSUME TypeOK, WireInv, [SwarmNext]_swarmVars
    PROVE  [Proved!Next]_(Proved!vars)
  <1> USE DEF Proved!vars, vars
  <1>1. CASE Coordinator
    BY <1>1, CoordinatorAllowed
  <1>2. ASSUME NEW w \in Peers, ThreadAlone(w)
        PROVE  Proved!Next
    BY <1>2, AloneAllowed DEF ThreadAlone, Proved!Next, Proved!Setup
  <1>3. ASSUME NEW w \in Peers, Converse(w)
        PROVE  [Proved!Next]_vars
    BY <1>3, ConverseAllowed DEF Proved!Next
  <1>4. ASSUME NEW w \in Peers, DownloadPiece(w)
        PROVE  [Proved!Next]_vars
    <2>1. CASE SendRequest(w)
      BY <2>1, SendAllowed DEF Proved!Next
    <2>2. CASE ~SendRequest(w)
      BY <1>4, <2>2, DownloadAllowed DEF Proved!Next
    <2> QED BY <2>1, <2>2
  <1>5. ASSUME NEW w \in Peers, Overread(w) \/ PeerStep(w)
        PROVE  UNCHANGED vars
    BY <1>5
    DEF Overread, PeerStep, Greet, Unchoke, Chat, Answer, HangUp, PeerUnchanged
  <1>6. CASE Over \/ UNCHANGED swarmVars
    BY <1>6 DEF Over, swarmVars
  <1> QED BY <1>1, <1>2, <1>3, <1>4, <1>5, <1>6 DEF SwarmNext

-----------------------------------------------------------------------------
(* The wire stays in order *)

LEMMA SameGreetings == Greeted /\ UNCHANGED inbox => Greeted'
  BY DEF Greeted

\* The first message of w is read.
LEMMA ReadGreetings ==
    ASSUME Greeted, NEW w \in Peers, Receive(w),
           inbox \in [Peers -> Seq(Messages)]
    PROVE  Greeted'
  <1>1. /\ inbox[w] \in Seq(Messages) /\ inbox[w] # <<>>
        /\ Advertised(inbox[w], Advertises[w])
        /\ inbox' = [inbox EXCEPT ![w] = Tail(@)]
    BY DEF Greeted, Receive
  <1>2. Advertised(Tail(inbox[w]), Advertises[w])
    BY <1>1, ReadOne
  <1> QED BY <1>1, <1>2 DEF Greeted

\* The peer sends a message; a Bitfield is one it may send.
LEMMA SayGreetings ==
    ASSUME Greeted, NEW w \in Peers, NEW m \in Messages, Say(w, m),
           inbox \in [Peers -> Seq(Messages)],
           m.id = "Bitfield" => m.pieces \in Advertises[w]
    PROVE  Greeted'
  <1>1. /\ inbox[w] \in Seq(Messages)
        /\ Advertised(inbox[w], Advertises[w])
        /\ inbox' = [inbox EXCEPT ![w] = Append(@, m)]
    BY DEF Greeted, Say
  <1>2. Advertised(Append(inbox[w], m), Advertises[w])
    BY <1>1, SayOne
  <1> QED BY <1>1, <1>2 DEF Greeted

LEMMA MessagesMade ==
    /\ \A id \in {"KeepAlive", "Choke", "Unchoke"} :
           Plain(id) \in Messages /\ Plain(id).id = id
    /\ \A p \in Pieces : HaveMsg(p) \in Messages /\ HaveMsg(p).id = "Have"
    /\ \A r \in Pieces \X Blocks, d \in Contents :
           PieceMsg(r, d) \in Messages /\ PieceMsg(r, d).id = "Piece"
  <1>1. ASSUME NEW id \in {"KeepAlive", "Choke", "Unchoke"}
        PROVE  Plain(id) \in Messages /\ Plain(id).id = id
    BY DEF Messages, Plain
  <1>2. ASSUME NEW p \in Pieces
        PROVE  HaveMsg(p) \in Messages /\ HaveMsg(p).id = "Have"
    BY DEF Messages, HaveMsg
  <1>3. ASSUME NEW r \in Pieces \X Blocks, NEW d \in Contents
        PROVE  PieceMsg(r, d) \in Messages /\ PieceMsg(r, d).id = "Piece"
    BY DEF Messages, PieceMsg
  <1> QED BY <1>1, <1>2, <1>3

\* What a peer may send as its bitfield.
LEMMA GreetingsMade ==
    ASSUME NEW w \in Peers, NEW m \in Greetings(w)
    PROVE  /\ m \in Messages /\ m.id = "Bitfield"
           /\ m.pieces \in Advertises[w] /\ m.pieces \in SUBSET Pieces
  <1>1. Advertises[w] \subseteq SUBSET Pieces
    BY OrchestratorAssumption
  <1>2. Sizes \subseteq 0 .. NumPieces
    BY OrchestratorAssumption DEF Sizes
  <1>3. PICK s \in Advertises[w], n \in Sizes : m = BitfieldMsg(s, n)
    BY DEF Greetings, Bitfields
  <1>4. \A p \in m.pieces : p < m.size
    BY DEF Greetings, Bitfields
  <1>5. m \in Bitfields(SUBSET Pieces, 0 .. NumPieces)
    BY <1>1, <1>2, <1>3, <1>4 DEF Bitfields
  <1> QED BY <1>1, <1>3, <1>5 DEF Messages, BitfieldMsg

\* The contents of blocks differ.
LEMMA ContentsMade ==
    /\ Unset \in Contents \ {Short} /\ Corrupt \in Contents \ {Short}
    /\ Short \in Contents
    /\ \A p \in Pieces, b \in Blocks : Genuine(p, b) \in Contents \ {Short}
    /\ EmptyPiece \in [Blocks -> Contents \ {Short}]
    /\ \A d \in Contents : Copied(d) \in Contents \ {Short}
  <1>1. Corrupt # Short /\ Unset # Short
    BY OrchestratorAssumption DEF Corrupt, Short, Unset
  <1>2. \A p \in Pieces, b \in Blocks : Genuine(p, b) # Short
    BY OrchestratorAssumption DEF Genuine, Short, Pieces
  <1> QED BY <1>1, <1>2 DEF Contents, EmptyPiece, Copied

LEMMA InitWire == SwarmInit => WireInv
  <1> SUFFICES ASSUME SwarmInit PROVE WireInv
    OBVIOUS
  <1>1. 0 \in Blocks
    BY SwarmAssumption DEF Blocks
  <1>2. SwarmTypeOK
    <2>1. <<>> \in Seq(Messages) /\ <<>> \in Seq(Pieces \X Blocks)
      OBVIOUS
    <2>2. /\ inbox \in [Peers -> Seq(Messages)]
          /\ asked \in [Peers -> Seq(Pieces \X Blocks)]
      BY <2>1 DEF SwarmInit
    <2>3. /\ piece_data \in [Peers -> [Blocks -> Contents \ {Short}]]
          /\ stored \in [Pieces -> [Blocks -> Contents \ {Short}]]
      BY ContentsMade DEF SwarmInit
    <2>4. /\ step \in [Peers -> {"idle", "interested", "request", "reply"}]
          /\ \A w \in Peers : pc[w] # "download"
          /\ \A w \in Peers : step[w] = "idle"
      BY DEF SwarmInit, Init
    <2>5. /\ bitfield_size \in [Peers -> 0 .. NumPieces]
          /\ \A w \in Peers : \A p \in bitfield[w] : p < bitfield_size[w]
      BY OrchestratorAssumption DEF SwarmInit, Init
    <2> QED BY <1>1, <2>2, <2>3, <2>4, <2>5 DEF SwarmInit, SwarmTypeOK
  <1>3. PeerType /\ StepsFit /\ Unheard
    BY DEF SwarmInit, PeerType, PeerStates, StepsFit, Unheard
  <1>4. Greeted
    BY DEF SwarmInit, Greeted, Advertised
  <1> QED BY <1>2, <1>3, <1>4 DEF WireInv

LEMMA PeerChanges ==
    ASSUME PeerType, NEW w \in Peers, NEW r \in PeerStates,
           peer' = [peer EXCEPT ![w] = r]
    PROVE  PeerType'
  BY DEF PeerType

LEMMA PeerKeeps ==
    ASSUME TypeOK, WireInv, NEW w \in Peers, PeerStep(w)
    PROVE  WireInv'
  <1> USE DEF PeerUnchanged, vars, heard, WireInv, SwarmTypeOK, PeerType,
              StepsFit, Unheard
  <1>1. peer[w] \in PeerStates /\ peer[w].chatter + 1 \in Nat
    BY DEF PeerStates
  <1>2. ASSUME NEW m \in Messages, m.id = "Bitfield" => m.pieces \in Advertises[w],
               Say(w, m), PeerUnchanged, PeerType',
               asked' \in [Peers -> Seq(Pieces \X Blocks)]
        PROVE  WireInv'
    <2>1. Greeted'
      BY <1>2, SayGreetings
    <2>2. inbox' \in [Peers -> Seq(Messages)]
      BY <1>2 DEF Say
    <2> QED BY <1>2, <2>1, <2>2
  <1>3. CASE Greet(w)
    <2>1. PICK m \in Greetings(w) :
              /\ Say(w, m)
              /\ peer' = [peer EXCEPT ![w].spoken = TRUE, ![w].has = m.pieces]
      BY <1>3 DEF Greet
    <2>2. /\ m \in Messages /\ m.pieces \in Advertises[w]
          /\ m.pieces \in SUBSET Pieces
      BY GreetingsMade
    <2>3. PeerType'
      <3> DEFINE r == [peer[w] EXCEPT !.spoken = TRUE, !.has = m.pieces]
      <3>1. r \in PeerStates
        BY <1>1, <2>2 DEF PeerStates
      <3>2. peer' = [peer EXCEPT ![w] = r]
        BY <2>1
      <3> HIDE DEF r
      <3> QED BY <3>1, <3>2, PeerChanges
    <2> QED BY <1>2, <1>3, <2>1, <2>2, <2>3 DEF Greet
  <1>4. CASE Unchoke(w)
    <2>1. PeerType'
      <3> DEFINE r == [peer[w] EXCEPT !.spoken = TRUE, !.unchoking = TRUE]
      <3>1. r \in PeerStates
        BY <1>1 DEF PeerStates
      <3>2. peer' = [peer EXCEPT ![w] = r]
        BY <1>4 DEF Unchoke
      <3> HIDE DEF r
      <3> QED BY <3>1, <3>2, PeerChanges
    <2> QED BY <1>2, <1>4, <2>1, MessagesMade DEF Unchoke
  <1>5. CASE Chat(w)
    <2>1. PeerType'
      <3> DEFINE r  == [peer[w] EXCEPT !.chatter = @ + 1]
                 rc == [peer[w] EXCEPT !.chatter = @ + 1, !.unchoking = FALSE]
                 ra(s) == [peer[w] EXCEPT !.chatter = @ + 1, !.has = s]
                 rh(p) == [peer[w] EXCEPT !.chatter = @ + 1, !.spoken = TRUE,
                                          !.has = @ \cup {p}]
      <3>1. r \in PeerStates
        BY <1>1 DEF PeerStates
      <3>2. rc \in PeerStates
        BY <1>1 DEF PeerStates
      <3>3. ASSUME NEW s \in SUBSET Pieces PROVE ra(s) \in PeerStates
        BY <1>1 DEF PeerStates
      <3>4. ASSUME NEW p \in Pieces PROVE rh(p) \in PeerStates
        BY <1>1 DEF PeerStates
      <3>5. CASE peer' = [peer EXCEPT ![w].chatter = @ + 1]
        <4>1. peer' = [peer EXCEPT ![w] = r]
          BY <3>5
        <4> HIDE DEF r
        <4> QED BY <3>1, <4>1, PeerChanges
      <3>6. CASE peer' = [peer EXCEPT ![w].chatter = @ + 1,
                                      ![w].unchoking = FALSE]
        <4>1. peer' = [peer EXCEPT ![w] = rc]
          BY <3>6
        <4> HIDE DEF rc
        <4> QED BY <3>2, <4>1, PeerChanges
      <3>7. ASSUME NEW s \in SUBSET Pieces,
                   peer' = [peer EXCEPT ![w].chatter = @ + 1, ![w].has = s]
            PROVE  PeerType'
        <4>1. peer' = [peer EXCEPT ![w] = ra(s)]
          BY <3>7
        <4>2. ra(s) \in PeerStates
          BY <3>3
        <4> HIDE DEF ra
        <4> QED BY <4>1, <4>2, PeerChanges
      <3>8. ASSUME NEW p \in Pieces,
                   peer' = [peer EXCEPT ![w].chatter = @ + 1,
                                        ![w].spoken = TRUE,
                                        ![w].has = @ \cup {p}]
            PROVE  PeerType'
        <4>1. peer' = [peer EXCEPT ![w] = rh(p)]
          BY <3>8
        <4>2. rh(p) \in PeerStates
          BY <3>4
        <4> HIDE DEF rh
        <4> QED BY <4>1, <4>2, PeerChanges
      <3> QED BY <1>5, <3>5, <3>6, <3>7, <3>8, GreetingsMade DEF Chat
    <2>2. PeerUnchanged /\ asked' = asked
      BY <1>5 DEF Chat
    <2>3. \E m \in Messages :
              /\ m.id = "Bitfield" => m.pieces \in Advertises[w]
              /\ Say(w, m)
      <3>1. ASSUME NEW m \in Greetings(w), Say(w, m) PROVE <2>3
        BY <3>1, GreetingsMade
      <3>2. ASSUME NEW p \in Pieces, Say(w, HaveMsg(p)) PROVE <2>3
        BY <3>2, MessagesMade
      <3>3. ASSUME NEW id \in {"KeepAlive", "Choke"}, Say(w, Plain(id)) PROVE <2>3
        BY <3>3, MessagesMade
      <3> QED BY <1>5, <3>1, <3>2, <3>3 DEF Chat
    <2> QED BY <1>2, <2>1, <2>2, <2>3
  <1>6. CASE Answer(w)
    <2>1. /\ asked[w] \in Seq(Pieces \X Blocks) /\ asked[w] # <<>>
          /\ Head(asked[w]) \in Pieces \X Blocks
          /\ Tail(asked[w]) \in Seq(Pieces \X Blocks)
      BY <1>6 DEF Answer
    <2>2. /\ asked' \in [Peers -> Seq(Pieces \X Blocks)]
          /\ PeerUnchanged /\ UNCHANGED peer
      BY <1>6, <2>1 DEF Answer
    <2>3. CASE UNCHANGED inbox
      <3>1. Greeted'
        BY <2>3, SameGreetings
      <3> QED BY <2>2, <2>3, <3>1
    <2>4. CASE inbox' # inbox
      <3> DEFINE r == Head(asked[w])
      <3>1. PICK d \in MaySend(r) : Say(w, PieceMsg(r, d))
        BY <1>6, <2>4 DEF Answer
      <3>2. r = <<r[1], r[2]>> /\ r[1] \in Pieces /\ r[2] \in Blocks
        BY <2>1
      <3>3. d \in Contents
        BY <3>1, <3>2, ContentsMade DEF MaySend
      <3> QED BY <1>2, <2>1, <2>2, <3>1, <3>3, MessagesMade
    <2> QED BY <2>3, <2>4
  <1>7. CASE HangUp(w)
    <2>1. /\ PeerType'
          /\ asked' \in [Peers -> Seq(Pieces \X Blocks)]
          /\ PeerUnchanged /\ UNCHANGED inbox
      <3> DEFINE r == [peer[w] EXCEPT !.open = FALSE]
      <3>1. r \in PeerStates
        BY <1>1 DEF PeerStates
      <3>2. peer' = [peer EXCEPT ![w] = r]
        BY <1>7 DEF HangUp
      <3>3. asked' \in [Peers -> Seq(Pieces \X Blocks)]
        <4>1. <<>> \in Seq(Pieces \X Blocks)
          OBVIOUS
        <4> QED BY <1>7, <4>1 DEF HangUp
      <3> HIDE DEF r
      <3>4. PeerType'
        BY <3>1, <3>2, PeerChanges
      <3> QED BY <1>7, <3>3, <3>4 DEF HangUp
    <2>2. Greeted'
      BY <2>1, SameGreetings
    <2> QED BY <2>1, <2>2
  <1> QED BY <1>3, <1>4, <1>5, <1>6, <1>7 DEF PeerStep

LEMMA AloneKeeps ==
    ASSUME Proved!IInv, WireInv, Coordinator \/ \E w \in Peers : ThreadAlone(w)
    PROVE  WireInv'
  <1> DEFINE Calm ==
          \A v \in Peers :
              /\ pc'[v] = "download" <=> pc[v] = "download"
              /\ pc[v] = "await_unchoke" => pc'[v] = "await_unchoke"
              /\ pc'[v] \in Early => pc[v] \in Early
  <1>1. UNCHANGED wireVars
    BY DEF Coordinator, ThreadAlone
  <1>2. TypeOK /\ \A v \in Peers : v \notin threads => pc[v] = "unborn"
    BY TypesAgree DEF Proved!IInv, Proved!ThreadsRun
  <1>3. Calm /\ UNCHANGED bitfield
    <2> USE <1>2 DEF Goto, conversation, TypeOK, Early
    <2>1. ASSUME NEW w \in Peers, Spawn(w) PROVE Calm /\ UNCHANGED bitfield
      BY <2>1 DEF Spawn
    <2>2. CASE BeginJoin \/ Return
      BY <2>2 DEF BeginJoin, Return
    <2>3. ASSUME NEW w \in Peers, Connect(w) \/ Handshake(w) PROVE Calm /\ UNCHANGED bitfield
      BY <2>3 DEF Connect, Handshake
    <2>4. ASSUME NEW w \in Peers, QueueSteps(w) PROVE Calm /\ UNCHANGED bitfield
      BY <2>4
      DEF QueueSteps, PeekEmpty, PeekMiss, PeekHit, SkipPop, SkipPush, PopEmpty
    <2> QED BY <2>1, <2>2, <2>3, <2>4 DEF Coordinator, ThreadAlone
  <1>4. Greeted'
    BY <1>1, SameGreetings DEF wireVars, WireInv
  <1> QED
    BY <1>1, <1>3, <1>4
    DEF wireVars, heard, WireInv, SwarmTypeOK, PeerType, StepsFit, Unheard

\* What a read leaves of the messages under way.
LEMMA ReceiveTypes ==
    ASSUME SwarmTypeOK, NEW w \in Peers, Receive(w)
    PROVE  /\ inbox' \in [Peers -> Seq(Messages)]
           /\ Message(w) \in Messages
           /\ pc[w] \in {"await_bitfield", "await_unchoke", "download"}
           /\ link[w] = "up"
  <1>1. /\ inbox[w] \in Seq(Messages) /\ inbox[w] # <<>>
        /\ Tail(inbox[w]) \in Seq(Messages) /\ Head(inbox[w]) \in Messages
    BY DEF SwarmTypeOK, Receive
  <1> QED BY <1>1 DEF SwarmTypeOK, Receive, Message, Listening

\* What handle_message leaves of the connection's state.
LEMMA HandledTypes ==
    ASSUME TypeOK, SwarmTypeOK, NEW w \in Peers, Receive(w),
           HandleMessage(w, Message(w))
    PROVE  /\ peer_choking' \in [Peers -> BOOLEAN]
           /\ bitfield_size' \in [Peers -> 0 .. NumPieces]
           /\ \A v \in Peers \ {w} : bitfield_size'[v] = bitfield_size[v]
           /\ \A v \in Peers : \A p \in bitfield'[v] : p < bitfield_size'[v]
  <1> DEFINE m == Message(w)
  <1>1. m \in Messages
    BY ReceiveTypes
  <1>2. m.id = "Bitfield" => /\ m.size \in 0 .. NumPieces
                             /\ \A p \in m.pieces : p < m.size
    BY <1>1, MessageFields
  <1>3. peer_choking' \in [Peers -> BOOLEAN]
    BY DEF HandleMessage, SwarmTypeOK
  <1>4. /\ bitfield_size' \in [Peers -> 0 .. NumPieces]
        /\ \A v \in Peers \ {w} : bitfield_size'[v] = bitfield_size[v]
    BY <1>2 DEF HandleMessage, SwarmTypeOK
  <1>5. ASSUME NEW p \in bitfield'[w] PROVE p < bitfield_size'[w]
    <2>1. CASE m.id = "Bitfield"
      BY <1>2, <1>5, <2>1 DEF HandleMessage, SwarmTypeOK, TypeOK
    <2>2. CASE m.id # "Bitfield"
      <3>1. bitfield_size'[w] = bitfield_size[w]
        BY <2>2 DEF HandleMessage, SwarmTypeOK
      <3>2. \/ p \in bitfield[w]
            \/ p = m.piece /\ m.piece < bitfield_size[w]
        BY <1>5, <2>2 DEF HandleMessage, TypeOK
      <3> QED BY <3>1, <3>2 DEF SwarmTypeOK
    <2> QED BY <2>1, <2>2
  <1>6. \A v \in Peers \ {w} : bitfield'[v] = bitfield[v]
    BY DEF HandleMessage, TypeOK
  <1> QED BY <1>3, <1>4, <1>5, <1>6 DEF SwarmTypeOK

LEMMA ConverseKeeps ==
    ASSUME TypeOK, WireInv, NEW w \in Peers, Converse(w)
    PROVE  WireInv'
  <1> USE DEF WireInv, PeerType, StepsFit, TypeOK, vars, heard, SetUnchanged,
              Goto, Unheard, Early
  <1>1. CASE SkipMessage(w)
    <2>1. Receive(w) /\ UNCHANGED <<pc, link, peer>>
      BY <1>1 DEF SkipMessage
    <2>2. Greeted'
      BY <2>1, ReadGreetings DEF SwarmTypeOK
    <2> QED BY <1>1, <2>1, <2>2, ReceiveTypes DEF SkipMessage, SwarmTypeOK
  <1>2. CASE LoseConnection(w)
    <2>1. Greeted'
      BY <1>2, SameGreetings DEF LoseConnection, wireVars
    <2> QED BY <1>2, <2>1 DEF LoseConnection, SwarmTypeOK, wireVars
  <1>3. CASE ReceiveBitfield(w)
    <2>1. Receive(w) /\ UNCHANGED <<link, peer>> /\ pc[w] = "await_bitfield"
      BY <1>3 DEF ReceiveBitfield
    <2>2. Greeted'
      BY <2>1, ReadGreetings DEF SwarmTypeOK
    <2>3. HandleMessage(w, Message(w))
      BY <1>3 DEF ReceiveBitfield
    <2>4. /\ step' \in [Peers -> {"idle", "interested", "request", "reply"}]
          /\ \A v \in Peers : pc'[v] = "download"
                                  <=> step'[v] \in {"request", "reply"}
          /\ StepsFit'
      BY ZenonT(30), <1>3, <2>1 DEF ReceiveBitfield, SwarmTypeOK
    <2>5. Unheard'
      <3>1. CASE Message(w).id = "Bitfield"
        <4>1. \A v \in Peers : pc'[v] \in Early => pc[v] \in Early /\ v # w
          BY <1>3, <3>1 DEF ReceiveBitfield
        <4> QED BY <2>1, <2>3, <4>1, HandledTypes
      <3>2. CASE Message(w).id # "Bitfield"
        BY <1>3, <2>3, <3>2 DEF ReceiveBitfield, HandleMessage, SwarmTypeOK
      <3> QED BY <3>1, <3>2
    <2> QED
      BY <1>3, <2>1, <2>2, <2>3, <2>4, <2>5, ReceiveTypes, HandledTypes
      DEF ReceiveBitfield, SwarmTypeOK
  <1>4. CASE ReceiveUnchoke(w)
    <2>1. /\ Receive(w) /\ UNCHANGED <<link, peer>> /\ pc[w] = "await_unchoke"
          /\ step[w] = "idle" /\ UNCHANGED step
      BY <1>4 DEF ReceiveUnchoke, Receive, Listening
    <2>2. Greeted'
      BY <2>1, ReadGreetings DEF SwarmTypeOK
    <2>3. HandleMessage(w, Message(w))
      BY <1>4 DEF ReceiveUnchoke
    <2>4. /\ \A v \in Peers : pc'[v] = "download"
                                  <=> step'[v] \in {"request", "reply"}
          /\ StepsFit'
      BY <1>4, <2>1 DEF ReceiveUnchoke, SwarmTypeOK
    <2>5. Unheard'
      <3>1. \A v \in Peers : pc'[v] \in Early => pc[v] \in Early /\ v # w
        BY <1>4, <2>1 DEF ReceiveUnchoke
      <3> QED BY <2>1, <2>3, <3>1, HandledTypes
    <2> QED
      BY <1>4, <2>1, <2>2, <2>3, <2>4, <2>5, ReceiveTypes, HandledTypes
      DEF ReceiveUnchoke, SwarmTypeOK
  <1>5. CASE ReceiveGarbage(w)
    <2>1. /\ link[w] = "down" /\ UNCHANGED <<link, peer, inbox>>
          /\ \/ pc[w] = "await_bitfield"
             \/ pc[w] = "await_unchoke" /\ step[w] = "idle"
      BY <1>5 DEF ReceiveGarbage, ReadGarbage, Listening
    <2>2. Greeted'
      BY <2>1, SameGreetings
    <2>3. peer_choking' \in [Peers -> BOOLEAN]
      BY <1>5 DEF ReceiveGarbage, SwarmTypeOK
    <2>4. /\ step' \in [Peers -> {"idle", "interested", "request", "reply"}]
          /\ \A v \in Peers : pc'[v] = "download"
                                  <=> step'[v] \in {"request", "reply"}
          /\ StepsFit'
      BY <1>5, <2>1 DEF ReceiveGarbage, ReadGarbage, SwarmTypeOK
    <2>5. /\ bitfield_size' = [bitfield_size EXCEPT ![w] =
                                   IF pc'[w] = "peek" THEN @ ELSE 0]
          /\ bitfield' = [bitfield EXCEPT ![w] = IF pc'[w] = "peek" THEN @ ELSE {}]
      BY <1>5 DEF ReceiveGarbage, ReadGarbage
    <2>6. /\ bitfield_size' \in [Peers -> 0 .. NumPieces]
          /\ \A v \in Peers : \A p \in bitfield'[v] : p < bitfield_size'[v]
      BY <2>5, OrchestratorAssumption DEF SwarmTypeOK
    <2>7. Unheard'
      BY <1>5, <2>1, <2>5 DEF ReceiveGarbage, ReadGarbage, SwarmTypeOK
    <2> QED
      BY <1>5, <2>1, <2>2, <2>3, <2>4, <2>6, <2>7 DEF ReceiveGarbage, SwarmTypeOK
  <1>6. CASE SendInterested(w)
    <2>1. /\ UNCHANGED <<pc, peer, inbox, asked>> /\ pc[w] = "await_unchoke"
          /\ killed' \in BOOLEAN
      BY <1>6 DEF SendInterested, Send, SwarmTypeOK
    <2>2. Greeted'
      BY <2>1, SameGreetings
    <2> QED BY <1>6, <2>1, <2>2 DEF SendInterested, SwarmTypeOK
  <1> QED BY <1>1, <1>2, <1>3, <1>4, <1>5, <1>6 DEF Converse

\* The thread's return from download_piece, with the piece or without.
BufferReset(w) == /\ pc' = [pc EXCEPT ![w] = "peek"]
                  /\ step' = [step EXCEPT ![w] = "idle"]
                  /\ block' = [block EXCEPT ![w] = 0]
                  /\ piece_data' = [piece_data EXCEPT ![w] = EmptyPiece]

LEMMA ResetKeeps ==
    ASSUME TypeOK, WireInv, NEW w \in Peers, pc[w] = "download", BufferReset(w),
           UNCHANGED <<conversation, heard, asked, peer, killed>>,
           Receive(w) \/ UNCHANGED inbox,
           stored' \in [Pieces -> [Blocks -> Contents \ {Short}]]
    PROVE  WireInv'
  <1> USE DEF WireInv, PeerType, StepsFit, TypeOK, BufferReset, conversation,
              heard, Unheard, Early
  <1>1. inbox' \in [Peers -> Seq(Messages)]
    BY ReceiveTypes DEF SwarmTypeOK
  <1>2. Greeted'
    BY ReadGreetings, SameGreetings DEF SwarmTypeOK
  <1>3. /\ block' \in [Peers -> Blocks]
        /\ piece_data' \in [Peers -> [Blocks -> Contents \ {Short}]]
    BY ContentsMade, SwarmAssumption DEF SwarmTypeOK, Blocks
  <1> QED BY <1>1, <1>2, <1>3 DEF SwarmTypeOK

\* The piece a thread assembles is of the type of the buffer.
LEMMA BlockTaken ==
    ASSUME SwarmTypeOK, NEW w \in Peers, Receive(w), Matches(w)
    PROVE  [piece_data[w] EXCEPT ![block[w]] = Copied(Message(w).data)]
               \in [Blocks -> Contents \ {Short}]
  <1>1. Message(w).data \in Contents
    BY ReceiveTypes, MessageFields DEF Matches
  <1>2. Copied(Message(w).data) \in Contents \ {Short}
    BY <1>1, ContentsMade
  <1> QED BY <1>2 DEF SwarmTypeOK

LEMMA DownloadKeeps ==
    ASSUME TypeOK, WireInv, NEW w \in Peers, DownloadPiece(w) \/ Overread(w)
    PROVE  WireInv'
  <1> USE DEF WireInv, PeerType, StepsFit, TypeOK, vars, heard, Goto,
              conversation, Unheard, Early
  <1>1. CASE StartPiece(w)
    <2>1. /\ UNCHANGED <<link, bitfield, peer, inbox>> /\ pc[w] = "pop"
          /\ pc' = [pc EXCEPT ![w] = "download"]
      BY <1>1 DEF StartPiece, PopFront
    <2>2. Greeted'
      BY <2>1, SameGreetings
    <2>3. /\ block' \in [Peers -> Blocks]
          /\ piece_data' \in [Peers -> [Blocks -> Contents \ {Short}]]
      BY <1>1, ContentsMade, SwarmAssumption
      DEF StartPiece, SwarmTypeOK, Blocks
    <2> QED BY <1>1, <2>1, <2>2, <2>3 DEF StartPiece, SwarmTypeOK
  <1>2. CASE SendRequest(w)
    <2>1. /\ UNCHANGED <<pc, peer, inbox>> /\ pc[w] = "download"
      BY <1>2 DEF SendRequest, Send
    <2>2. Greeted'
      BY <2>1, SameGreetings
    <2>3. Request(w) \in Pieces \X Blocks
      BY <2>1 DEF SwarmTypeOK, Holds, Request
    <2>4. asked' \in [Peers -> Seq(Pieces \X Blocks)]
      <3>1. Append(asked[w], Request(w)) \in Seq(Pieces \X Blocks)
        BY <2>3 DEF SwarmTypeOK
      <3>2. \/ asked' = asked
            \/ asked' = [asked EXCEPT ![w] = Append(@, Request(w))]
        BY <1>2 DEF SendRequest, Send
      <3> QED BY <3>1, <3>2 DEF SwarmTypeOK
    <2>5. killed' \in BOOLEAN
      BY <1>2 DEF SendRequest, Send, SwarmTypeOK
    <2> QED BY <1>2, <2>1, <2>2, <2>4, <2>5 DEF SendRequest, SwarmTypeOK
  <1>3. ASSUME pc[w] = "download", GiveBack(w), Receive(w) \/ UNCHANGED inbox,
               UNCHANGED <<conversation, heard, asked, peer, killed>>
        PROVE  WireInv'
    BY <1>3, ResetKeeps DEF GiveBack, BufferReset, SwarmTypeOK
  <1>4. CASE WrongReply(w)
    BY <1>3, <1>4 DEF WrongReply
  <1>5. CASE GarbageReply(w)
    BY <1>3, <1>5 DEF GarbageReply
  <1>6. CASE NextBlock(w)
    <2>1. /\ Receive(w) /\ Matches(w) /\ UNCHANGED <<pc, link, peer>>
          /\ pc[w] = "download"
      BY <1>6 DEF NextBlock
    <2>2. Greeted'
      BY <2>1, ReadGreetings DEF SwarmTypeOK
    <2>3. block' \in [Peers -> Blocks]
      BY <1>6, SwarmAssumption DEF NextBlock, SwarmTypeOK, Blocks
    <2>4. piece_data' \in [Peers -> [Blocks -> Contents \ {Short}]]
      BY <1>6, <2>1, BlockTaken DEF NextBlock, SwarmTypeOK
    <2> QED
      BY <1>6, <2>1, <2>2, <2>3, <2>4, ReceiveTypes DEF NextBlock, SwarmTypeOK
  <1>7. CASE LastBlock(w)
    <2>1. /\ Receive(w) /\ Matches(w) /\ pc[w] = "download"
          /\ UNCHANGED <<conversation, heard, asked, peer, killed>>
      BY <1>7 DEF LastBlock
    <2>2. CASE Assembled(w) = GenuinePiece(piece_index[w])
      <3>1. Assembled(w) \in [Blocks -> Contents \ {Short}]
        BY <2>1, BlockTaken DEF Assembled
      <3>2. stored' \in [Pieces -> [Blocks -> Contents \ {Short}]]
        <4>1. stored' = [stored EXCEPT ![piece_index[w]] = Assembled(w)]
          BY <1>7, <2>2 DEF LastBlock
        <4> QED BY <3>1, <4>1 DEF SwarmTypeOK
      <3> QED BY <1>7, <2>1, <2>2, <3>2, ResetKeeps DEF LastBlock, BufferReset
    <2>3. CASE Assembled(w) # GenuinePiece(piece_index[w])
      BY <1>3, <1>7, <2>1, <2>3 DEF LastBlock
    <2> QED BY <2>2, <2>3
  <1>8. CASE Overread(w)
    <2>1. Receive(w) /\ UNCHANGED <<pc, link, peer>>
      BY <1>8 DEF Overread
    <2>2. Greeted'
      BY <2>1, ReadGreetings DEF SwarmTypeOK
    <2> QED BY <1>8, <2>1, <2>2, ReceiveTypes DEF Overread, SwarmTypeOK
  <1> QED
    BY <1>1, <1>2, <1>4, <1>5, <1>6, <1>7, <1>8 DEF DownloadPiece

LEMMA NextWire ==
    Proved!IInv /\ WireInv /\ [SwarmNext]_swarmVars => Proved!IInv' /\ WireInv'
  <1> SUFFICES ASSUME Proved!IInv, WireInv, [SwarmNext]_swarmVars
               PROVE  Proved!IInv' /\ WireInv'
    OBVIOUS
  <1>1. TypeOK
    BY TypesAgree
  <1>2. Proved!IInv'
    BY <1>1, StepAllowed, FaultKindsAllowed, Proved!NextIInv
  <1>3. CASE Over \/ UNCHANGED swarmVars
    <2>1. UNCHANGED <<pc, link, inbox, peer, step>>
      BY <1>3 DEF Over, swarmVars, vars, wireVars
    <2>2. Greeted'
      BY <2>1, SameGreetings DEF WireInv
    <2> QED
      BY <1>2, <1>3, <2>1, <2>2
      DEF Over, swarmVars, vars, wireVars, heard, WireInv, SwarmTypeOK,
          PeerType, StepsFit, Unheard
  <1> QED
    BY <1>1, <1>2, <1>3, AloneKeeps, PeerKeeps, ConverseKeeps, DownloadKeeps
    DEF SwarmNext

LEMMA WireInductive == SwarmSpec => [](Proved!IInv /\ WireInv)
  <1>1. SwarmInit => Proved!IInv /\ WireInv
    <2>1. SwarmInit => Proved!Init
      BY DEF SwarmInit, Init, Proved!Init
    <2> QED BY <2>1, FaultKindsAllowed, Proved!InitIInv, InitWire
  <1> QED BY <1>1, NextWire, PTL DEF SwarmSpec

\* Messages of every kind, in every order, lost connections and garbage reads
\* leave the thread's place in the conversation, its buffer and what is under
\* way of the types the code relies on.
THEOREM WireTypes == SwarmSpec => []SwarmTypeOK
  BY WireInductive, PTL DEF WireInv

-----------------------------------------------------------------------------
(* What is stored *)

LEMMA InitGenuine == SwarmInit => StoredIsGenuine
  BY DEF SwarmInit, Init, StoredIsGenuine

LEMMA NextGenuine ==
    TypeOK /\ WireInv /\ StoredIsGenuine /\ [SwarmNext]_swarmVars
        => StoredIsGenuine'
  <1> SUFFICES ASSUME TypeOK, WireInv, StoredIsGenuine, [SwarmNext]_swarmVars
               PROVE  StoredIsGenuine'
    OBVIOUS
  <1>1. CASE UNCHANGED <<stored, results>>
    BY <1>1 DEF StoredIsGenuine
  <1> USE DEF vars, wireVars, shared
  <1>2. CASE Coordinator \/ Over \/ UNCHANGED swarmVars
    <2>1. UNCHANGED <<stored, results>>
      BY <1>2
      DEF Coordinator, BeginJoin, Return, Spawn, Over, swarmVars
    <2> QED BY <1>1, <2>1
  <1>3. ASSUME NEW w \in Peers, ThreadAlone(w) PROVE StoredIsGenuine'
    <2>1. UNCHANGED <<stored, results>>
      BY <1>3
      DEF ThreadAlone, Connect, Handshake, QueueSteps, PeekEmpty, PeekMiss,
          PeekHit, SkipPop, SkipPush, PopEmpty
    <2> QED BY <1>1, <2>1
  <1>4. ASSUME NEW w \in Peers, Converse(w) PROVE StoredIsGenuine'
    <2>1. UNCHANGED <<stored, results>>
      BY <1>4
      DEF Converse, SkipMessage, LoseConnection, ReceiveBitfield,
          ReceiveUnchoke, ReceiveGarbage, ReadGarbage, SendInterested,
          SetUnchanged
    <2> QED BY <1>1, <2>1
  <1>5. ASSUME NEW w \in Peers, DownloadPiece(w) PROVE StoredIsGenuine'
    <2>1. CASE StartPiece(w) \/ SendRequest(w) \/ WrongReply(w)
               \/ GarbageReply(w) \/ NextBlock(w)
      <3>1. UNCHANGED <<stored, results>>
        BY <2>1
        DEF StartPiece, PopFront, SendRequest, WrongReply, GarbageReply,
            GiveBack, NextBlock
      <3> QED BY <1>1, <3>1
    <2>2. CASE LastBlock(w)
      <3>1. CASE Assembled(w) = GenuinePiece(piece_index[w])
        <4>1. piece_index[w] \in Pieces
          BY <2>2 DEF LastBlock, TypeOK, Holds
        <4>2. /\ stored' = [stored EXCEPT ![piece_index[w]] =
                                              GenuinePiece(piece_index[w])]
              /\ results' = results \cup {piece_index[w]}
          BY <2>2, <3>1 DEF LastBlock
        <4> QED BY <4>1, <4>2 DEF StoredIsGenuine, WireInv, SwarmTypeOK
      <3>2. CASE Assembled(w) # GenuinePiece(piece_index[w])
        <4>1. UNCHANGED <<stored, results>>
          BY <2>2, <3>2 DEF LastBlock, GiveBack
        <4> QED BY <1>1, <4>1
      <3> QED BY <3>1, <3>2
    <2> QED BY <1>5, <2>1, <2>2 DEF DownloadPiece
  <1>6. ASSUME NEW w \in Peers, Overread(w) \/ PeerStep(w)
        PROVE  StoredIsGenuine'
    <2>1. UNCHANGED <<stored, results>>
      BY <1>6
      DEF Overread, PeerStep, Greet, Unchoke, Chat, Answer, HangUp,
          PeerUnchanged
    <2> QED BY <1>1, <2>1
  <1> QED BY <1>2, <1>3, <1>4, <1>5, <1>6 DEF SwarmNext

\* Whatever any number of peers send, and however late, an entry of the result
\* vector is filled only with the genuine blocks of its own piece.
THEOREM StoredGenuine == SwarmSpec => []StoredIsGenuine
  <1>1. Proved!IInv /\ WireInv => TypeOK /\ WireInv
    BY TypesAgree
  <1> QED
    BY <1>1, WireInductive, InitGenuine, NextGenuine, PTL DEF SwarmSpec

-----------------------------------------------------------------------------
(* The refinement *)

\* OrchestratorProofs and the specification Swarm refines speak of the same
\* steps.
LEMMA SameSpecification ==
    /\ Proved!Init <=> Abstract!Init
    /\ Proved!vars = Abstract!vars
    /\ Proved!Next <=> Abstract!Next
  <1> USE DEF Proved!Goto, Abstract!Goto, Proved!coordinator,
              Abstract!coordinator, Proved!conversation, Abstract!conversation,
              Proved!loopLocals, Abstract!loopLocals, Proved!shared,
              Abstract!shared, Proved!Pieces, Abstract!Pieces,
              Proved!QueueIsEmpty, Abstract!QueueIsEmpty, Proved!Push,
              Abstract!Push, Proved!Pop, Abstract!Pop, Proved!Peek,
              Abstract!Peek, Proved!vars, Abstract!vars
  <1>1. Proved!Init <=> Abstract!Init
    BY DEF Proved!Init, Abstract!Init
  <1>2. ASSUME NEW w \in Peers
        PROVE  /\ Proved!Spawn(w) <=> Abstract!Spawn(w)
               /\ Proved!Setup(w) <=> Abstract!Setup(w)
               /\ Proved!Drop(w) <=> Abstract!Drop(w)
    BY DEF Proved!Spawn, Abstract!Spawn, Proved!Cardinality,
           Abstract!Cardinality, Proved!Setup, Abstract!Setup,
           Proved!Connect, Abstract!Connect, Proved!Handshake,
           Abstract!Handshake, Proved!AwaitBitfield, Abstract!AwaitBitfield,
           Proved!AwaitUnchoke, Abstract!AwaitUnchoke, Proved!UpdateBitfield,
           Abstract!UpdateBitfield, Proved!ReadGarbage,
           Abstract!ReadGarbage, Proved!Drop, Abstract!Drop
  <1>3. ASSUME NEW w \in Peers
        PROVE  /\ Proved!Loop(w) <=> Abstract!Loop(w)
               /\ Proved!Succeed(w) <=> Abstract!Succeed(w)
               /\ Proved!Fail(w) <=> Abstract!Fail(w)
    BY DEF Proved!Loop, Abstract!Loop, Proved!PeekEmpty, Abstract!PeekEmpty,
           Proved!PeekMiss, Abstract!PeekMiss, Proved!PeekHit,
           Abstract!PeekHit, Proved!SkipPop, Abstract!SkipPop,
           Proved!SkipPush, Abstract!SkipPush, Proved!PopEmpty,
           Abstract!PopEmpty, Proved!PopFront, Abstract!PopFront,
           Proved!Succeed, Abstract!Succeed, Proved!Fail, Abstract!Fail
  <1>4. /\ Proved!BeginJoin <=> Abstract!BeginJoin
        /\ Proved!Return <=> Abstract!Return
        /\ Proved!Finished <=> Abstract!Finished
    BY DEF Proved!BeginJoin, Abstract!BeginJoin, Proved!Cardinality,
           Abstract!Cardinality, Proved!Return, Abstract!Return,
           Proved!Finished, Abstract!Finished
  <1>5. Proved!vars = Abstract!vars
    OBVIOUS
  <1>6. Proved!Next <=> Abstract!Next
    BY <1>2, <1>3, <1>4 DEF Proved!Next, Abstract!Next
  <1> QED BY <1>1, <1>5, <1>6

\* Threads that talk to real peers do only what the Orchestrator's may do, so
\* the theorems of OrchestratorProofs hold of them.
THEOREM WireImplements == SwarmSpec => RefinesOrchestrator
  <1>1. SwarmInit => Abstract!Init
    BY DEF SwarmInit, Init, Abstract!Init
  <1>2. Proved!IInv /\ WireInv /\ [SwarmNext]_swarmVars
            => [Abstract!Next]_(Abstract!vars)
    BY TypesAgree, StepAllowed, SameSpecification DEF Proved!vars, Abstract!vars
  <1> QED
    BY <1>1, <1>2, WireInductive, PTL
    DEF SwarmSpec, RefinesOrchestrator, Abstract!Spec

LEMMA WireIsProved == SwarmSpec => Proved!Spec
  <1>1. SwarmInit => Proved!Init
    BY DEF SwarmInit, Init, Proved!Init
  <1>2. Proved!IInv /\ WireInv /\ [SwarmNext]_swarmVars
            => [Proved!Next]_(Proved!vars)
    BY TypesAgree, StepAllowed
  <1> QED BY <1>1, <1>2, WireInductive, PTL DEF SwarmSpec, Proved!Spec

\* In particular no piece is lost between the threads of a real download,
\* however the connections of its peers fail.
THEOREM WireLosesNothing == SwarmSpec => []NoPieceLost
  <1>1. Proved!NoPieceLost <=> NoPieceLost
    BY DEF Proved!NoPieceLost, NoPieceLost, Proved!Pieces, Pieces,
           Proved!Queued, Queued, Proved!Holds, Holds
  <1>2. Proved!Spec => []Proved!NoPieceLost
    BY FaultKindsAllowed, Proved!PiecesKept
  <1> QED BY <1>1, <1>2, WireIsProved, PTL

\* And a download with one thread that ends, whatever its peer sends and
\* however the connection fails, has stored every piece in the bitfield.
THEOREM WireSatisfied ==
    ASSUME MaxThreads = 1 \/ \A v, w \in Peers : v = w
    PROVE  SwarmSpec => []ExitsSatisfied
  <1>1. Proved!ExitsSatisfied <=> ExitsSatisfied
    BY DEF Proved!ExitsSatisfied, ExitsSatisfied
  <1>2. Proved!Spec => []Proved!ExitsSatisfied
    BY FaultKindsAllowed, Proved!LoneSatisfied DEF Proved!OneThread
  <1> QED BY <1>1, <1>2, WireIsProved, PTL
=============================================================================

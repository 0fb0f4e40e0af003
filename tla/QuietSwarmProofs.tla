-------------------------- MODULE QuietSwarmProofs --------------------------
(***************************************************************************)
(* Peers that have every piece, stay, and never speak out of turn keep in  *)
(* step with the threads: each request meets its own answer and each       *)
(* answer its own request, for any number of peers, pieces, blocks and     *)
(* keep-alives, whatever the blocks carry, and whichever messages the      *)
(* threads drop because their unassigned length reads 0.  Such a thread    *)
(* may wait for ever, but never takes a reply for another.                 *)
(*                                                                         *)
(* The step in which it could go wrong is the first: a message left over   *)
(* from the setup would be taken for the first reply, and the thread would *)
(* lag behind by one from then on.  So the invariant counts what may be    *)
(* under way before the loop: one Bitfield and one Unchoke, and both have  *)
(* been read when the loop is entered.                                     *)
(***************************************************************************)
EXTENDS SwarmProofs

\* No choking, no late piece, no second bitfield, no lost connection.  A thread
\* may pop a piece that is not the one it peeked, so only a complete bitfield
\* makes sure that the peer has it.
Quiet ==
    /\ Quirks \subseteq {"keepalive", "corrupt", "short"}
    /\ "drop" \notin Faults
    /\ \A w \in Peers : Advertises[w] \subseteq {Pieces}

-----------------------------------------------------------------------------
(* Messages under way *)

Places(q, id) == {k \in DOMAIN q : q[k].id = id}

Others(q) == {k \in DOMAIN q : q[k].id # "KeepAlive"}

LEMMA TailPlaces ==
    ASSUME NEW q \in Seq(Messages), q # <<>>
    PROVE  /\ 1 \in DOMAIN q /\ Head(q) = q[1]
           /\ \A k \in DOMAIN Tail(q) : /\ k \in Nat \ {0}
                                        /\ k + 1 \in DOMAIN q
                                        /\ Tail(q)[k] = q[k + 1]
           /\ \A k \in DOMAIN q : k # 1 => /\ k - 1 \in DOMAIN Tail(q)
                                           /\ Tail(q)[k - 1] = q[k]
  <1>1. /\ Len(q) \in Nat \ {0} /\ DOMAIN q = 1 .. Len(q)
        /\ Head(q) = q[1]
        /\ DOMAIN Tail(q) = 1 .. Len(q) - 1
        /\ \A k \in 1 .. Len(q) - 1 : Tail(q)[k] = q[k + 1]
    OBVIOUS
  <1>2. ASSUME NEW k \in DOMAIN q, k # 1
        PROVE  k - 1 \in 1 .. Len(q) - 1 /\ (k - 1) + 1 = k
    BY <1>1, <1>2
  <1> QED BY <1>1, <1>2

LEMMA AppendPlaces ==
    ASSUME NEW q \in Seq(Messages), NEW m \in Messages
    PROVE  LET n == Len(q) + 1
           IN /\ DOMAIN Append(q, m) = DOMAIN q \cup {n}
              /\ n \notin DOMAIN q
              /\ Append(q, m)[n] = m
              /\ \A k \in DOMAIN q : Append(q, m)[k] = q[k]
  OBVIOUS

\* Of one message and keep-alives, a read leaves either the one or keep-alives.
LEMMA ReadOthers ==
    ASSUME NEW q \in Seq(Messages), q # <<>>
    PROVE  /\ Others(q) = {} => Head(q).id = "KeepAlive" /\ Others(Tail(q)) = {}
           /\ \A k \in DOMAIN q :
                  Others(q) = {k} /\ Head(q).id = "KeepAlive" =>
                      /\ k - 1 \in DOMAIN Tail(q)
                      /\ Others(Tail(q)) = {k - 1}
                      /\ Tail(q)[k - 1] = q[k]
           /\ \A k \in DOMAIN q :
                  Others(q) = {k} /\ Head(q).id # "KeepAlive" =>
                      Head(q) = q[k] /\ Others(Tail(q)) = {}
  <1>1. /\ 1 \in DOMAIN q /\ Head(q) = q[1]
        /\ \A k \in DOMAIN Tail(q) : /\ k \in Nat \ {0}
                                     /\ k + 1 \in DOMAIN q
                                     /\ Tail(q)[k] = q[k + 1]
        /\ \A k \in DOMAIN q : k # 1 => /\ k - 1 \in DOMAIN Tail(q)
                                        /\ Tail(q)[k - 1] = q[k]
    BY TailPlaces
  <1>2. ASSUME NEW j \in Others(Tail(q)) PROVE j \in Nat \ {0} /\ j + 1 \in Others(q)
    BY <1>1 DEF Others
  <1>3. Head(q).id # "KeepAlive" => 1 \in Others(q)
    BY <1>1 DEF Others
  <1>4. ASSUME Others(q) = {}
        PROVE  Head(q).id = "KeepAlive" /\ Others(Tail(q)) = {}
    BY <1>2, <1>3, <1>4
  <1>5. ASSUME NEW k \in DOMAIN q, Others(q) = {k}, Head(q).id = "KeepAlive"
        PROVE  /\ k - 1 \in DOMAIN Tail(q) /\ Others(Tail(q)) = {k - 1}
               /\ Tail(q)[k - 1] = q[k]
    <2>1. k \in Others(q) /\ q[k].id # "KeepAlive"
      BY <1>5 DEF Others
    <2>2. k # 1
      BY <1>1, <1>5, <2>1
    <2>3. k - 1 \in DOMAIN Tail(q) /\ Tail(q)[k - 1] = q[k]
      BY <1>1, <2>2
    <2>4. k - 1 \in Others(Tail(q))
      BY <2>1, <2>3 DEF Others
    <2>5. ASSUME NEW j \in Others(Tail(q)) PROVE j = k - 1
      <3>1. j + 1 = k /\ j \in Nat
        BY <1>2, <1>5, <2>5
      <3> QED BY <3>1
    <2> QED BY <2>3, <2>4, <2>5
  <1>6. ASSUME NEW k \in DOMAIN q, Others(q) = {k}, Head(q).id # "KeepAlive"
        PROVE  Head(q) = q[k] /\ Others(Tail(q)) = {}
    <2>1. k = 1
      BY <1>3, <1>6
    <2>2. ASSUME NEW j \in Others(Tail(q)) PROVE FALSE
      <3>1. j + 1 = 1 /\ j \in Nat \ {0}
        BY <1>2, <1>6, <2>1, <2>2
      <3> QED BY <3>1
    <2> QED BY <1>1, <2>1, <2>2
  <1> QED BY <1>4, <1>5, <1>6

LEMMA SayOthers ==
    ASSUME NEW q \in Seq(Messages), NEW m \in Messages
    PROVE  /\ m.id = "KeepAlive" => Others(Append(q, m)) = Others(q)
           /\ \A k \in DOMAIN q : k \in DOMAIN Append(q, m) /\ Append(q, m)[k] = q[k]
           /\ Others(q) = {} /\ m.id # "KeepAlive" =>
                  \E k \in DOMAIN Append(q, m) :
                      Others(Append(q, m)) = {k} /\ Append(q, m)[k] = m
  <1>1. PICK n : /\ DOMAIN Append(q, m) = DOMAIN q \cup {n}
                 /\ n \notin DOMAIN q
                 /\ Append(q, m)[n] = m
                 /\ \A k \in DOMAIN q : Append(q, m)[k] = q[k]
    BY AppendPlaces
  <1> QED BY <1>1 DEF Others

-----------------------------------------------------------------------------
(* The invariant *)

SettingUp == {"unborn", "connect", "handshake", "await_bitfield", "await_unchoke"}
Looping   == {"peek", "skip_pop", "skip_push", "pop", "download"}

\* At most one message of q has this id, and none before it was sent.
AtMostOne(q, id, sent) == /\ \A j, k \in Places(q, id) : j = k
                          /\ ~sent => Places(q, id) = {}

\* Before the loop at most one Bitfield and one Unchoke are under way.
SetupInStep(q, spoken, unchoking) ==
    /\ \A k \in DOMAIN q : q[k].id \in {"KeepAlive", "Bitfield", "Unchoke"}
    /\ AtMostOne(q, "Bitfield", spoken)
    /\ AtMostOne(q, "Unchoke", unchoking)

PeerStays(w) ==
    /\ link[w] = "up" /\ peer[w].open
    /\ peer[w].unchoking => peer[w].spoken
    /\ peer[w].spoken => peer[w].has = Pieces

ThreadInStep(w) ==
    /\ step[w] = "reply" => BlockOwed(w) \/ NothingOwed(w)
    /\ step[w] = "request" => NothingOwed(w)
    /\ pc[w] \in {"peek", "pop", "skip_pop", "skip_push"} => NothingOwed(w)

QuietAt(w) ==
    /\ PeerStays(w)
    /\ pc[w] \in SettingUp => /\ asked[w] = <<>>
                              /\ SetupInStep(inbox[w], peer[w].spoken,
                                             peer[w].unchoking)
    /\ pc[w] = "await_unchoke" => /\ peer[w].spoken
                                  /\ Places(inbox[w], "Bitfield") = {}
    /\ pc[w] \in Looping => peer[w].unchoking
    /\ ThreadInStep(w)

QuietInv == ~killed => \A w \in Peers : QuietAt(w)

\* What the prover has of the rest.
Known == Quiet /\ TypeOK /\ WireInv

LEMMA ReadPlaces ==
    ASSUME NEW q \in Seq(Messages), q # <<>>, NEW id, NEW sent \in BOOLEAN,
           AtMostOne(q, id, sent)
    PROVE  /\ AtMostOne(Tail(q), id, sent)
           /\ Places(q, id) = {} => Places(Tail(q), id) = {}
           /\ Head(q).id = id => sent /\ Places(Tail(q), id) = {}
  <1>1. /\ 1 \in DOMAIN q /\ Head(q) = q[1]
        /\ \A k \in DOMAIN Tail(q) : /\ k \in Nat \ {0}
                                     /\ k + 1 \in DOMAIN q
                                     /\ Tail(q)[k] = q[k + 1]
    BY TailPlaces
  <1>2. ASSUME NEW k \in Places(Tail(q), id)
        PROVE  k \in Nat \ {0} /\ k + 1 \in Places(q, id)
    BY <1>1 DEF Places
  <1>3. ASSUME NEW j \in Places(Tail(q), id), NEW k \in Places(Tail(q), id)
        PROVE  j = k
    <2>1. j + 1 = k + 1 /\ j \in Nat /\ k \in Nat
      BY <1>2 DEF AtMostOne
    <2> QED BY <2>1
  <1>4. ASSUME Head(q).id = id PROVE sent /\ Places(Tail(q), id) = {}
    <2>1. 1 \in Places(q, id)
      BY <1>1, <1>4 DEF Places
    <2>2. ASSUME NEW k \in Places(Tail(q), id) PROVE FALSE
      <3>1. k + 1 = 1 /\ k \in Nat \ {0}
        BY <1>2, <2>1 DEF AtMostOne
      <3> QED BY <3>1
    <2> QED BY <2>1, <2>2 DEF AtMostOne
  <1> QED BY <1>2, <1>3, <1>4 DEF AtMostOne

LEMMA SayPlaces ==
    ASSUME NEW q \in Seq(Messages), NEW m \in Messages, NEW id, NEW sent,
           AtMostOne(q, id, sent)
    PROVE  /\ m.id # id => /\ AtMostOne(Append(q, m), id, sent)
                           /\ Places(Append(q, m), id) = Places(q, id)
           /\ m.id = id /\ ~sent => AtMostOne(Append(q, m), id, TRUE)
  <1>1. PICK n : /\ DOMAIN Append(q, m) = DOMAIN q \cup {n}
                 /\ n \notin DOMAIN q
                 /\ Append(q, m)[n] = m
                 /\ \A k \in DOMAIN q : Append(q, m)[k] = q[k]
    BY AppendPlaces
  <1> QED BY <1>1 DEF AtMostOne, Places

LEMMA SetupReads ==
    ASSUME NEW q \in Seq(Messages), q # <<>>, NEW t \in BOOLEAN, NEW u \in BOOLEAN,
           SetupInStep(q, t, u)
    PROVE  /\ SetupInStep(Tail(q), t, u)
           /\ Places(q, "Bitfield") = {} => Places(Tail(q), "Bitfield") = {}
           /\ Head(q).id = "Bitfield" => t /\ Places(Tail(q), "Bitfield") = {}
           /\ Head(q).id = "Unchoke" /\ Places(q, "Bitfield") = {} =>
                  u /\ Others(Tail(q)) = {}
  <1>1. \A k \in DOMAIN Tail(q) : /\ k + 1 \in DOMAIN q
                                  /\ Tail(q)[k] = q[k + 1]
    BY TailPlaces
  <1>2. \A k \in DOMAIN Tail(q) :
            Tail(q)[k].id \in {"KeepAlive", "Bitfield", "Unchoke"}
    BY <1>1 DEF SetupInStep
  <1>3. /\ AtMostOne(Tail(q), "Bitfield", t) /\ AtMostOne(Tail(q), "Unchoke", u)
        /\ Places(q, "Bitfield") = {} => Places(Tail(q), "Bitfield") = {}
        /\ Head(q).id = "Bitfield" => t /\ Places(Tail(q), "Bitfield") = {}
        /\ Head(q).id = "Unchoke" => u /\ Places(Tail(q), "Unchoke") = {}
    BY ReadPlaces DEF SetupInStep
  <1>4. Places(Tail(q), "Bitfield") = {} /\ Places(Tail(q), "Unchoke") = {}
            => Others(Tail(q)) = {}
    BY <1>2 DEF Places, Others
  <1> QED BY <1>2, <1>3, <1>4 DEF SetupInStep

LEMMA SetupSays ==
    ASSUME NEW q \in Seq(Messages), NEW t \in BOOLEAN, NEW u \in BOOLEAN,
           SetupInStep(q, t, u), NEW m \in Messages
    PROVE  /\ m.id = "KeepAlive" => SetupInStep(Append(q, m), t, u)
           /\ m.id = "Bitfield" /\ ~t => SetupInStep(Append(q, m), TRUE, u)
           /\ m.id = "Unchoke" /\ ~u => SetupInStep(Append(q, m), t, TRUE)
           /\ m.id # "Bitfield" => Places(Append(q, m), "Bitfield")
                                       = Places(q, "Bitfield")
  <1>1. m.id \in {"KeepAlive", "Bitfield", "Unchoke"} =>
            \A k \in DOMAIN Append(q, m) :
                Append(q, m)[k].id \in {"KeepAlive", "Bitfield", "Unchoke"}
    <2>1. PICK n : /\ DOMAIN Append(q, m) = DOMAIN q \cup {n}
                   /\ Append(q, m)[n] = m
                   /\ \A k \in DOMAIN q : Append(q, m)[k] = q[k]
      BY AppendPlaces
    <2> QED BY <2>1 DEF SetupInStep
  <1>2. AtMostOne(q, "Bitfield", t) /\ AtMostOne(q, "Unchoke", u)
    BY DEF SetupInStep
  <1>3. /\ m.id # "Bitfield" =>
               /\ AtMostOne(Append(q, m), "Bitfield", t)
               /\ Places(Append(q, m), "Bitfield") = Places(q, "Bitfield")
        /\ m.id = "Bitfield" /\ ~t => AtMostOne(Append(q, m), "Bitfield", TRUE)
    BY <1>2, SayPlaces
  <1>4. /\ m.id # "Unchoke" => AtMostOne(Append(q, m), "Unchoke", u)
        /\ m.id = "Unchoke" /\ ~u => AtMostOne(Append(q, m), "Unchoke", TRUE)
    BY <1>2, SayPlaces
  <1> QED BY <1>1, <1>3, <1>4 DEF SetupInStep

\* Nothing that belongs to another thread or peer changes.
Apart(w) ==
    /\ ~killed
    /\ \A v \in Peers \ {w} :
           /\ pc'[v] = pc[v] /\ step'[v] = step[v] /\ link'[v] = link[v]
           /\ piece_index'[v] = piece_index[v] /\ block'[v] = block[v]
           /\ inbox'[v] = inbox[v] /\ asked'[v] = asked[v] /\ peer'[v] = peer[v]

LEMMA OneMoves ==
    ASSUME QuietInv, NEW w \in Peers, Apart(w), ~killed' => QuietAt(w)'
    PROVE  QuietInv'
  <1>1. ASSUME NEW v \in Peers \ {w} PROVE QuietAt(v)'
    <2>1. QuietAt(v) /\ v \in Peers
      BY DEF QuietInv, Apart
    <2>2. /\ pc'[v] = pc[v] /\ step'[v] = step[v] /\ link'[v] = link[v]
          /\ piece_index'[v] = piece_index[v] /\ block'[v] = block[v]
          /\ inbox'[v] = inbox[v] /\ asked'[v] = asked[v] /\ peer'[v] = peer[v]
      BY DEF Apart
    <2>3. PeerStays(v)'
      BY <2>1, <2>2 DEF QuietAt, PeerStays, Pieces
    <2>4. (NothingOwed(v) => NothingOwed(v)') /\ (BlockOwed(v) => BlockOwed(v)')
      BY <2>2 DEF NothingOwed, BlockOwed, Replies, Request
    <2>5. ThreadInStep(v)'
      BY <2>1, <2>2, <2>4 DEF QuietAt, ThreadInStep
    <2> QED BY <2>1, <2>2, <2>3, <2>5 DEF QuietAt
  <1> QED BY <1>1 DEF QuietInv

\* A step that leaves alone all that matters.
LEMMA NoneMoves ==
    ASSUME QuietInv,
           UNCHANGED <<pc, step, link, piece_index, block, inbox, asked, peer, killed>>
    PROVE  QuietInv'
  <1>1. CASE killed
    BY <1>1 DEF QuietInv
  <1>2. CASE ~killed
    <2>1. CASE Peers = {}
      BY <2>1 DEF QuietInv
    <2>2. CASE Peers # {}
      <3>1. PICK w \in Peers : TRUE
        BY <2>2
      <3>2. QuietAt(w)'
        BY ZenonT(30), <1>2 DEF QuietInv, QuietAt, PeerStays, Pieces, ThreadInStep, NothingOwed,
                    BlockOwed, Replies, Request
      <3> QED BY <1>2, <3>2, OneMoves DEF Apart
    <2> QED BY <2>1, <2>2
  <1> QED BY <1>1, <1>2

-----------------------------------------------------------------------------
(* What the peer does *)

\* A connection is one whose thread is in its setup or in its loop.
LEMMA PeerMoves ==
    ASSUME Known, QuietInv, NEW w \in Peers, PeerStep(w)
    PROVE  /\ Apart(w) /\ QuietAt(w) /\ ~killed'
           /\ UNCHANGED <<pc, step, link, piece_index, block>>
           /\ inbox[w] \in Seq(Messages)
           /\ peer[w] \in PeerStates
           /\ pc[w] \in {"await_bitfield", "await_unchoke"} \/ pc[w] \in Looping
  <1>1. /\ Connected(w)
        /\ UNCHANGED <<pc, step, link, piece_index, block, killed>>
    BY DEF PeerStep, Greet, Unchoke, Chat, Answer, HangUp, PeerUnchanged, vars
  <1>2. \A v \in Peers \ {w} :
           inbox'[v] = inbox[v] /\ asked'[v] = asked[v] /\ peer'[v] = peer[v]
    BY DEF PeerStep, Greet, Unchoke, Chat, Answer, HangUp, Say, Known, WireInv,
           SwarmTypeOK, PeerType
  <1>3. pc[w] \in Labels
    BY DEF Known, TypeOK
  <1> QED
    BY <1>1, <1>2, <1>3
    DEF Apart, Connected, QuietInv, Labels, Looping, Known, WireInv, SwarmTypeOK,
        PeerType

LEMMA GreetQuiet ==
    ASSUME Known, QuietInv, NEW w \in Peers, Greet(w)
    PROVE  QuietInv'
  <1>1. PeerStep(w)
    BY DEF PeerStep
  <1>2. /\ Apart(w) /\ QuietAt(w)
        /\ UNCHANGED <<pc, step, link, piece_index, block>>
        /\ inbox[w] \in Seq(Messages)
        /\ peer[w] \in PeerStates
    BY <1>1, PeerMoves
  <1>3. /\ ~peer[w].spoken /\ asked' = asked
    BY DEF Greet
  <1>4. PICK m \in Greetings(w) :
            /\ Say(w, m)
            /\ peer' = [peer EXCEPT ![w].spoken = TRUE, ![w].has = m.pieces]
    BY DEF Greet
  <1>5. /\ m \in Messages /\ m.id = "Bitfield"
        /\ peer' = [peer EXCEPT ![w].spoken = TRUE, ![w].has = Pieces]
    BY <1>4, GreetingsMade DEF Known, Quiet
  <1>6. /\ peer'[w].spoken /\ peer'[w].has = Pieces
        /\ peer'[w].open = peer[w].open
        /\ peer'[w].unchoking = peer[w].unchoking
    BY <1>5 DEF Known, WireInv, PeerType, PeerStates
  <1>7. PeerStays(w)'
    BY <1>2, <1>6 DEF QuietAt, PeerStays, Pieces
  <1>8. ~peer[w].unchoking /\ pc[w] \notin Looping \cup {"await_unchoke"}
    BY <1>2, <1>3 DEF QuietAt, PeerStays
  <1>9. inbox'[w] = Append(inbox[w], m)
    BY <1>4 DEF Say, Known, WireInv, SwarmTypeOK
  <1>10. pc[w] \in SettingUp => SetupInStep(inbox'[w], TRUE, peer[w].unchoking)
    <2>1. peer[w].spoken \in BOOLEAN /\ peer[w].unchoking \in BOOLEAN
      BY <1>2 DEF PeerStates
    <2> QED BY <1>2, <1>3, <1>5, <1>9, <2>1, SetupSays DEF QuietAt
  <1>11. ThreadInStep(w)'
    BY <1>2, <1>8 DEF ThreadInStep, Looping, Known, WireInv, SwarmTypeOK
  <1>12. QuietAt(w)'
    BY <1>2, <1>3, <1>6, <1>7, <1>8, <1>10, <1>11 DEF QuietAt
  <1> QED BY <1>2, <1>12, OneMoves

LEMMA UnchokeQuiet ==
    ASSUME Known, QuietInv, NEW w \in Peers, Unchoke(w)
    PROVE  QuietInv'
  <1>1. PeerStep(w)
    BY DEF PeerStep
  <1>2. /\ Apart(w) /\ QuietAt(w)
        /\ UNCHANGED <<pc, step, link, piece_index, block>>
        /\ inbox[w] \in Seq(Messages)
        /\ peer[w] \in PeerStates
    BY <1>1, PeerMoves
  <1>3. /\ ~peer[w].unchoking /\ peer[w].spoken /\ asked' = asked
        /\ Say(w, Plain("Unchoke"))
        /\ peer' = [peer EXCEPT ![w].spoken = TRUE, ![w].unchoking = TRUE]
    BY DEF Unchoke, Known, Quiet
  <1>4. /\ peer'[w].spoken = TRUE /\ peer'[w].has = peer[w].has
        /\ peer'[w].open = peer[w].open
        /\ peer'[w].unchoking = TRUE
    BY <1>3 DEF Known, WireInv, PeerType, PeerStates
  <1>5. PeerStays(w)'
    BY <1>2, <1>3, <1>4 DEF QuietAt, PeerStays, Pieces
  <1>6. PICK m \in Messages : m.id = "Unchoke" /\ Say(w, m)
    BY <1>3, MessagesMade
  <1>7. inbox'[w] = Append(inbox[w], m)
    BY <1>6 DEF Say, Known, WireInv, SwarmTypeOK
  <1>8. pc[w] \in SettingUp =>
            /\ SetupInStep(inbox'[w], peer'[w].spoken, peer'[w].unchoking)
            /\ Places(inbox'[w], "Bitfield") = Places(inbox[w], "Bitfield")
    <2>1. peer[w].spoken \in BOOLEAN /\ peer[w].unchoking \in BOOLEAN
      BY <1>2 DEF PeerStates
    <2>2. peer[w].spoken = TRUE
      BY <1>3, <2>1
    <2>3. pc[w] \in SettingUp =>
              SetupInStep(inbox[w], peer[w].spoken, peer[w].unchoking)
      BY <1>2 DEF QuietAt
    <2>4. SetupInStep(inbox[w], peer[w].spoken, peer[w].unchoking) =>
              /\ SetupInStep(Append(inbox[w], m), peer[w].spoken, TRUE)
              /\ Places(Append(inbox[w], m), "Bitfield") = Places(inbox[w], "Bitfield")
      BY <1>2, <1>3, <1>6, <2>1, SetupSays
    <2> QED BY <1>4, <1>7, <2>2, <2>3, <2>4
  <1>9. pc[w] \notin Looping
    BY <1>2, <1>3 DEF QuietAt
  <1>10. ThreadInStep(w)'
    BY <1>2, <1>9 DEF ThreadInStep, Looping, Known, WireInv, SwarmTypeOK
  <1>11. QuietAt(w)'
    BY <1>2, <1>3, <1>4, <1>5, <1>8, <1>9, <1>10 DEF QuietAt, SettingUp
  <1> QED BY <1>2, <1>11, OneMoves

\* A keep-alive is not owed.
LEMMA SameOwed ==
    ASSUME NEW w \in Peers, UNCHANGED <<pc, step, piece_index, block, asked>>,
           inbox[w] \in Seq(Messages), NEW m \in Messages, m.id = "KeepAlive",
           inbox'[w] = Append(inbox[w], m), ThreadInStep(w)
    PROVE  ThreadInStep(w)'
  <1>1. /\ Others(Append(inbox[w], m)) = Others(inbox[w])
        /\ \A k \in DOMAIN inbox[w] : /\ k \in DOMAIN Append(inbox[w], m)
                                      /\ Append(inbox[w], m)[k] = inbox[w][k]
    BY SayOthers
  <1>2. /\ Replies(w)' = Replies(w) /\ Request(w)' = Request(w)
        /\ \A k \in DOMAIN inbox[w] : k \in DOMAIN inbox'[w] /\ inbox'[w][k] = inbox[w][k]
    BY <1>1 DEF Replies, Others, Request
  <1> QED BY <1>2 DEF ThreadInStep, BlockOwed, NothingOwed

LEMMA ChatQuiet ==
    ASSUME Known, QuietInv, NEW w \in Peers, Chat(w)
    PROVE  QuietInv'
  <1>1. PeerStep(w)
    BY DEF PeerStep
  <1>2. /\ Apart(w) /\ QuietAt(w)
        /\ UNCHANGED <<pc, step, link, piece_index, block>>
        /\ inbox[w] \in Seq(Messages)
        /\ peer[w] \in PeerStates
    BY <1>1, PeerMoves
  <1>3. /\ asked' = asked /\ Say(w, Plain("KeepAlive"))
        /\ peer' = [peer EXCEPT ![w].chatter = @ + 1]
    BY DEF Chat, Known, Quiet
  <1>4. /\ peer'[w].spoken = peer[w].spoken /\ peer'[w].has = peer[w].has
        /\ peer'[w].open = peer[w].open
        /\ peer'[w].unchoking = peer[w].unchoking
    BY <1>3 DEF Known, WireInv, PeerType, PeerStates
  <1>5. PeerStays(w)'
    BY <1>2, <1>4 DEF QuietAt, PeerStays, Pieces
  <1>6. PICK m \in Messages : m.id = "KeepAlive" /\ Say(w, m)
    BY <1>3, MessagesMade
  <1>7. inbox'[w] = Append(inbox[w], m)
    BY <1>6 DEF Say, Known, WireInv, SwarmTypeOK
  <1>8. pc[w] \in SettingUp =>
            /\ SetupInStep(inbox'[w], peer'[w].spoken, peer'[w].unchoking)
            /\ Places(inbox'[w], "Bitfield") = Places(inbox[w], "Bitfield")
    <2>1. peer[w].spoken \in BOOLEAN /\ peer[w].unchoking \in BOOLEAN
      BY <1>2 DEF PeerStates
    <2> QED BY <1>2, <1>4, <1>6, <1>7, <2>1, SetupSays DEF QuietAt
  <1>9. ThreadInStep(w)'
    BY <1>2, <1>3, <1>6, <1>7, SameOwed DEF QuietAt
  <1>10. QuietAt(w)'
    BY <1>2, <1>3, <1>4, <1>5, <1>8, <1>9 DEF QuietAt, SettingUp
  <1> QED BY <1>2, <1>10, OneMoves

\* What is asked for is the block awaited; the answer takes its place.
LEMMA AnswerQuiet ==
    ASSUME Known, QuietInv, NEW w \in Peers, Answer(w)
    PROVE  QuietInv'
  <1>1. PeerStep(w)
    BY DEF PeerStep
  <1>2. /\ Apart(w) /\ QuietAt(w)
        /\ UNCHANGED <<pc, step, link, piece_index, block>>
        /\ inbox[w] \in Seq(Messages)
        /\ pc[w] \in {"await_bitfield", "await_unchoke"} \/ pc[w] \in Looping
    BY <1>1, PeerMoves
  <1>3. asked[w] # <<>> /\ peer' = peer
    BY DEF Answer
  <1>4. pc[w] \in Looping /\ peer[w].unchoking /\ peer[w].has = Pieces
    BY <1>2, <1>3 DEF QuietAt, SettingUp, PeerStays
  <1>5. pc[w] = "download" /\ step[w] = "reply"
    BY <1>2, <1>3, <1>4
    DEF QuietAt, ThreadInStep, NothingOwed, Looping, Known, WireInv, SwarmTypeOK
  <1>6. asked[w] = <<Request(w)>> /\ Replies(w) = {}
    BY <1>2, <1>3, <1>5 DEF QuietAt, ThreadInStep, BlockOwed, NothingOwed
  <1>7. Head(asked[w]) = Request(w) /\ Tail(asked[w]) = <<>>
    BY <1>6
  <1>8. /\ Request(w) \in Pieces \X Blocks /\ Request(w)[1] \in Pieces
        /\ Request(w) = <<Request(w)[1], Request(w)[2]>>
        /\ Request(w)[2] \in Blocks
    BY <1>5 DEF Request, Known, TypeOK, Holds, WireInv, SwarmTypeOK
  <1>9. /\ \E d \in MaySend(Request(w)) : Say(w, PieceMsg(Request(w), d))
        /\ asked' = [asked EXCEPT ![w] = <<>>]
    BY <1>4, <1>7, <1>8 DEF Answer
  <1>10. PICK d \in Contents : Say(w, PieceMsg(Request(w), d))
    BY <1>8, <1>9, ContentsMade DEF MaySend
  <1>11. PICK m \in Messages : /\ m.id = "Piece" /\ m.request = Request(w)
                               /\ Say(w, m)
    <2>1. PieceMsg(Request(w), d).request = Request(w)
      BY DEF PieceMsg
    <2> QED BY <1>8, <1>10, <2>1, MessagesMade
  <1>12. inbox'[w] = Append(inbox[w], m) /\ asked'[w] = <<>>
    BY <1>9, <1>11 DEF Say, Known, WireInv, SwarmTypeOK
  <1>13. \E k \in DOMAIN inbox'[w] : Others(inbox'[w]) = {k} /\ inbox'[w][k] = m
    <2>1. Others(inbox[w]) = {}
      BY <1>6 DEF Replies, Others
    <2> QED BY SMTT(30), <1>2, <1>11, <1>12, <2>1, SayOthers
  <1>14. BlockOwed(w)'
    <2>1. Replies(w)' = Others(inbox'[w]) /\ Request(w)' = Request(w)
      BY <1>2 DEF Replies, Others, Request
    <2> QED BY <1>11, <1>12, <1>13, <2>1 DEF BlockOwed
  <1>15. QuietAt(w)'
    BY <1>2, <1>3, <1>4, <1>5, <1>14
    DEF QuietAt, PeerStays, Pieces, ThreadInStep, SettingUp, Looping
  <1> QED BY <1>2, <1>15, OneMoves

-----------------------------------------------------------------------------
(* What the thread does *)

LEMMA Reading ==
    ASSUME Known, QuietInv, NEW w \in Peers, Receive(w)
    PROVE  /\ QuietAt(w) /\ ~killed
           /\ inbox[w] \in Seq(Messages) /\ inbox[w] # <<>>
           /\ inbox'[w] = Tail(inbox[w])
           /\ \A v \in Peers \ {w} : inbox'[v] = inbox[v]
           /\ \/ pc[w] = "await_bitfield"
              \/ pc[w] = "await_unchoke" /\ step[w] = "idle"
              \/ pc[w] = "download" /\ step[w] = "reply"
  BY DEF Receive, Listening, QuietInv, Known, WireInv, SwarmTypeOK

\* A message is read and dropped.
LEMMA SkipQuiet ==
    ASSUME Known, QuietInv, NEW w \in Peers, SkipMessage(w)
    PROVE  QuietInv'
  <1>1. /\ Receive(w)
        /\ UNCHANGED <<pc, step, link, piece_index, block, asked, peer, killed>>
    BY DEF SkipMessage, vars
  <1>2. /\ QuietAt(w) /\ ~killed
        /\ inbox[w] \in Seq(Messages) /\ inbox[w] # <<>>
        /\ inbox'[w] = Tail(inbox[w])
        /\ \A v \in Peers \ {w} : inbox'[v] = inbox[v]
        /\ \/ pc[w] = "download" /\ step[w] = "reply"
           \/ pc[w] \in {"await_bitfield", "await_unchoke"}
    BY <1>1, Reading
  <1>3. /\ Replies(w) = Others(inbox[w]) /\ Replies(w)' = Others(inbox'[w])
        /\ Request(w)' = Request(w)
    BY <1>1 DEF Replies, Others, Request
  <1>4. NothingOwed(w) => NothingOwed(w)'
    BY <1>1, <1>2, <1>3, ReadOthers DEF NothingOwed
  <1>5. BlockOwed(w) => BlockOwed(w)' \/ NothingOwed(w)'
    <2>1. CASE asked[w] = <<Request(w)>> /\ Replies(w) = {}
      <3>1. Replies(w)' = {}
        BY <1>2, <1>3, <2>1, ReadOthers
      <3> QED BY <1>1, <1>3, <2>1, <3>1 DEF BlockOwed
    <2>2. ASSUME asked[w] = <<>>, NEW k \in DOMAIN inbox[w], Replies(w) = {k},
                 inbox[w][k].id = "Piece", inbox[w][k].request = Request(w)
          PROVE  BlockOwed(w)' \/ NothingOwed(w)'
      <3>1. Others(inbox[w]) = {k}
        BY <1>3, <2>2
      <3>2. CASE Head(inbox[w]).id = "KeepAlive"
        <4>1. /\ k - 1 \in DOMAIN Tail(inbox[w])
              /\ Others(Tail(inbox[w])) = {k - 1}
              /\ Tail(inbox[w])[k - 1] = inbox[w][k]
          BY <1>2, <3>1, <3>2, ReadOthers
        <4>2. /\ k - 1 \in DOMAIN inbox'[w] /\ Replies(w)' = {k - 1}
              /\ inbox'[w][k - 1] = inbox[w][k]
          BY <1>2, <1>3, <4>1
        <4> QED BY <1>1, <1>3, <2>2, <4>2 DEF BlockOwed
      <3>3. CASE Head(inbox[w]).id # "KeepAlive"
        <4>1. Replies(w)' = {}
          BY <1>2, <1>3, <3>1, <3>3, ReadOthers
        <4> QED BY <1>1, <2>2, <4>1 DEF NothingOwed
      <3> QED BY <3>2, <3>3
    <2> QED BY <2>1, <2>2 DEF BlockOwed
  <1>6. pc[w] \in SettingUp =>
            /\ SetupInStep(inbox'[w], peer[w].spoken, peer[w].unchoking)
            /\ Places(inbox[w], "Bitfield") = {} => Places(inbox'[w], "Bitfield") = {}
    <2>1. peer[w].spoken \in BOOLEAN /\ peer[w].unchoking \in BOOLEAN
      BY DEF Known, WireInv, PeerType, PeerStates
    <2> QED BY <1>2, <2>1, SetupReads DEF QuietAt
  <1>7. ThreadInStep(w)'
    BY <1>1, <1>2, <1>4, <1>5 DEF QuietAt, ThreadInStep
  <1>8. QuietAt(w)'
    BY <1>1, <1>2, <1>6, <1>7 DEF QuietAt, PeerStays, Pieces, SettingUp
  <1>9. Apart(w)
    BY <1>1, <1>2 DEF Apart
  <1> QED BY <1>8, <1>9, OneMoves

LEMMA SetupQuiet ==
    ASSUME Known, QuietInv, NEW w \in Peers, ReceiveBitfield(w) \/ ReceiveUnchoke(w)
    PROVE  QuietInv'
  <1>1. /\ Receive(w)
        /\ UNCHANGED <<link, piece_index, block, asked, peer, killed>>
    BY DEF ReceiveBitfield, ReceiveUnchoke, SetUnchanged, loopLocals
  <1>2. /\ QuietAt(w) /\ ~killed
        /\ inbox[w] \in Seq(Messages) /\ inbox[w] # <<>>
        /\ inbox'[w] = Tail(inbox[w])
        /\ \A v \in Peers \ {w} : inbox'[v] = inbox[v]
        /\ pc[w] = "await_unchoke" => step[w] = "idle"
        /\ pc[w] \in {"await_bitfield", "await_unchoke"}
    BY <1>1, Reading DEF ReceiveBitfield, ReceiveUnchoke
  <1>3. /\ asked[w] = <<>>
        /\ SetupInStep(inbox[w], peer[w].spoken, peer[w].unchoking)
        /\ peer[w].spoken \in BOOLEAN /\ peer[w].unchoking \in BOOLEAN
    BY <1>2 DEF QuietAt, SettingUp, Known, WireInv, PeerType, PeerStates
  <1>4. /\ SetupInStep(inbox'[w], peer[w].spoken, peer[w].unchoking)
        /\ Places(inbox[w], "Bitfield") = {} => Places(inbox'[w], "Bitfield") = {}
        /\ Message(w).id = "Bitfield" =>
               peer[w].spoken /\ Places(inbox'[w], "Bitfield") = {}
    BY <1>2, <1>3, SetupReads DEF Message
  <1>5. \/ /\ pc'[w] = "await_bitfield"
           /\ step'[w] = step[w] \/ step'[w] = "interested"
        \/ /\ pc'[w] = "await_unchoke"
           /\ pc[w] = "await_unchoke" \/ Message(w).id = "Bitfield"
           /\ step'[w] = step[w] \/ step'[w] = "interested"
        \/ /\ pc[w] = "await_unchoke" /\ Message(w).id = "Unchoke"
           /\ pc'[w] = "peek" /\ step'[w] = "idle"
    BY <1>2 DEF ReceiveBitfield, ReceiveUnchoke, Goto, Known, TypeOK, WireInv,
                SwarmTypeOK
  <1>6. Apart(w)
    BY <1>1, <1>2 DEF Apart, ReceiveBitfield, ReceiveUnchoke, Goto, Known, TypeOK,
                      WireInv, SwarmTypeOK
  <1>7. PeerStays(w)'
    BY <1>1, <1>2 DEF QuietAt, PeerStays, Pieces
  <1>8. CASE pc'[w] \in {"await_bitfield", "await_unchoke"} /\ step'[w] \in {step[w], "interested"}
    <2>1. step[w] \notin {"reply", "request"}
      BY <1>2 DEF Known, WireInv, SwarmTypeOK
    <2>2. pc'[w] = "await_unchoke" =>
              peer[w].spoken /\ Places(inbox'[w], "Bitfield") = {}
      BY <1>2, <1>4, <1>5 DEF QuietAt
    <2>3. QuietAt(w)'
      BY <1>1, <1>3, <1>4, <1>7, <1>8, <2>1, <2>2 DEF QuietAt, ThreadInStep, Looping
    <2> QED BY <1>6, <2>3, OneMoves
  <1>9. CASE /\ pc[w] = "await_unchoke" /\ Message(w).id = "Unchoke"
             /\ pc'[w] = "peek" /\ step'[w] = "idle"
    <2>1. Places(inbox[w], "Bitfield") = {}
      BY <1>2, <1>9 DEF QuietAt
    <2>2. peer[w].unchoking /\ Others(inbox'[w]) = {}
      BY <1>2, <1>3, <1>9, <2>1, SetupReads DEF Message
    <2>3. NothingOwed(w)'
      BY <1>1, <1>3, <2>2 DEF NothingOwed, Replies, Others
    <2>4. QuietAt(w)'
      BY <1>1, <1>7, <1>9, <2>2, <2>3 DEF QuietAt, ThreadInStep, SettingUp
    <2> QED BY <1>6, <2>4, OneMoves
  <1> QED BY <1>5, <1>8, <1>9

LEMMA InterestedQuiet ==
    ASSUME Known, QuietInv, NEW w \in Peers, SendInterested(w)
    PROVE  QuietInv'
  <1>1. /\ QuietAt(w) /\ ~killed /\ pc[w] = "await_unchoke"
        /\ link[w] = "up" /\ peer[w].open
    BY DEF SendInterested, QuietInv, QuietAt, PeerStays, Known, WireInv, StepsFit
  <1>2. /\ UNCHANGED <<pc, link, piece_index, block, inbox, asked, peer, killed>>
        /\ step' = [step EXCEPT ![w] = "idle"]
    BY <1>1 DEF SendInterested, Send, loopLocals
  <1>3. step'[w] = "idle" /\ Apart(w)
    BY <1>1, <1>2 DEF Apart, Known, WireInv, SwarmTypeOK
  <1>4. QuietAt(w)'
    BY <1>1, <1>2, <1>3
    DEF QuietAt, PeerStays, Pieces, ThreadInStep, Looping
  <1> QED BY <1>3, <1>4, OneMoves

\* A peer that stays is never read as garbage, nor is its connection lost.
LEMMA NeverLost ==
    ASSUME Known, QuietInv, NEW w \in Peers
    PROVE  ~LoseConnection(w) /\ ~ReceiveGarbage(w) /\ ~GarbageReply(w)
  BY DEF LoseConnection, ReceiveGarbage, ReadGarbage, GarbageReply, Listening,
         QuietInv, QuietAt, PeerStays, Known, Quiet

LEMMA StartQuiet ==
    ASSUME Known, QuietInv, NEW w \in Peers, StartPiece(w)
    PROVE  QuietInv'
  <1>1. /\ QuietAt(w) /\ ~killed /\ pc[w] = "pop"
        /\ UNCHANGED <<link, inbox, asked, peer, killed>>
        /\ pc'[w] = "download" /\ step'[w] = "request"
    BY DEF StartPiece, PopFront, Goto, conversation, QuietInv, Known, TypeOK, WireInv,
           SwarmTypeOK
  <1>2. Apart(w)
    BY <1>1
    DEF Apart, StartPiece, PopFront, Pop, Goto, Known, TypeOK, WireInv, SwarmTypeOK
  <1>3. NothingOwed(w)'
    BY <1>1 DEF QuietAt, ThreadInStep, NothingOwed, Replies
  <1>4. QuietAt(w)'
    BY <1>1, <1>3
    DEF QuietAt, PeerStays, Pieces, ThreadInStep, SettingUp, Looping
  <1> QED BY <1>2, <1>4, OneMoves

LEMMA RequestQuiet ==
    ASSUME Known, QuietInv, NEW w \in Peers, SendRequest(w)
    PROVE  QuietInv'
  <1>1. /\ QuietAt(w) /\ ~killed /\ pc[w] = "download" /\ step[w] = "request"
        /\ link[w] = "up" /\ peer[w].open
    BY DEF SendRequest, QuietInv, QuietAt, PeerStays
  <1>2. /\ UNCHANGED <<pc, link, piece_index, block, inbox, peer, killed>>
        /\ asked' = [asked EXCEPT ![w] = Append(@, Request(w))]
        /\ step' = [step EXCEPT ![w] = "reply"]
    BY <1>1 DEF SendRequest, Send, loopLocals
  <1>3. step'[w] = "reply" /\ Apart(w) /\ asked'[w] = Append(asked[w], Request(w))
    BY <1>1, <1>2 DEF Apart, Known, WireInv, SwarmTypeOK
  <1>4. asked[w] = <<>> /\ Replies(w) = {}
    BY <1>1 DEF QuietAt, ThreadInStep, NothingOwed
  <1>5. asked'[w] = <<Request(w)>>
    BY <1>3, <1>4
  <1>6. BlockOwed(w)'
    BY <1>2, <1>4, <1>5 DEF BlockOwed, Replies, Request
  <1>7. QuietAt(w)'
    BY <1>1, <1>2, <1>3, <1>6
    DEF QuietAt, PeerStays, Pieces, ThreadInStep, SettingUp, Looping
  <1> QED BY <1>3, <1>7, OneMoves

\* The reply read is the block awaited, and nothing is left after it.
LEMMA ReplyRead ==
    ASSUME Known, QuietInv, NEW w \in Peers, pc[w] = "download", Receive(w), Delivered(w)
    PROVE  /\ Matches(w)
           /\ asked[w] = <<>> /\ Others(inbox'[w]) = {}
  <1>1. /\ QuietAt(w) /\ step[w] = "reply"
        /\ inbox[w] \in Seq(Messages) /\ inbox[w] # <<>>
        /\ inbox'[w] = Tail(inbox[w])
    BY Reading
  <1>2. Head(inbox[w]).id # "KeepAlive" /\ Message(w) = Head(inbox[w])
    BY DEF Delivered, Message
  <1>3. Replies(w) = Others(inbox[w])
    BY DEF Replies, Others
  <1>4. Replies(w) # {}
    BY <1>1, <1>2, <1>3, ReadOthers
  <1>5. PICK k \in DOMAIN inbox[w] :
               /\ asked[w] = <<>> /\ Replies(w) = {k}
               /\ inbox[w][k].id = "Piece" /\ inbox[w][k].request = Request(w)
    BY <1>1, <1>4 DEF QuietAt, ThreadInStep, BlockOwed, NothingOwed
  <1>6. Head(inbox[w]) = inbox[w][k] /\ Others(Tail(inbox[w])) = {}
    BY <1>1, <1>2, <1>3, <1>5, ReadOthers
  <1> QED BY <1>1, <1>2, <1>5, <1>6 DEF Matches

LEMMA ReplyQuiet ==
    ASSUME Known, QuietInv, NEW w \in Peers,
           NextBlock(w) \/ LastBlock(w) \/ WrongReply(w)
    PROVE  QuietInv' /\ ~WrongReply(w)
  <1>1. /\ pc[w] = "download" /\ Receive(w) /\ Delivered(w)
        /\ UNCHANGED <<link, piece_index, asked, peer, killed>>
    BY DEF NextBlock, LastBlock, WrongReply, vars, conversation, loopLocals
  <1>2. /\ QuietAt(w) /\ ~killed
        /\ \A v \in Peers \ {w} : inbox'[v] = inbox[v]
    BY <1>1, Reading
  <1>3. Matches(w) /\ asked[w] = <<>> /\ Others(inbox'[w]) = {}
    BY <1>1, ReplyRead
  <1>4. NothingOwed(w)'
    BY <1>1, <1>3 DEF NothingOwed, Replies, Others
  <1>5. ~WrongReply(w)
    BY <1>3 DEF WrongReply
  <1>6. \/ pc'[w] = "peek" /\ step'[w] = "idle"
        \/ pc'[w] = "download" /\ step'[w] = "request"
    BY <1>1, <1>5
    DEF NextBlock, LastBlock, GiveBack, Goto, vars, Known, TypeOK, WireInv, SwarmTypeOK
  <1>7. Apart(w)
    BY <1>1, <1>2, <1>5
    DEF Apart, NextBlock, LastBlock, GiveBack, Goto, vars, Known, TypeOK, WireInv,
        SwarmTypeOK
  <1>8. QuietAt(w)'
    BY <1>1, <1>2, <1>4, <1>6
    DEF QuietAt, PeerStays, Pieces, ThreadInStep, SettingUp, Looping
  <1> QED BY <1>5, <1>7, <1>8, OneMoves

\* The steps in which no connection is used.
LEMMA AloneQuiet ==
    ASSUME Known, QuietInv, NEW w \in Peers, ThreadAlone(w)
    PROVE  QuietInv'
  <1>1. /\ QuietAt(w) /\ ~killed
        /\ UNCHANGED <<step, block, inbox, asked, peer, killed>>
    BY DEF ThreadAlone, QuietInv, wireVars
  <1>2. /\ link' = link
        /\ \/ pc[w] \in SettingUp /\ pc'[w] \in SettingUp \ {"await_unchoke"}
           \/ /\ pc[w] \in {"peek", "pop", "skip_pop", "skip_push"}
              /\ pc'[w] \in {"peek", "pop", "skip_pop", "skip_push"}
           \/ pc'[w] = "exit"
    BY DEF ThreadAlone, Connect, Handshake, QueueSteps, PeekEmpty, PeekMiss, PeekHit,
           SkipPop, SkipPush, PopEmpty, Goto, conversation, SettingUp, Known, TypeOK
  <1>3. Apart(w)
    BY <1>1, <1>2
    DEF Apart, ThreadAlone, Connect, Handshake, QueueSteps, PeekEmpty, PeekMiss,
        PeekHit, SkipPop, SkipPush, PopEmpty, Peek, Pop, Goto, loopLocals, Known, TypeOK
  <1>4. pc[w] # "download" /\ step[w] \notin {"request", "reply"}
    BY <1>2 DEF ThreadAlone, Connect, Handshake, QueueSteps, PeekEmpty, PeekMiss,
                PeekHit, SkipPop, SkipPush, PopEmpty, Known, WireInv, SwarmTypeOK
  <1>5. NothingOwed(w) => NothingOwed(w)'
    BY <1>1 DEF NothingOwed, Replies
  <1>6. QuietAt(w)'
    BY <1>1, <1>2, <1>4, <1>5
    DEF QuietAt, PeerStays, Pieces, ThreadInStep, SettingUp, Looping
  <1> QED BY <1>3, <1>6, OneMoves

LEMMA CoordinatorQuiet ==
    ASSUME Known, Proved!IInv, QuietInv, Coordinator
    PROVE  QuietInv'
  <1>1. CASE BeginJoin \/ Return
    <2>1. UNCHANGED <<pc, step, link, piece_index, block, inbox, asked, peer, killed>>
      BY <1>1 DEF Coordinator, BeginJoin, Return, conversation, loopLocals, wireVars
    <2> QED BY <2>1, NoneMoves
  <1>2. ASSUME NEW w \in Peers, Spawn(w), ~killed, UNCHANGED wireVars
        PROVE  QuietInv'
    <2>1. /\ UNCHANGED <<step, link, piece_index, block, inbox, asked, peer, killed>>
          /\ pc' = [pc EXCEPT ![w] = "connect"]
      BY <1>2 DEF Spawn, conversation, loopLocals, wireVars
    <2>2. pc[w] = "unborn"
      BY <1>2 DEF Spawn, Proved!IInv, Proved!ThreadsRun
    <2>3. QuietAt(w) /\ step[w] \notin {"request", "reply"} /\ pc'[w] = "connect"
      BY <1>2, <2>1, <2>2 DEF QuietInv, Known, TypeOK, WireInv, SwarmTypeOK
    <2>4. Apart(w)
      BY <1>2, <2>1 DEF Apart, Known, TypeOK
    <2>5. QuietAt(w)'
      BY <2>1, <2>2, <2>3
      DEF QuietAt, PeerStays, Pieces, ThreadInStep, SettingUp, Looping
    <2> QED BY <2>4, <2>5, OneMoves
  <1> QED BY <1>1, <1>2 DEF Coordinator

-----------------------------------------------------------------------------
LEMMA QuietInit == Quiet /\ SwarmInit => QuietInv
  <1> SUFFICES ASSUME SwarmInit, NEW w \in Peers PROVE QuietAt(w)
    BY DEF QuietInv
  <1>1. /\ link[w] = "up" /\ pc[w] = "unborn" /\ step[w] = "idle"
        /\ inbox[w] = <<>> /\ asked[w] = <<>>
        /\ peer[w].open /\ ~peer[w].spoken /\ ~peer[w].unchoking
    BY DEF SwarmInit, Init
  <1>2. DOMAIN inbox[w] = {}
    BY <1>1
  <1>3. SetupInStep(inbox[w], peer[w].spoken, peer[w].unchoking)
    BY <1>2 DEF SetupInStep, AtMostOne, Places
  <1> QED
    BY <1>1, <1>3 DEF QuietAt, PeerStays, ThreadInStep, Looping

LEMMA QuietNext ==
    Quiet /\ Proved!IInv /\ WireInv /\ QuietInv /\ [SwarmNext]_swarmVars
        => QuietInv' /\ \A w \in Peers : ~WrongReply(w)
  <1> SUFFICES ASSUME Known, Proved!IInv, QuietInv, [SwarmNext]_swarmVars
               PROVE  QuietInv' /\ \A w \in Peers : ~WrongReply(w)
    BY TypesAgree DEF Known
  <1>1. ASSUME NEW w \in Peers PROVE ~WrongReply(w)
    BY ReplyQuiet
  <1>2. CASE Coordinator
    BY <1>1, <1>2, CoordinatorQuiet
  <1>3. ASSUME NEW w \in Peers, ThreadAlone(w) \/ Converse(w) PROVE QuietInv'
    BY <1>3, AloneQuiet, SkipQuiet, SetupQuiet, InterestedQuiet, NeverLost DEF Converse
  <1>4. ASSUME NEW w \in Peers, DownloadPiece(w) PROVE QuietInv'
    BY <1>4, StartQuiet, RequestQuiet, ReplyQuiet, NeverLost DEF DownloadPiece
  <1>5. ASSUME NEW w \in Peers, Overread(w) PROVE QuietInv'
    BY <1>5 DEF Overread, QuietInv
  <1>6. ASSUME NEW w \in Peers, PeerStep(w) PROVE QuietInv'
    <2>1. ~HangUp(w)
      BY <1>6 DEF HangUp, Known, Quiet
    <2> QED
      BY <1>6, <2>1, GreetQuiet, UnchokeQuiet, ChatQuiet, AnswerQuiet DEF PeerStep
  <1>7. CASE Over \/ UNCHANGED swarmVars
    <2>1. UNCHANGED <<pc, step, link, piece_index, block, inbox, asked, peer, killed>>
      BY <1>7 DEF Over, swarmVars, vars, wireVars
    <2> QED BY <1>1, <2>1, NoneMoves
  <1> QED BY <1>1, <1>2, <1>3, <1>4, <1>5, <1>6, <1>7 DEF SwarmNext

\* With peers that never speak out of turn a thread that waits for a block is
\* owed exactly that block, or nothing when it took the block for a keep-alive,
\* through any number of blocks, pieces and keep-alives, and whatever corrupt
\* blocks make it give a piece back.
THEOREM RequestsInStep ==
    ASSUME Quiet
    PROVE  SwarmSpec => []InStep
  <1>1. QuietInv => InStep
    BY DEF QuietInv, QuietAt, ThreadInStep, InStep
  <1>2. SwarmInit => QuietInv
    BY QuietInit
  <1>3. Proved!IInv /\ WireInv /\ QuietInv /\ [SwarmNext]_swarmVars => QuietInv'
    BY QuietNext
  <1> QED BY <1>1, <1>2, <1>3, WireInductive, PTL DEF SwarmSpec

\* So no such peer makes download_piece take a reply for the wrong one: only a
\* block that fails its hash sends a piece back to the queue.
THEOREM NoWrongReply ==
    ASSUME Quiet
    PROVE  SwarmSpec => [][\A w \in Peers : ~WrongReply(w)]_swarmVars
  <1>1. SwarmInit => QuietInv
    BY QuietInit
  <1>2. Proved!IInv /\ WireInv /\ QuietInv /\ [SwarmNext]_swarmVars
            => QuietInv' /\ [\A w \in Peers : ~WrongReply(w)]_swarmVars
    BY QuietNext
  <1> QED BY <1>1, <1>2, WireInductive, PTL DEF SwarmSpec
=============================================================================

------------------------- MODULE SocketTableProofs -------------------------
(***************************************************************************)
(* For any number of threads, and whatever fails: a thread comes to share  *)
(* the socket of another only while some thread has not opened its own.    *)
(* The run SocketDoubleClose shows that it then does.                      *)
(***************************************************************************)
EXTENDS SocketTable, FiniteSetTheorems, TLAPS

SocketTypeOK ==
    /\ pc \in [Threads -> {"start", "connect", "handshake", "disconnect",
                           "talk", "exit"}]
    /\ socket_fd \in [Threads -> Fds \cup {-1}]
    /\ owner \in [Fds -> Threads \cup {Nobody}]

LEMMA FdsType == Fds \subseteq Nat /\ -1 \notin Fds
  <1>1. Cardinality(Threads) \in Nat
    BY SocketAssumption, FS_CardinalityType
  <1> QED BY <1>1 DEF Fds

LEMMA SocketTypeInit == Init => SocketTypeOK
  BY DEF Init, SocketTypeOK

LEMMA SocketTypeNext ==
    ASSUME SocketTypeOK, [Next]_socketVars
    PROVE  SocketTypeOK'
  <1> USE DEF SocketTypeOK, Goto
  <1>1. ASSUME NEW w \in Threads, OpenSocket(w)
        PROVE  SocketTypeOK'
    BY <1>1 DEF OpenSocket
  <1>11. ASSUME NEW w \in Threads, OpenFails(w)
        PROVE  SocketTypeOK'
    BY <1>11 DEF OpenFails
  <1>2. ASSUME NEW w \in Threads, ConnectFails(w)
        PROVE  SocketTypeOK'
    BY <1>2 DEF ConnectFails, Close, Forget
  <1>3. ASSUME NEW w \in Threads, Connect(w)
        PROVE  SocketTypeOK'
    BY <1>3 DEF Connect
  <1>4. ASSUME NEW w \in Threads, HandshakeFails(w)
        PROVE  SocketTypeOK'
    BY <1>4 DEF HandshakeFails, Close
  <1>5. ASSUME NEW w \in Threads, Disconnect(w)
        PROVE  SocketTypeOK'
    BY <1>5 DEF Disconnect, Close, Forget
  <1>6. ASSUME NEW w \in Threads, Handshake(w)
        PROVE  SocketTypeOK'
    BY <1>6 DEF Handshake
  <1>7. ASSUME NEW w \in Threads, ReceiveFails(w)
        PROVE  SocketTypeOK'
    BY <1>7 DEF ReceiveFails, Close
  <1>8. ASSUME NEW w \in Threads, SendFails(w)
        PROVE  SocketTypeOK'
    BY <1>8 DEF SendFails, Close, Forget
  <1>9. ASSUME NEW w \in Threads, Leave(w)
        PROVE  SocketTypeOK'
    BY <1>9 DEF Leave
  <1>10. CASE UNCHANGED socketVars
    BY <1>10 DEF socketVars
  <1> QED
    BY <1>1, <1>2, <1>3, <1>4, <1>5, <1>6, <1>7, <1>8, <1>9, <1>10, <1>11
    DEF Next, AllLeft

LEMMA SocketTypes == Spec => []SocketTypeOK
  BY SocketTypeInit, SocketTypeNext, PTL DEF Spec

-----------------------------------------------------------------------------
(* Sharing *)

\* A step that gives no descriptor to anybody, and no thread a number, shares
\* no socket anew.
LEMMA ReleasedOnly ==
    ASSUME \A n \in Fds : owner'[n] \in {owner[n], Nobody},
           \A w \in Threads : socket_fd'[w] \in {socket_fd[w], -1}
    PROVE  Aliased' \subseteq Aliased
  BY FdsType, SocketAssumption DEF Aliased

\* Once every thread has opened its socket, descriptors are only released.
LEMMA NoSharingAnew ==
    ASSUME SocketTypeOK, [Next]_socketVars, \A w \in Threads : pc[w] # "start"
    PROVE  Aliased' \subseteq Aliased
  <1> SUFFICES /\ \A n \in Fds : owner'[n] \in {owner[n], Nobody}
               /\ \A w \in Threads : socket_fd'[w] \in {socket_fd[w], -1}
    BY ReleasedOnly
  <1> USE DEF SocketTypeOK
  <1>1. ASSUME NEW w \in Threads, OpenSocket(w) \/ OpenFails(w) PROVE FALSE
    BY <1>1 DEF OpenSocket, OpenFails
  <1>2. CASE \E w \in Threads : ConnectFails(w) \/ Disconnect(w)
                                \/ SendFails(w)
    BY <1>2 DEF ConnectFails, Disconnect, SendFails, Close, Forget
  <1>3. CASE \E w \in Threads : HandshakeFails(w) \/ ReceiveFails(w)
    BY <1>3 DEF HandshakeFails, ReceiveFails, Close
  <1>4. CASE \E w \in Threads : Connect(w) \/ Handshake(w) \/ Leave(w)
    BY <1>4 DEF Connect, Handshake, Leave
  <1>5. CASE UNCHANGED socketVars
    BY <1>5 DEF socketVars
  <1> QED BY <1>1, <1>2, <1>3, <1>4, <1>5 DEF Next, AllLeft

\* Whatever fails, a socket comes to be shared only while some thread has not
\* connected yet.  The numbers shared by then stay shared: a thread that still
\* keeps another's can read from it, write to it and close it later.
THEOREM SharedByOpening == Spec => AliasedByOpening
  <1>1. SocketTypeOK /\ [Next]_socketVars
           => [(\A w \in Threads : pc[w] # "start")
                   => Aliased' \subseteq Aliased]_socketVars
    BY NoSharingAnew
  <1> QED BY <1>1, SocketTypes, PTL DEF Spec, AliasedByOpening
=============================================================================

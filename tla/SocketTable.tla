---------------------------- MODULE SocketTable ----------------------------
(***************************************************************************)
(* The descriptors of the connections.  Every thread of the orchestrator   *)
(* keeps the number of its socket in conn.socket_fd; the kernel gives each *)
(* new socket the lowest number that is free, whichever thread freed it.   *)
(* connect_to_peer, send_message and disconnect forget the number of a     *)
(* socket they close; perform_handshake and receive_message do not.        *)
(***************************************************************************)
EXTENDS Integers, FiniteSets

CONSTANTS
    Threads,  \* the threads that run peer_worker
    Nobody,   \* the owner of a descriptor that is free
    Errors    \* the calls that may fail: a subset of ErrorKinds

ErrorKinds == {"socket", "connect", "handshake", "receive", "send"}

ASSUME SocketAssumption ==
    /\ IsFiniteSet(Threads)
    /\ Nobody \notin Threads
    /\ Errors \subseteq ErrorKinds

\* As many numbers as threads: none has two sockets at a time.
Fds == 0 .. Cardinality(Threads) - 1

VARIABLES
    pc,         \* pc[w]: where the thread is
    socket_fd,  \* socket_fd[w]: conn.socket_fd, -1 when there is none
    owner       \* owner[n]: the thread whose connection descriptor n is

socketVars == <<pc, socket_fd, owner>>

Init ==
    /\ pc = [w \in Threads |-> "start"]
    /\ socket_fd = [w \in Threads |-> -1]
    /\ owner = [n \in Fds |-> Nobody]

Goto(w, label) == pc' = [pc EXCEPT ![w] = label]

IsOpen(n) == n \in Fds /\ owner[n] # Nobody

\* close(n) frees n whoever opened it; on a number that is not open it fails,
\* and nothing looks at its result.
Close(n) == owner' = [m \in Fds |-> IF m = n THEN Nobody ELSE owner[m]]

Forget(w) == socket_fd' = [socket_fd EXCEPT ![w] = -1]

Lowest(n) == ~IsOpen(n) /\ \A m \in Fds : m < n => IsOpen(m)

-----------------------------------------------------------------------------
(* connect_to_peer *)

OpenSocket(w) ==
    /\ pc[w] = "start"
    /\ \E n \in Fds :
          /\ Lowest(n)
          /\ socket_fd' = [socket_fd EXCEPT ![w] = n]
          /\ owner' = [owner EXCEPT ![n] = w]
    /\ Goto(w, "connect")

\* When there is no socket, or no connection, the worker returns:
\* conn.socket_fd < 0.
OpenFails(w) ==
    /\ pc[w] = "start"
    /\ "socket" \in Errors
    /\ Goto(w, "exit")
    /\ UNCHANGED <<socket_fd, owner>>

ConnectFails(w) ==
    /\ pc[w] = "connect"
    /\ ~IsOpen(socket_fd[w]) \/ "connect" \in Errors
    /\ Close(socket_fd[w])
    /\ Forget(w)
    /\ Goto(w, "exit")

Connect(w) ==
    /\ pc[w] = "connect"
    /\ IsOpen(socket_fd[w])
    /\ Goto(w, "handshake")
    /\ UNCHANGED <<socket_fd, owner>>

-----------------------------------------------------------------------------
(* perform_handshake, and the disconnect of peer_worker when it fails *)

HandshakeFails(w) ==
    /\ pc[w] = "handshake"
    /\ ~IsOpen(socket_fd[w]) \/ "handshake" \in Errors
    /\ Close(socket_fd[w])
    /\ Goto(w, "disconnect")
    /\ UNCHANGED socket_fd

\* Mutant: connects once more after a failed handshake.
DisconnectReopens(w) ==
    /\ pc[w] = "disconnect"
    /\ \E n \in Fds :
          /\ Lowest(n)
          /\ socket_fd' = [socket_fd EXCEPT ![w] = n]
          /\ owner' = [owner EXCEPT ![n] = w]
    /\ Goto(w, "connect")

\* The second close of the same number.
Disconnect(w) ==
    /\ pc[w] = "disconnect"
    /\ Close(socket_fd[w])
    /\ Forget(w)
    /\ Goto(w, "exit")

Handshake(w) ==
    /\ pc[w] = "handshake"
    /\ IsOpen(socket_fd[w])
    /\ Goto(w, "talk")
    /\ UNCHANGED <<socket_fd, owner>>

-----------------------------------------------------------------------------
(* The conversation: receive_message and send_message in any order.  A call *)
(* on an open socket that succeeds changes nothing here.                    *)

\* The error branches of receive_message close the socket and keep its number.
ReceiveFails(w) ==
    /\ pc[w] = "talk"
    /\ ~IsOpen(socket_fd[w]) \/ "receive" \in Errors
    /\ Close(socket_fd[w])
    /\ UNCHANGED <<pc, socket_fd>>

SendFails(w) ==
    /\ pc[w] = "talk"
    /\ ~IsOpen(socket_fd[w]) \/ "send" \in Errors
    /\ Close(socket_fd[w])
    /\ Forget(w)
    /\ UNCHANGED pc

\* The worker ends without closing its socket.
Leave(w) ==
    /\ pc[w] = "talk"
    /\ Goto(w, "exit")
    /\ UNCHANGED <<socket_fd, owner>>

AllLeft == (\A w \in Threads : pc[w] = "exit") /\ UNCHANGED socketVars

Next == \/ \E w \in Threads :
              \/ OpenSocket(w) \/ OpenFails(w) \/ ConnectFails(w)
              \/ Connect(w) \/ HandshakeFails(w) \/ Disconnect(w)
              \/ Handshake(w) \/ ReceiveFails(w) \/ SendFails(w) \/ Leave(w)
        \/ AllLeft

Spec == Init /\ [][Next]_socketVars

-----------------------------------------------------------------------------
(* Properties *)

\* What a thread reads, writes and closes is its own connection, or nothing
\* ("Each thread owns ONE persistent connection to ONE peer"): the number it
\* keeps never comes to name the socket of another thread.
OwnSocket ==
    /\ \A w \in Threads : pc[w] \in {"connect", "handshake"}
           => socket_fd[w] \in Fds /\ owner[socket_fd[w]] = w
    /\ \A w \in Threads : pc[w] \in {"disconnect", "talk"} /\ socket_fd[w] # -1
           => owner[socket_fd[w]] \in {w, Nobody}

\* The pairs of threads where the first keeps the number of a socket of the
\* second.
Aliased == {p \in Threads \X Threads :
                p[1] # p[2] /\ socket_fd[p[1]] \in Fds
                            /\ owner[socket_fd[p[1]]] = p[2]}

\* Whatever fails, a thread comes to share a socket only while some thread has
\* not connected yet: each connects once, and once all have, no number is
\* given out again.  What is shared by then stays shared, and may be closed
\* for its owner.
AliasedByOpening ==
    [][(\A w \in Threads : pc[w] # "start") => Aliased' \subseteq Aliased]_socketVars
=============================================================================

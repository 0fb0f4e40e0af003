----------------------------- MODULE MCTransfer -----------------------------
(* Instances of Transfer for TLC: the messages a peer may send unasked.    *)
EXTENDS Transfer

\* A keep-alive has no body, a Choke only its id.
KeepAliveOrChoke == {<<>>, <<0>>}
=============================================================================

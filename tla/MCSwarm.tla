------------------------------ MODULE MCSwarm ------------------------------
(* Instances of Swarm for TLC: named sets of peers and bitfields.          *)
EXTENDS Swarm

CONSTANTS p1, p2

CompleteBitfields == [w \in Peers |-> {Pieces}]

AnyBitfields == [w \in Peers |-> SUBSET Pieces]
=============================================================================

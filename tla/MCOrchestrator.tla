--------------------------- MODULE MCOrchestrator ---------------------------
(* Instances of Orchestrator for TLC: named sets of peers and bitfields.   *)
EXTENDS Orchestrator, TLC

CONSTANTS p1, p2, p3

\* Any bitfield at all.
AnyBitfields == [w \in Peers |-> SUBSET Pieces]

\* Between them the first two peers have every piece, and each has one of the
\* two kinds the other lacks.
SplitBitfields ==
    [w \in Peers |-> {{p \in Pieces : (p % 2 = 0) <=> (w = p1)}}]

AnyOrder == Permutations(Peers)
=============================================================================

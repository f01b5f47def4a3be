------------------------------ MODULE MCRing ------------------------------
(***************************************************************************)
(* Instances of Ring for TLC: four slots whose counters wrap after eight   *)
(* positions, blocks of one and three samples, a backlog of two.           *)
(***************************************************************************)
EXTENDS Ring

ChunksMC == {1, 3}
FramesMC == {1, 2}
=============================================================================

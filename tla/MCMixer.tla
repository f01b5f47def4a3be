------------------------------ MODULE MCMixer ------------------------------
(***************************************************************************)
(* An instance of Mixer for TLC: a fade of three samples, a ring of three, *)
(* calls of one and two frames.                                            *)
(***************************************************************************)
EXTENDS Mixer

ChunksMC == {2}
FramesMC == {1, 2}
=============================================================================

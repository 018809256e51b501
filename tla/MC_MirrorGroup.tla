---------------------------- MODULE MC_MirrorGroup ----------------------------
(* Instances of MirrorGroup for TLC.                                       *)
EXTENDS MirrorGroup
=============================================================================

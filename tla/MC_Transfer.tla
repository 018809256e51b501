----------------------------- MODULE MC_Transfer -----------------------------
(* Instances of Transfer for TLC.                                          *)
EXTENDS Transfer

Single    == << 4 >>         \* the remote file does not change
Shrinking == << 4, 3 >>      \* it changes and gets shorter
=============================================================================

------------------------------ MODULE MC_Update ------------------------------
(***************************************************************************)
(* Instances of Update for TLC: a second version that adds an entry to the  *)
(* first one's; and one that also does without `web`, which the third has   *)
(* again where the first one's was left behind.                             *)
(***************************************************************************)
EXTENDS Update

OneUpdate  == << <<"program", "web">>, <<"added", "program", "web">> >>
TwoUpdates == << <<"program", "web">>, <<"added", "program">>, <<"program", "web">> >>
=============================================================================

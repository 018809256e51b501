---------------------------- MODULE MC_Scheduler ----------------------------
(***************************************************************************)
(* The instances of Scheduler that TLC checks.  Handlers are model values  *)
(* and interchangeable; files are not, a pass offers places in list order. *)
(***************************************************************************)
EXTENDS Scheduler, TLC

HandlerSymmetry == Permutations(Requests)
=============================================================================

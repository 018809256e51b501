------------------------------- MODULE Download -------------------------------
(***************************************************************************)
(* What a download promises, as crates/rd-core/recovery-matrix.md puts it,  *)
(* with the store, the files, the workers and every stop left out: the      *)
(* confirmed blocks of one remote file only ever grow, none of them         *)
(* changes, and the download is done when they are one version of the file  *)
(* from its first block to its last.  A person may delete what was fetched  *)
(* and may start over; what becomes of a transfer whose data was deleted    *)
(* under it is left open.                                                   *)
(***************************************************************************)
EXTENDS Integers, Sequences

CONSTANT Length             \* the length of every version of the remote file

VARIABLES
    confirmed,              \* what was fetched: a version for every confirmed block
    done,                   \* the download is completed
    deleted,                \* its data was deleted under it
    dropping                \* somebody is dropping it, or starting it over

vars == <<confirmed, done, deleted, dropping>>

Version == 1 .. Len(Length)

Whole(file) == \E v \in Version : file = [i \in 1 .. Length[v] |-> v]

Init ==
    /\ confirmed = <<>>
    /\ done = FALSE
    /\ deleted = FALSE
    /\ dropping = FALSE

\* More of the file is confirmed, and nothing of it changes.
Fetch ==
    /\ ~done /\ ~deleted /\ ~dropping
    /\ DOMAIN confirmed \subseteq DOMAIN confirmed'
    /\ \A i \in DOMAIN confirmed : confirmed'[i] = confirmed[i]
    /\ \A i \in DOMAIN confirmed' : confirmed'[i] \in Version
    /\ UNCHANGED <<done, deleted, dropping>>

Complete ==
    /\ ~done /\ ~dropping
    /\ deleted \/ Whole(confirmed)
    /\ done' = TRUE
    /\ UNCHANGED <<confirmed, deleted, dropping>>

\* The data goes with a mirror that is given up, or is dropped on request.
Delete ==
    /\ dropping' \/ ~done
    /\ deleted' = TRUE
    /\ confirmed' = <<>>
    /\ UNCHANGED done

Ask ==
    /\ dropping' = ~dropping
    /\ UNCHANGED <<confirmed, done, deleted>>

StartOver ==
    /\ dropping
    /\ dropping' = FALSE
    /\ confirmed' = <<>>
    /\ done' = FALSE
    /\ deleted' = FALSE

Next == Fetch \/ Complete \/ Delete \/ Ask \/ StartOver

Spec == Init /\ [][Next]_vars
=============================================================================

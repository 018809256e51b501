----------------------------- MODULE MC_QueuePause -----------------------------
(* Instances of QueuePause for TLC.                                        *)
EXTENDS QueuePause

\* A file of its own and the package of both.
FileAndPackage == {{1}, {1, 2}}
=============================================================================

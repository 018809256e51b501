--------------------------- MODULE DownloadStates ---------------------------
(***************************************************************************)
(* The persistent lifecycle of a download row: the states of               *)
(* `DownloadState`, the moves `can_transition_to` allows and the groups of *)
(* states the scheduler and the store ask for (crates/rd-core).            *)
(* `Gone` stands for a row that has been deleted.                          *)
(***************************************************************************)

DownloadState ==
    {"queued", "resolving", "downloading", "paused", "retry_wait", "verifying",
     "repairing", "extracting", "seeding", "skipped", "blocked", "failed",
     "cancelled", "completed"}

Gone == "gone"

RowState == DownloadState \cup {Gone}

\* The legal successors of each state, the state itself aside.
Successors ==
    [queued      |-> {"resolving", "paused", "blocked", "cancelled", "skipped"},
     resolving   |-> {"downloading", "paused", "retry_wait", "blocked", "failed",
                      "cancelled"},
     downloading |-> {"paused", "retry_wait", "verifying", "seeding", "blocked",
                      "failed", "cancelled"},
     seeding     |-> {"completed", "failed", "cancelled"},
     paused      |-> {"queued", "downloading", "cancelled", "skipped"},
     retry_wait  |-> {"queued", "resolving", "downloading", "paused", "failed",
                      "cancelled", "skipped"},
     verifying   |-> {"repairing", "extracting", "completed", "failed", "blocked",
                      "cancelled"},
     repairing   |-> {"extracting", "completed", "failed"},
     extracting  |-> {"completed", "failed"},
     completed   |-> {"extracting"},
     blocked     |-> {"queued", "resolving", "cancelled", "skipped"},
     failed      |-> {"queued", "cancelled", "skipped"},
     cancelled   |-> {"queued"},
     skipped     |-> {"queued", "cancelled"}]

can_transition_to(current, next) ==
    /\ current # Gone
    /\ \/ next \in Successors[current]
       \/ next = current

is_working(state) ==
    state \in {"resolving", "downloading", "verifying", "repairing", "extracting"}

holds_the_file(state) == is_working(state) \/ state = "seeding"

\* What a dispatch pass reads and what a pause writes on.
is_startable(state) == state \in {"queued", "retry_wait"}
=============================================================================

------------------------------ MODULE Scheduler ------------------------------
(***************************************************************************)
(* The download queue of crates/rd-scheduler: the supervise loop's         *)
(* dispatch pass, one worker per running file, the requests a person makes *)
(* of a file (pause, cancel, resume, reset, remove), and the process       *)
(* stopping and starting again.  They meet in three places:                *)
(*   - the rows of the store (`state`, `retries`, `wait`), each write one  *)
(*     command of the serialized writer and so one step;                   *)
(*   - `ActiveState` behind its lock (`tokens`, `cancelled`, `reasons`,    *)
(*     `held`), each critical section one step;                            *)
(*   - copies taken earlier and used later: the rows a pass read once      *)
(*     (`pass*`) and the row a worker was started with (`w*`).             *)
(* Files are numbered in list order, the order a pass offers places in.    *)
(* The bytes on disk are module Transfer; mirror groups and the queue      *)
(* pause are left out.  A file is its row, its worker and its requests.    *)
(***************************************************************************)
EXTENDS Naturals, FiniteSets, DownloadStates

CONSTANTS
    N,            \* number of files in the queue
    Limit,        \* max_active_files
    MaxRetries,   \* configured attempts of a transient failure
    Exempt,       \* files of kinds that do not count against the limit
    Pooled,       \* files of a kind whose files share one place
    Seeders,      \* files whose runner detaches them into seeding
    Gated,        \* files whose window or admission may close and open again
    Requests,     \* request handlers that can run at the same time
    MaxRequests,  \* bound: requests issued in a behaviour
    MaxCrashes    \* bound: process ends in a behaviour

Files == 1 .. N

ASSUME SchedulerAssumption ==
    /\ N \in Nat
    /\ Limit \in Nat
    /\ MaxRetries \in Nat
    /\ MaxRequests \in Nat
    /\ MaxCrashes \in Nat
    /\ Exempt \subseteq Files
    /\ Pooled \subseteq Files
    /\ Exempt \cap Pooled = {}
    /\ IsFiniteSet(Requests)

VARIABLES
    state, retries, wait,                \* the rows
    tokens, cancelled, reasons, held,    \* ActiveState
    passState, passRetries, passWait, kept,   \* the running dispatch pass
    pc, wState, wRetries, why,           \* the workers
    op, target, at,                      \* the request handlers
    gate, life, crashes, issued,         \* surroundings
    asked                                \* history: the pauses asked for

rowVars    == <<state, retries, wait>>
activeVars == <<tokens, cancelled, reasons, held>>
passVars   == <<passState, passRetries, passWait, kept>>
workerVars == <<pc, wState, wRetries, why>>
reqVars    == <<op, target, at>>
envVars    == <<gate, life, crashes, issued>>
vars == <<rowVars, activeVars, passVars, workerVars, reqVars, envVars, asked>>

None   == "none"
NoFile == 0

StopReason == {"paused", "cancelled", "blocked"}
Wait       == {"far", "close", "due"}      \* next_retry_at against the clock
Gate       == {"open", "package", "admission"}
Life       == {"up", "stopping", "closing", "down"}
WorkerStep == {"idle", "claimed", "begin", "resolving", "fetching",
               "verifying", "stopping", "tail", "error", "panicked",
               "recording", "ended"}
Operation  == {"pause", "cancel", "resume", "reset", "remove"}
RequestStep == {"idle", "ask", "read", "requeue", "write", "hold", "work",
                "let_go", "release"}

RetryCap == MaxRetries + 1                 \* bound: retry_count saturates here

TypeOK ==
    /\ state \in [Files -> RowState]
    /\ retries \in [Files -> 0 .. RetryCap]
    /\ wait \in [Files -> Wait]
    /\ tokens \subseteq Files
    /\ cancelled \subseteq tokens
    /\ reasons \in [Files -> StopReason \cup {None}]
    /\ held \in [Files -> Nat]
    /\ passState \in [Files -> {"queued", "retry_wait", None}]
    /\ passRetries \in [Files -> 0 .. RetryCap]
    /\ passWait \in [Files -> Wait]
    /\ kept \in Nat
    /\ pc \in [Files -> WorkerStep]
    /\ wState \in [Files -> {"queued", "retry_wait", None}]
    /\ wRetries \in [Files -> 0 .. RetryCap]
    /\ why \in [Files -> StopReason \cup {None}]
    /\ op \in [Requests -> Operation \cup {None}]
    /\ target \in [Requests -> Files \cup {NoFile}]
    /\ at \in [Requests -> RequestStep]
    /\ gate \in [Files -> Gate]
    /\ life \in Life
    /\ crashes \in 0 .. MaxCrashes
    /\ issued \in 0 .. MaxRequests
    /\ asked \subseteq Files

-----------------------------------------------------------------------------
(* Writes of the store.                                                    *)

\* A write that leaves the row in a state other than `retry_wait`; the due
\* time is read in `retry_wait` only, so it is normalised elsewhere.
Write(f, next, count) ==
    /\ state' = [state EXCEPT ![f] = next]
    /\ retries' = [retries EXCEPT ![f] = count]
    /\ wait' = [wait EXCEPT ![f] = "due"]

\* `transition_download`: refused where the state machine has no such move.
Transition(f, next) ==
    /\ can_transition_to(state[f], next)
    /\ Write(f, next, retries[f])

Saturated(n) == IF n < RetryCap THEN n + 1 ELSE RetryCap

\* Mutant: a retry is granted and not counted.
RecordError_uncounted(f, kind, spent) ==
    IF kind = "transient" /\ spent < MaxRetries
    THEN /\ state' = [state EXCEPT ![f] = "retry_wait"]
         /\ UNCHANGED retries
         /\ \E w \in {"far", "close"} : wait' = [wait EXCEPT ![f] = w]
    ELSE Write(f, IF kind = "auth" THEN "blocked" ELSE "failed",
               Saturated(retries[f]))

\* `record_error` with the attempts `spent` the caller knows of, for a failure
\* of a kind: a transient one waits for a retry while attempts are left.
\* `record_failure` writes whatever state the row is in.
RecordError(f, kind, spent) ==
    IF kind = "transient" /\ spent < MaxRetries
    THEN /\ state' = [state EXCEPT ![f] = "retry_wait"]
         /\ retries' = [retries EXCEPT ![f] = Saturated(@)]
         /\ \E w \in {"far", "close"} : wait' = [wait EXCEPT ![f] = w]
    ELSE Write(f, IF kind = "auth" THEN "blocked" ELSE "failed",
               Saturated(retries[f]))

FailureKind == {"transient", "permanent", "auth"}

-----------------------------------------------------------------------------
(* ActiveState.                                                            *)

Running(f) == f \in tokens

\* Mutant: a file a reset or removal holds may be claimed.
untouchable_though_held(f) == Running(f) \/ reasons[f] # None

untouchable(f) == Running(f) \/ reasons[f] # None \/ held[f] > 0

\* Running files as the limit counts them.
counted(running) ==
    Cardinality(running \ (Exempt \cup Pooled))
      + (IF running \cap Pooled = {} THEN 0 ELSE 1)

\* Mutant: off by one at the limit.
admits_at_limit(f, limit) ==
    \/ f \in Exempt
    \/ f \in Pooled /\ tokens \cap Pooled # {}
    \/ counted(tokens) <= limit

admits(f, limit) ==
    \/ f \in Exempt
    \/ f \in Pooled /\ tokens \cap Pooled # {}
    \/ counted(tokens) < limit

takes_a_counted_place(f) == f \notin Exempt \cup Pooled

-----------------------------------------------------------------------------
(* The dispatch pass.                                                      *)

PassRuns == \E f \in Files : passState[f] # None

offered(rowState, rowWait) == rowState = "queued" \/ rowWait = "due"

keeps_place(rowState, rowWait) == rowState = "retry_wait" /\ rowWait = "close"

\* The rows a pass may start, read once for the whole pass.
BeginPass ==
    /\ life = "up"
    /\ ~PassRuns
    /\ \E f \in Files : is_startable(state[f]) /\ offered(state[f], wait[f])
    /\ passState' = [f \in Files |->
                        IF is_startable(state[f]) THEN state[f] ELSE None]
    /\ passRetries' = [f \in Files |->
                        IF is_startable(state[f]) THEN retries[f] ELSE 0]
    /\ passWait' = [f \in Files |->
                        IF is_startable(state[f]) THEN wait[f] ELSE "due"]
    /\ kept' = 0
    /\ UNCHANGED <<rowVars, activeVars, workerVars, reqVars, envVars, asked>>

\* The next file of the pass, in list order.
Next_in_pass(f) ==
    /\ passState[f] # None
    /\ \A g \in Files : g < f => passState[g] = None

\* The pass is through with `f`, having kept `places` so far.
PassedOver(f, places) ==
    /\ passState' = [passState EXCEPT ![f] = None]
    /\ passRetries' = [passRetries EXCEPT ![f] = 0]
    /\ passWait' = [passWait EXCEPT ![f] = "due"]
    /\ kept' = IF \E g \in Files : g > f /\ passState[g] # None THEN places ELSE 0

\* A retry seconds away keeps the place it comes back to, unless its package
\* is held; a longer wait keeps nothing.
NotOffered(f) ==
    /\ Next_in_pass(f)
    /\ gate[f] = "package" \/ ~offered(passState[f], passWait[f])
    /\ PassedOver(f, IF /\ gate[f] # "package"
                        /\ keeps_place(passState[f], passWait[f])
                        /\ takes_a_counted_place(f)
                     THEN kept + 1 ELSE kept)
    /\ UNCHANGED <<rowVars, activeVars, workerVars, reqVars, envVars, asked>>

PlacesLeft == IF kept < Limit THEN Limit - kept ELSE 0

Startable(f) ==
    /\ gate[f] = "open"
    /\ ~untouchable(f)
    /\ admits(f, PlacesLeft)

\* Mutant: the shutdown is not asked about under the lock.
ClaimSlot_unasked(f) ==
    /\ Next_in_pass(f)
    /\ gate[f] # "package"
    /\ offered(passState[f], passWait[f])
    /\ Startable(f)
    /\ tokens' = tokens \cup {f}
    /\ pc' = [pc EXCEPT ![f] = "claimed"]
    /\ wState' = [wState EXCEPT ![f] = passState[f]]
    /\ wRetries' = [wRetries EXCEPT ![f] = passRetries[f]]
    /\ PassedOver(f, kept)
    /\ UNCHANGED <<rowVars, cancelled, reasons, held, why, reqVars, envVars, asked>>

\* `claim_slot` under the lock, and the worker started with the pass's row.
ClaimSlot(f) ==
    /\ Next_in_pass(f)
    /\ gate[f] # "package"
    /\ offered(passState[f], passWait[f])
    /\ life = "up"
    /\ Startable(f)
    /\ tokens' = tokens \cup {f}
    /\ pc' = [pc EXCEPT ![f] = "claimed"]
    /\ wState' = [wState EXCEPT ![f] = passState[f]]
    /\ wRetries' = [wRetries EXCEPT ![f] = passRetries[f]]
    /\ PassedOver(f, kept)
    /\ UNCHANGED <<rowVars, cancelled, reasons, held, why, reqVars, envVars, asked>>

\* Held back by its admission, untouchable, or no place: the pass goes on.
ClaimRefused(f) ==
    /\ Next_in_pass(f)
    /\ gate[f] # "package"
    /\ offered(passState[f], passWait[f])
    /\ life = "up" \/ gate[f] # "open"
    /\ ~Startable(f)
    /\ PassedOver(f, kept)
    /\ UNCHANGED <<rowVars, activeVars, workerVars, reqVars, envVars, asked>>

\* The service is shutting down: the pass ends at its next claim.
PassAbandoned(f) ==
    /\ Next_in_pass(f)
    /\ gate[f] = "open"
    /\ offered(passState[f], passWait[f])
    /\ life \in {"stopping", "closing"}
    /\ passState' = [g \in Files |-> None]
    /\ passRetries' = [g \in Files |-> 0]
    /\ passWait' = [g \in Files |-> "due"]
    /\ kept' = 0
    /\ UNCHANGED <<rowVars, activeVars, workerVars, reqVars, envVars, asked>>

Dispatch ==
    \/ BeginPass
    \/ \E f \in Files : \/ NotOffered(f)
                        \/ ClaimSlot(f)
                        \/ ClaimRefused(f)
                        \/ PassAbandoned(f)

-----------------------------------------------------------------------------
(* The worker of a file: one attempt, from the claim to the slot given     *)
(* back.  `attempt` runs either the HTTP worker or an external runner;     *)
(* both walk the row through the same states.                              *)

\* The worker at `from` asks the store to move the row to `next`.  A refused
\* move is an error that ends the attempt.
Advance(f, from, next, to) ==
    /\ pc[f] = from
    /\ \/ /\ Transition(f, next)
          /\ pc' = [pc EXCEPT ![f] = to]
       \/ /\ ~can_transition_to(state[f], next)
          /\ pc' = [pc EXCEPT ![f] = "error"]
          /\ UNCHANGED rowVars
    /\ UNCHANGED <<activeVars, passVars, wState, wRetries, why, reqVars, envVars,
                   asked>>

\* A file the pass read as waiting for a retry is queued again first.
Requeue(f) ==
    /\ wState[f] = "retry_wait"
    /\ Advance(f, "claimed", "queued", "begin")

Resolve(f) ==
    \/ /\ wState[f] = "queued"
       /\ Advance(f, "claimed", "resolving", "resolving")
    \/ Advance(f, "begin", "resolving", "resolving")

\* Validators changed, ranges refused or no space: blocked before a byte.
BlockBeforeTransfer(f) == Advance(f, "resolving", "blocked", "tail")

\* The name was taken while the transfer ran, and somebody is to be asked.
BlockAfterTransfer(f) == Advance(f, "verifying", "blocked", "tail")

StartTransfer(f) == Advance(f, "resolving", "downloading", "fetching")

Detach(f) ==
    /\ f \in Seeders
    /\ Advance(f, "fetching", "seeding", "tail")

Verify(f) == Advance(f, "fetching", "verifying", "verifying")

Complete(f) == Advance(f, "verifying", "completed", "tail")

\* Resolver, connection, transfer or promotion failed.  The attempts spent are
\* those of the row the worker was started with.
Fail(f) ==
    /\ pc[f] \in {"resolving", "fetching", "verifying"}
    /\ state[f] # Gone
    /\ \E kind \in FailureKind : RecordError(f, kind, wRetries[f])
    /\ pc' = [pc EXCEPT ![f] = "tail"]
    /\ UNCHANGED <<activeVars, passVars, wState, wRetries, why, reqVars, envVars,
                   asked>>

\* Mutant: no reason means a pause, at a shutdown too.
ReadStopReason_pauses(f) ==
    /\ pc[f] \in {"resolving", "fetching"}
    /\ f \in cancelled
    /\ pc' = [pc EXCEPT ![f] = "stopping"]
    /\ why' = [why EXCEPT ![f] = IF reasons[f] = None THEN "paused" ELSE reasons[f]]
    /\ UNCHANGED <<rowVars, activeVars, passVars, wState, wRetries, reqVars,
                   envVars, asked>>

\* `transition_stopped`, first half: the cancelled token was seen, and the
\* reason is read under the lock.  No reason while the service stops: the row
\* keeps its running state for the next start.
ReadStopReason(f) ==
    /\ pc[f] \in {"resolving", "fetching"}
    /\ f \in cancelled
    /\ IF reasons[f] = None /\ life # "up"
       THEN /\ pc' = [pc EXCEPT ![f] = "tail"]
            /\ UNCHANGED why
       ELSE /\ pc' = [pc EXCEPT ![f] = "stopping"]
            /\ why' = [why EXCEPT ![f] =
                          IF reasons[f] = None THEN "paused" ELSE reasons[f]]
    /\ UNCHANGED <<rowVars, activeVars, passVars, wState, wRetries, reqVars,
                   envVars, asked>>

\* Second half: the row is written from the reason read before.
WriteStopped(f) == Advance(f, "stopping", why[f], "tail")

\* In the tail the row is written and the content index is not yet.
Panic(f) ==
    /\ pc[f] \in {"claimed", "begin", "resolving", "fetching", "verifying",
                  "stopping", "tail"}
    /\ pc' = [pc EXCEPT ![f] = "panicked"]
    /\ UNCHANGED <<rowVars, activeVars, passVars, wState, wRetries, why, reqVars,
                   envVars, asked>>

\* Mutant: a panic leaves the row as it is.
InspectRow_silent(f) ==
    /\ pc[f] \in {"error", "panicked"}
    /\ pc' = [pc EXCEPT ![f] = "ended"]
    /\ UNCHANGED <<rowVars, activeVars, passVars, wState, wRetries, why, reqVars,
                   envVars, asked>>

\* Mutant: the row is not looked at before the failed attempt is recorded.
InspectRow_blind(f) ==
    /\ pc[f] \in {"error", "panicked"}
    /\ pc' = [pc EXCEPT ![f] = "recording"]
    /\ wRetries' = [wRetries EXCEPT ![f] = retries[f]]
    /\ UNCHANGED <<rowVars, activeVars, passVars, wState, why, reqVars, envVars,
                   asked>>

\* `run_file` after an attempt that ended in an error: the row is read again,
\* and a row left working, or startable after a panic, gets a failed attempt.
InspectRow(f) ==
    /\ pc[f] \in {"error", "panicked"}
    /\ IF \/ is_working(state[f])
          \/ pc[f] = "panicked" /\ is_startable(state[f])
       THEN /\ pc' = [pc EXCEPT ![f] = "recording"]
            /\ wRetries' = [wRetries EXCEPT ![f] = retries[f]]
       ELSE /\ pc' = [pc EXCEPT ![f] = "ended"]
            /\ UNCHANGED wRetries
    /\ UNCHANGED <<rowVars, activeVars, passVars, wState, why, reqVars, envVars,
                   asked>>

RecordAttempt(f) ==
    /\ pc[f] = "recording"
    /\ state[f] # Gone
    /\ RecordError(f, "transient", wRetries[f])
    /\ pc' = [pc EXCEPT ![f] = "ended"]
    /\ UNCHANGED <<activeVars, passVars, wState, wRetries, why, reqVars, envVars,
                   asked>>

\* The slot is given back under the lock, the stop reason with it.
GiveBack(f) ==
    /\ pc[f] \in {"tail", "ended"}
    /\ tokens' = tokens \ {f}
    /\ cancelled' = cancelled \ {f}
    /\ reasons' = [reasons EXCEPT ![f] = None]
    /\ pc' = [pc EXCEPT ![f] = "idle"]
    /\ wState' = [wState EXCEPT ![f] = None]
    /\ wRetries' = [wRetries EXCEPT ![f] = 0]
    /\ why' = [why EXCEPT ![f] = None]
    /\ UNCHANGED <<rowVars, held, passVars, reqVars, envVars, asked>>

Worker(f) ==
    \/ Requeue(f) \/ Resolve(f) \/ BlockBeforeTransfer(f) \/ StartTransfer(f)
    \/ Detach(f) \/ Verify(f) \/ BlockAfterTransfer(f) \/ Complete(f) \/ Fail(f)
    \/ ReadStopReason(f) \/ WriteStopped(f)
    \/ Panic(f) \/ InspectRow(f) \/ RecordAttempt(f)
    \/ GiveBack(f)

-----------------------------------------------------------------------------
(* Requests.  Each handler `r` serves one request at a time; between its    *)
(* steps it awaits the lock or the store, and anything may run.             *)

NeedsHold(o) == o \in {"reset", "remove"}

Issue(r) ==
    /\ life = "up"
    /\ op[r] = None
    /\ issued < MaxRequests
    /\ \E o \in Operation, f \in Files :
          /\ op' = [op EXCEPT ![r] = o]
          /\ target' = [target EXCEPT ![r] = f]
          /\ at' = [at EXCEPT ![r] = IF NeedsHold(o) THEN "read" ELSE "ask"]
    /\ issued' = issued + 1
    /\ UNCHANGED <<rowVars, activeVars, passVars, workerVars, gate, life, crashes,
                   asked>>

Proceed(r, step) ==
    /\ at' = [at EXCEPT ![r] = step]
    /\ UNCHANGED <<op, target>>

Answer(r) ==
    /\ op' = [op EXCEPT ![r] = None]
    /\ target' = [target EXCEPT ![r] = NoFile]
    /\ at' = [at EXCEPT ![r] = "idle"]

ReasonOf(o) == IF o = "pause" THEN "paused" ELSE "cancelled"

\* Mutant: a stop is passed on to a file no worker runs.
AskToStop_unregistered(r) ==
    /\ op[r] \in {"pause", "cancel"}
    /\ at[r] = "ask"
    /\ reasons' = [reasons EXCEPT ![target[r]] = ReasonOf(op[r])]
    /\ asked' = IF op[r] = "pause" THEN asked \cup {target[r]} ELSE asked
    /\ cancelled' = cancelled \cup {target[r]}
    /\ Answer(r)
    /\ UNCHANGED <<rowVars, tokens, held, passVars, workerVars, envVars>>

\* `pause` and `cancel`: the reason goes in under the lock; a running file is
\* left to its worker, and the request is answered.
AskToStop(r) ==
    /\ op[r] \in {"pause", "cancel"}
    /\ at[r] = "ask"
    /\ LET f == target[r] IN
       /\ reasons' = [reasons EXCEPT ![f] = ReasonOf(op[r])]
       /\ asked' = IF op[r] = "pause" THEN asked \cup {f} ELSE asked
       /\ IF Running(f)
          THEN /\ cancelled' = cancelled \cup {f}
               /\ Answer(r)
          ELSE /\ Proceed(r, "read")
               /\ UNCHANGED cancelled
    /\ UNCHANGED <<rowVars, tokens, held, passVars, workerVars, envVars>>

\* The row of a file no worker ran when asked.
ReadToStop(r) ==
    /\ op[r] \in {"pause", "cancel"}
    /\ at[r] = "read"
    /\ IF \/ op[r] = "pause" /\ is_startable(state[target[r]])
          \/ op[r] = "cancel" /\ can_transition_to(state[target[r]], "cancelled")
       THEN Proceed(r, "write")
       ELSE Proceed(r, "release")
    /\ UNCHANGED <<rowVars, activeVars, passVars, workerVars, envVars, asked>>

WriteStop(r) ==
    /\ op[r] \in {"pause", "cancel"}
    /\ at[r] = "write"
    /\ \/ Transition(target[r], ReasonOf(op[r]))
       \/ /\ ~can_transition_to(state[target[r]], ReasonOf(op[r]))
          /\ UNCHANGED rowVars
    /\ Proceed(r, "release")
    /\ UNCHANGED <<activeVars, passVars, workerVars, envVars, asked>>

\* Mutant: the reason stays once the row is written.
release_stop_guard_never(r) ==
    /\ at[r] = "release"
    /\ Answer(r)
    /\ UNCHANGED <<rowVars, activeVars, passVars, workerVars, envVars, asked>>

\* `release_stop_guard`, the last step of a pause, a cancel and a hold.
release_stop_guard(r) ==
    /\ at[r] = "release"
    /\ reasons' = IF Running(target[r]) THEN reasons
                  ELSE [reasons EXCEPT ![target[r]] = None]
    /\ Answer(r)
    /\ UNCHANGED <<rowVars, tokens, cancelled, held, passVars, workerVars, envVars,
                   asked>>

\* `resume`: refused while a reset or removal holds the row; the reason of a
\* file no worker runs goes.
AskToResume(r) ==
    /\ op[r] = "resume"
    /\ at[r] = "ask"
    /\ IF held[target[r]] > 0
       THEN /\ Answer(r)
            /\ UNCHANGED reasons
       ELSE /\ Proceed(r, "read")
            /\ reasons' = IF Running(target[r]) THEN reasons
                          ELSE [reasons EXCEPT ![target[r]] = None]
    /\ UNCHANGED <<rowVars, tokens, cancelled, held, passVars, workerVars, envVars,
                   asked>>

ReadToResume(r) ==
    /\ op[r] = "resume"
    /\ at[r] = "read"
    /\ Proceed(r, IF state[target[r]] = "failed" THEN "requeue" ELSE "write")
    /\ UNCHANGED <<rowVars, activeVars, passVars, workerVars, envVars, asked>>

\* `retry_failed_download` writes only a row that is still failed.
RequeueFailed(r) ==
    /\ op[r] = "resume"
    /\ at[r] = "requeue"
    /\ \/ /\ state[target[r]] = "failed"
          /\ Write(target[r], "queued", 0)
          /\ Answer(r)
       \/ /\ state[target[r]] # "failed"
          /\ Proceed(r, "write")
          /\ UNCHANGED rowVars
    /\ UNCHANGED <<activeVars, passVars, workerVars, envVars, asked>>

WriteResume(r) ==
    /\ op[r] = "resume"
    /\ at[r] = "write"
    /\ \/ Transition(target[r], "queued")
       \/ /\ ~can_transition_to(state[target[r]], "queued")
          /\ UNCHANGED rowVars
    /\ Answer(r)
    /\ UNCHANGED <<activeVars, passVars, workerVars, envVars, asked>>

\* `reset` and `remove`: refused for a row that is working or gone.
ReadToHold(r) ==
    /\ NeedsHold(op[r])
    /\ at[r] = "read"
    /\ IF is_working(state[target[r]]) \/ state[target[r]] = Gone
       THEN Answer(r)
       ELSE Proceed(r, "hold")
    /\ UNCHANGED <<rowVars, activeVars, passVars, workerVars, envVars, asked>>

\* `hold`: taken as soon as no worker has the file ...
Hold(r) ==
    /\ at[r] = "hold"
    /\ ~Running(target[r])
    /\ held' = [held EXCEPT ![target[r]] = @ + 1]
    /\ Proceed(r, "work")
    /\ UNCHANGED <<rowVars, tokens, cancelled, reasons, passVars, workerVars,
                   envVars, asked>>

\* ... refused when the row is working, or the worker's tail lasts too long.
HoldRefused(r) ==
    /\ at[r] = "hold"
    /\ Running(target[r])
    /\ Answer(r)
    /\ UNCHANGED <<rowVars, activeVars, passVars, workerVars, envVars, asked>>

Discarded(f) == Write(f, "queued", 0)       \* `reset_download`

Deleted(f) == Write(f, Gone, 0)             \* `delete_download`

\* The work under the hold: the files on disk, then the row.
WorkHeld(r) ==
    /\ at[r] = "work"
    /\ LET f == target[r] IN
       \/ /\ op[r] = "reset"
          /\ state[f] # Gone
          /\ Discarded(f)
       \/ /\ op[r] = "remove"
          /\ state[f] # Gone
          /\ ~is_working(state[f])
          /\ Deleted(f)
    /\ Proceed(r, "let_go")
    /\ UNCHANGED <<activeVars, passVars, workerVars, envVars, asked>>

\* A file could not be deleted, or the row went meanwhile.
WorkFailed(r) ==
    /\ at[r] = "work"
    /\ Proceed(r, "let_go")
    /\ UNCHANGED <<rowVars, activeVars, passVars, workerVars, envVars, asked>>

\* Mutant: a hold is a flag, and the first to let go takes it away.
LetGo_of_all(r) ==
    /\ at[r] = "let_go"
    /\ held' = [held EXCEPT ![target[r]] = 0]
    /\ Proceed(r, "release")
    /\ UNCHANGED <<rowVars, tokens, cancelled, reasons, passVars, workerVars,
                   envVars, asked>>

LetGo(r) ==
    /\ at[r] = "let_go"
    /\ held' = [held EXCEPT ![target[r]] = IF @ > 0 THEN @ - 1 ELSE 0]
    /\ Proceed(r, "release")
    /\ UNCHANGED <<rowVars, tokens, cancelled, reasons, passVars, workerVars,
                   envVars, asked>>

Handler(r) ==
    \/ AskToStop(r) \/ ReadToStop(r) \/ WriteStop(r) \/ release_stop_guard(r)
    \/ AskToResume(r) \/ ReadToResume(r) \/ RequeueFailed(r) \/ WriteResume(r)
    \/ ReadToHold(r) \/ Hold(r) \/ HoldRefused(r) \/ WorkHeld(r) \/ WorkFailed(r)
    \/ LetGo(r)

-----------------------------------------------------------------------------
(* The surroundings: time, admission, the storage supervisor, the seeding  *)
(* of finished torrents, and the process itself.                           *)

\* The clock against `next_retry_at`: a wait grows close, then due; a limit's
\* wait is never close, it falls due at once.
TimePasses(f) ==
    /\ life # "down"
    /\ state[f] = "retry_wait"
    /\ wait[f] # "due"
    /\ \E w \in IF wait[f] = "far" THEN {"close", "due"} ELSE {"due"} :
          wait' = [wait EXCEPT ![f] = w]
    /\ UNCHANGED <<state, retries, activeVars, passVars, workerVars, reqVars,
                   envVars, asked>>

GateMoves(f) ==
    /\ f \in Gated
    /\ \E g \in Gate \ {gate[f]} : gate' = [gate EXCEPT ![f] = g]
    /\ UNCHANGED <<rowVars, activeVars, passVars, workerVars, reqVars, life,
                   crashes, issued, asked>>

\* The capacity supervisor stops the transfers of a full root.  It runs in the
\* dispatch loop's task, so no pass is under way.  It listed the file while its
\* row was downloading; where the worker has ended since, nothing is left but
\* the guard it lets go of.
StorageBlock(f) ==
    /\ life = "up"
    /\ ~PassRuns
    /\ f \in Gated
    /\ IF Running(f)
       THEN /\ reasons' = [reasons EXCEPT ![f] = "blocked"]
            /\ cancelled' = cancelled \cup {f}
       ELSE /\ reasons[f] # None
            /\ reasons' = [reasons EXCEPT ![f] = None]
            /\ UNCHANGED cancelled
    /\ UNCHANGED <<rowVars, tokens, held, passVars, workerVars, reqVars, envVars,
                   asked>>

SeedingEnds(f) ==
    /\ life = "up"
    /\ state[f] = "seeding"
    /\ Transition(f, "completed")
    /\ UNCHANGED <<activeVars, passVars, workerVars, reqVars, envVars, asked>>

\* `shutdown`: the signal first, then the tokens collected under the lock.
ShutdownSignal ==
    /\ life = "up"
    /\ crashes < MaxCrashes
    /\ crashes' = crashes + 1
    /\ life' = "stopping"
    /\ UNCHANGED <<rowVars, activeVars, passVars, workerVars, reqVars, gate, issued,
                   asked>>

ShutdownCollect ==
    /\ life = "stopping"
    /\ cancelled' = tokens
    /\ life' = "closing"
    /\ UNCHANGED <<rowVars, tokens, reasons, held, passVars, workerVars, reqVars,
                   gate, crashes, issued, asked>>

\* The process is gone, and with it everything but the rows.
LoseMemory ==
    /\ tokens' = {}
    /\ cancelled' = {}
    /\ reasons' = [f \in Files |-> None]
    /\ held' = [f \in Files |-> 0]
    /\ passState' = [f \in Files |-> None]
    /\ passRetries' = [f \in Files |-> 0]
    /\ passWait' = [f \in Files |-> "due"]
    /\ kept' = 0
    /\ pc' = [f \in Files |-> "idle"]
    /\ wState' = [f \in Files |-> None]
    /\ wRetries' = [f \in Files |-> 0]
    /\ why' = [f \in Files |-> None]
    /\ op' = [r \in Requests |-> None]
    /\ target' = [r \in Requests |-> NoFile]
    /\ at' = [r \in Requests |-> "idle"]

\* Every worker has ended, or ten seconds have passed.
ProcessExit ==
    /\ life = "closing"
    /\ LoseMemory
    /\ life' = "down"
    /\ UNCHANGED <<rowVars, gate, crashes, issued, asked>>

Crash ==
    /\ life # "down"
    /\ crashes < MaxCrashes
    /\ crashes' = crashes + 1
    /\ LoseMemory
    /\ life' = "down"
    /\ UNCHANGED <<rowVars, gate, issued, asked>>

\* What `recover_interrupted` makes of a row.
recovered(s) ==
    CASE s \in {"resolving", "downloading", "repairing", "verifying"} -> "queued"
      [] s = "extracting" -> "completed"
      [] OTHER -> s

Start ==
    /\ life = "down"
    /\ life' = "up"
    /\ state' = [f \in Files |-> recovered(state[f])]
    /\ UNCHANGED <<retries, wait, activeVars, passVars, workerVars, reqVars, gate,
                   crashes, issued, asked>>

-----------------------------------------------------------------------------
Init ==
    /\ state = [f \in Files |-> "queued"]
    /\ retries = [f \in Files |-> 0]
    /\ wait = [f \in Files |-> "due"]
    /\ tokens = {}
    /\ cancelled = {}
    /\ reasons = [f \in Files |-> None]
    /\ held = [f \in Files |-> 0]
    /\ passState = [f \in Files |-> None]
    /\ passRetries = [f \in Files |-> 0]
    /\ passWait = [f \in Files |-> "due"]
    /\ kept = 0
    /\ pc = [f \in Files |-> "idle"]
    /\ wState = [f \in Files |-> None]
    /\ wRetries = [f \in Files |-> 0]
    /\ why = [f \in Files |-> None]
    /\ op = [r \in Requests |-> None]
    /\ target = [r \in Requests |-> NoFile]
    /\ at = [r \in Requests |-> "idle"]
    /\ gate = [f \in Files |-> "open"]
    /\ life = "up"
    /\ crashes = 0
    /\ issued = 0
    /\ asked = {}

Process == ShutdownSignal \/ ShutdownCollect \/ ProcessExit \/ Crash \/ Start

Next ==
    \/ Dispatch
    \/ \E f \in Files : Worker(f)
    \/ \E r \in Requests : Issue(r) \/ Handler(r)
    \/ \E f \in Files : TimePasses(f) \/ GateMoves(f) \/ StorageBlock(f)
                        \/ SeedingEnds(f)
    \/ Process

Spec == Init /\ [][Next]_vars

\* The supervise loop ticks, tasks make progress, time passes, a process that
\* ended is started again.  Nobody has to ask for anything, a gate need not
\* open, and nothing fails of necessity.
Fairness ==
    /\ WF_vars(Dispatch)
    /\ \A f \in Files : WF_vars(Worker(f)) /\ WF_vars(TimePasses(f))
    /\ \A r \in Requests : WF_vars(Handler(r))
    /\ WF_vars(ShutdownCollect) /\ WF_vars(ProcessExit) /\ WF_vars(Start)

FairSpec == Spec /\ Fairness

-----------------------------------------------------------------------------
(* Properties.                                                             *)

\* While a reset or a removal deletes a file's data under its hold, no worker
\* runs the file: `hold`, `untouchable` and the count in `release_hold`.
WorkIsAlone ==
    \A r \in Requests : at[r] = "work" => ~Running(target[r])

Holders(f) == {r \in Requests : target[r] = f /\ at[r] \in {"work", "let_go"}}

\* A hold is counted once for every request that has it, so that the end of one
\* reset does not let the dispatcher at a row another still holds.
HoldsAccounted == \A f \in Files : held[f] = Cardinality(Holders(f))

\* The files that count never exceed `max_active_files`, whatever joins a
\* pooled kind, runs beside the limit or is claimed from a stale pass.
LimitRespected == counted(tokens) <= Limit

\* While the service is up, a row in a working state has a worker behind it:
\* an attempt that ends, by an error or a panic too, leaves no such row.
WorkingRowHasWorker ==
    life = "up" => \A f \in Files : is_working(state[f]) => Running(f)

\* A row is paused only where somebody asked for a pause of it: a shutdown, a
\* full disk or a cancel never leaves a row paused.
OnlyAskedPauses == \A f \in Files : state[f] = "paused" => f \in asked

\* Once a shutdown has collected the tokens, no worker runs that was not told.
ShutdownReachesAll == life = "closing" => tokens \subseteq cancelled

\* A stop reason belongs to a running worker or to a pause or cancel under way;
\* left behind, it would keep the file from ever being started.
ReasonAccounted ==
    \A f \in Files :
        reasons[f] # None =>
            \/ Running(f)
            \/ \E r \in Requests : /\ target[r] = f
                                  /\ op[r] \in {"pause", "cancel"}
                                  /\ at[r] \in {"read", "write", "release"}

\* A finished download stays finished unless it is reset or removed: no late
\* failure, stale pass or restart takes it out of `completed`.
FinishedStaysFinished ==
    [][\A f \in Files :
          state[f] = "completed" /\ state'[f] # "completed"
              => \E r \in Requests : target[r] = f /\ at[r] = "work"]_vars

AtRest == {"paused", "blocked", "failed", "cancelled", "completed", "seeding", Gone}

\* Requests and restarts being finite, the queue comes to rest: the retry
\* budget bounds the attempts, and every worker ends.
QueueComesToRest == <>[](tokens = {} /\ \A f \in Files : state[f] \in AtRest)
=============================================================================

------------------------------ MODULE QueuePause ------------------------------
(***************************************************************************)
(* The pause of the whole queue and the stop mark of crates/rd-scheduler.   *)
(* A pause records its end and its files, holds the queue and then pauses   *)
(* the files; its end lifts the hold, queues the files it finds paused and  *)
(* forgets the record.  The supervise loop ends a pause that is due and     *)
(* acts on a stop mark before each dispatch pass.  People pause, resume and *)
(* set marks meanwhile, and the process may end between any two steps.      *)
(*                                                                         *)
(* A mark's target is the set of its files.  The working states are one     *)
(* here, `resolving`, and a retry is due once its attempt has given its     *)
(* place back, which takes less than any delay.                             *)
(***************************************************************************)
EXTENDS Integers, FiniteSets, DownloadStates

CONSTANTS
    N,            \* files
    Limit,        \* how many run at once
    Targets,      \* sets of files a stop mark may sit on
    MaxRetries,   \* configured attempts of a failing file
    Ops,          \* what people ask for, see AskKind
    Races,        \* the coincidences met, see RaceKind
    MaxRequests,  \* bound: requests in a behaviour
    MaxCrashes    \* bound: ends of the process in a behaviour

Files == 1 .. N

AskKind == {"timed", "started", "resume", "mark", "clear"}

\* What the code does not rule out and its timing makes rare: a pause ends while
\* an attempt it told to stop has not; a pass claims a row that was retried or
\* paused since it read it, and whose state lets the attempt begin; a link is
\* added between the list of the files to pause and the hold; a pause finds an
\* attempt in its tail, its row back in the queue.
RaceKind == {"end_while_stopping", "stale_claim", "added_while_pausing", "told_in_tail"}

ASSUME QueuePauseAssumption ==
    /\ {N, Limit} \subseteq Nat \ {0}
    /\ Targets \subseteq (SUBSET Files) \ {{}}
    /\ Ops \subseteq AskKind
    /\ Races \subseteq RaceKind
    /\ {MaxRetries, MaxRequests, MaxCrashes} \subseteq Nat

VARIABLES
    state, tries,     \* the rows: state and retry_count
    record,           \* the stored pause, `queue.timed_pause`
    mark,             \* the stored stop mark: the files of its target
    current, hold,    \* the pause in force in memory, the queue's hold
    job,              \* who has the pause's lock, and how far it is
    tick, seen,       \* the loop: what it does next, the mark it acts on
    pass,             \* rows of the pass still to look at, as read
    worker, copy,     \* the attempts: step, the state the row was read in
    reasons, told,    \* stop reasons; attempts whose token is cancelled
    life,             \* "up", "down"
    requests, crashes,  \* bounds
    own,              \* history: the files somebody had paused before
    spared,           \* history: attempts a stop mark's pause lets finish
    reached           \* history: the loop found the mark's target done

rowVars   == <<state, tries>>
pauseVars == <<record, current, hold, job>>
loopVars  == <<tick, seen, pass>>
workVars  == <<worker, copy, reasons, told>>
histVars  == <<own, spared, reached>>
vars == <<rowVars, pauseVars, mark, loopVars, workVars, life, requests, crashes, histVars>>

None    == "none"
NoPause == [until |-> None, files |-> {}]
NoJob   == [op |-> None, by |-> None, at |-> "free", files |-> {}, idle |-> {}]
NoPass  == [f \in Files |-> None]

\* The end lies ahead, has passed, or there is none.
Until == {"ahead", "passed", "open"}
Pause == [until : Until, files : SUBSET Files]

PauseStep  == {"store", "hold", "reasons", "rows", "release"}
ResumeStep == {"read", "unreason", "queue", "forget"}

TypeOK ==
    /\ state \in [Files -> {"queued", "resolving", "paused", "retry_wait", "failed",
                            "completed", Gone}]
    /\ tries \in [Files -> 0 .. MaxRetries + 1]
    /\ record \in Pause \cup {NoPause}
    /\ current \in Pause \cup {NoPause}
    /\ mark \in Targets \cup {{}}
    /\ seen \in Targets \cup {{}}
    /\ hold \in BOOLEAN
    /\ job \in [op : {"timed", "started", "mark", "resume", None}, by : {"loop", "person", None},
                at : PauseStep \cup ResumeStep \cup {"free"},
                files : SUBSET Files, idle : SUBSET Files]
    /\ tick \in {"pause", "end", "mark", "reach", "clear", "held", "pass"}
    /\ pass \in [Files -> {"queued", "retry_wait", None}]
    /\ worker \in [Files -> {"idle", "claimed", "begin", "working", "tail"}]
    /\ copy \in [Files -> {"queued", "retry_wait", None}]
    /\ reasons \subseteq {f \in Files : worker[f] # "idle"} \cup job.files
    /\ told \subseteq {f \in Files : worker[f] # "idle"}
    /\ life \in {"up", "down"}
    /\ requests \in 0 .. MaxRequests /\ crashes \in 0 .. MaxCrashes
    /\ own \subseteq Files /\ spared \subseteq Files /\ reached \in BOOLEAN

Running == {f \in Files : worker[f] # "idle"}

-----------------------------------------------------------------------------
(* pause_queue and resume_queue, each under the pause's lock from its first *)
(* step to its last.                                                        *)

\* The states a pause stops: waiting and moving, a stop mark's only waiting.
stops(op, s) == is_startable(s) \/ (op # "mark" /\ is_working(s))

\* A job by the loop lets it go on where it stood; one by a person answers.
JobEnds(next) ==
    /\ job' = NoJob
    /\ tick' = IF job.by = "loop" THEN next ELSE tick

AtStep(step) == job' = [job EXCEPT !.at = step]

PauseList(op, by) ==
    /\ job = NoJob
    /\ job' = [NoJob EXCEPT !.op = op, !.by = by, !.at = "store",
                            !.files = {f \in Files : stops(op, state[f])}]

\* Mutant: a pause set anew keeps only the files it stops itself.
PauseStore_afresh ==
    /\ job.at = "store"
    /\ record' = [until |-> IF job.op = "timed" THEN "ahead" ELSE "open", files |-> job.files]
    /\ current' = record'
    /\ AtStep("hold")
    /\ reached' = (reached /\ job.op # "timed")
    /\ UNCHANGED <<rowVars, mark, hold, loopVars, workVars, life, requests, crashes, own, spared>>

\* The record keeps the files of the pause in force, and takes the new end.
PauseStore ==
    /\ job.at = "store"
    /\ record' = [until |-> IF job.op = "timed" THEN "ahead" ELSE "open",
                  files |-> current.files \cup job.files]
    /\ current' = record'
    /\ AtStep("hold")
    /\ reached' = (reached /\ job.op # "timed")
    /\ UNCHANGED <<rowVars, mark, hold, loopVars, workVars, life, requests, crashes, own, spared>>

PauseHold ==
    /\ job.at = "hold"
    /\ hold' = TRUE
    /\ AtStep("reasons")
    /\ UNCHANGED <<rowVars, record, current, mark, loopVars, workVars, life, requests, crashes,
                   histVars>>

\* `pause_many`: every file gets its reason under one lock, a running one is told.
PauseReasons ==
    /\ job.at = "reasons"
    /\ \/ "told_in_tail" \in Races
       \/ \A f \in job.files : worker[f] = "tail" => ~is_startable(state[f])
    /\ reasons' = reasons \cup job.files
    /\ told' = told \cup (job.files \cap Running)
    /\ job' = [job EXCEPT !.at = "rows", !.idle = job.files \ Running]
    /\ spared' = IF job.op = "mark" THEN Running \ told' ELSE spared
    /\ UNCHANGED <<rowVars, record, current, hold, mark, loopVars, worker, copy, life, requests,
                   crashes, own, reached>>

PauseRows ==
    /\ job.at = "rows"
    /\ state' = [f \in Files |-> IF f \in job.idle /\ is_startable(state[f])
                                 THEN "paused" ELSE state[f]]
    /\ AtStep("release")
    /\ UNCHANGED <<tries, record, current, hold, mark, loopVars, workVars, life, requests,
                   crashes, histVars>>

\* Mutant: the reasons of the files no attempt runs stay.
PauseRelease_of_none ==
    /\ job.at = "release"
    /\ JobEnds("clear")
    /\ UNCHANGED <<rowVars, record, current, hold, mark, seen, pass, workVars, life, requests,
                   crashes, histVars>>

PauseRelease ==
    /\ job.at = "release"
    /\ reasons' = reasons \ (job.idle \ Running)
    /\ JobEnds("clear")
    /\ UNCHANGED <<rowVars, record, current, hold, mark, seen, pass, worker, copy, told, life,
                   requests, crashes, histVars>>

\* The hold goes first.
ResumeLift(by) ==
    /\ job = NoJob
    /\ current # NoPause
    /\ "end_while_stopping" \in Races \/ told = {}
    /\ hold' = FALSE
    /\ job' = [NoJob EXCEPT !.op = "resume", !.by = by, !.at = "read"]

ResumeRead ==
    /\ job.at = "read"
    /\ job' = [job EXCEPT !.at = "unreason",
                          !.files = {f \in current.files : state[f] = "paused"}]
    /\ UNCHANGED <<rowVars, record, current, hold, mark, loopVars, workVars, life, requests,
                   crashes, histVars>>

ResumeReasons ==
    /\ job.at = "unreason"
    /\ reasons' = reasons \ (job.files \ Running)
    /\ AtStep("queue")
    /\ UNCHANGED <<rowVars, record, current, hold, mark, loopVars, worker, copy, told, life,
                   requests, crashes, histVars>>

ResumeRows ==
    /\ job.at = "queue"
    /\ state' = [f \in Files |-> IF f \in job.files /\ can_transition_to(state[f], "queued")
                                 THEN "queued" ELSE state[f]]
    /\ tries' = [f \in Files |-> IF f \in job.files /\ state[f] = "failed" THEN 0 ELSE tries[f]]
    /\ AtStep("forget")
    /\ UNCHANGED <<record, current, hold, mark, loopVars, workVars, life, requests, crashes,
                   histVars>>

\* The record goes last.
ResumeForget ==
    /\ job.at = "forget"
    /\ record' = NoPause
    /\ current' = NoPause
    /\ JobEnds("mark")
    /\ UNCHANGED <<rowVars, hold, mark, seen, pass, workVars, life, requests, crashes, histVars>>

Job ==
    \/ PauseStore \/ PauseHold \/ PauseReasons \/ PauseRows \/ PauseRelease
    \/ ResumeRead \/ ResumeReasons \/ ResumeRows \/ ResumeForget

-----------------------------------------------------------------------------
(* The supervise loop.                                                      *)

done(s) == s \in {"completed", "failed", "cancelled", "skipped", "seeding"}

Done(target) == \A f \in target : done(state[f])

Loop(at) == life = "up" /\ tick = at

\* `supervise_queue_pause` looks whether the end has passed ...
SeeDue ==
    /\ Loop("pause")
    /\ job = NoJob
    /\ tick' = IF current.until = "passed" THEN "end" ELSE "mark"
    /\ UNCHANGED <<rowVars, pauseVars, mark, seen, pass, workVars, life, requests, crashes,
                   histVars>>

\* ... and ends the pause, if there still is one.
EndPause ==
    /\ Loop("end")
    /\ \/ ResumeLift("loop") /\ UNCHANGED tick
       \/ /\ job = NoJob /\ current = NoPause
          /\ tick' = "mark"
          /\ UNCHANGED <<hold, job>>
    /\ UNCHANGED <<rowVars, record, current, mark, seen, pass, workVars, life, requests, crashes,
                   histVars>>

\* `supervise_stop_mark`: the target is done ...
SeeMark ==
    /\ Loop("mark")
    /\ LET reach == mark # {} /\ Done(mark) IN
       /\ tick' = IF reach THEN "reach" ELSE "held"
       /\ seen' = IF reach THEN mark ELSE {}
       /\ reached' = (reached \/ reach)
    /\ UNCHANGED <<rowVars, pauseVars, mark, pass, workVars, life, requests, crashes, own, spared>>

\* Mutant: the mark is cleared before its pause is recorded.
ReachMark_cleared_first ==
    /\ Loop("reach")
    /\ PauseList("mark", "loop")
    /\ mark' = IF mark = seen THEN {} ELSE mark
    /\ UNCHANGED <<rowVars, record, current, hold, loopVars, workVars, life, requests, crashes,
                   histVars>>

\* ... and the queue is paused until somebody resumes it ...
ReachMark ==
    /\ Loop("reach")
    /\ PauseList("mark", "loop")
    /\ UNCHANGED <<rowVars, record, current, hold, mark, loopVars, workVars, life, requests,
                   crashes, histVars>>

\* ... before the mark goes, if it is still the one that was acted on.
ClearReached ==
    /\ Loop("clear")
    /\ mark' = IF mark = seen THEN {} ELSE mark
    /\ seen' = {}
    /\ tick' = "held"
    /\ UNCHANGED <<rowVars, pauseVars, pass, workVars, life, requests, crashes, histVars>>

Due(f) == state[f] = "queued" \/ (state[f] = "retry_wait" /\ f \notin Running)

\* `schedule_runnable`: the holds are asked once, then the startable rows read.
BeginPass ==
    /\ Loop("held")
    /\ IF hold
       THEN tick' = "pause" /\ UNCHANGED pass
       ELSE /\ tick' = "pass"
            /\ pass' = [f \in Files |-> IF Due(f) THEN state[f] ELSE None]
    /\ UNCHANGED <<rowVars, pauseVars, mark, seen, workVars, life, requests, crashes, histVars>>

untouchable(f) == f \in Running \cup reasons

Stale(f) == state[f] # pass[f] /\ "retry_wait" \in {state[f], pass[f]}

Claim(f) ==
    /\ Loop("pass")
    /\ pass[f] # None
    /\ \A g \in 1 .. f - 1 : pass[g] = None
    /\ "stale_claim" \in Races \/ ~Stale(f)
    /\ IF untouchable(f) \/ Cardinality(Running) >= Limit
       THEN UNCHANGED <<worker, copy>>
       ELSE /\ worker' = [worker EXCEPT ![f] = "claimed"]
            /\ copy' = [copy EXCEPT ![f] = pass[f]]
    /\ pass' = [pass EXCEPT ![f] = None]
    /\ UNCHANGED <<rowVars, pauseVars, mark, tick, seen, reasons, told, life, requests, crashes,
                   histVars>>

\* A row whose claim is one of the races kept out is passed over.
SkipStale(f) ==
    /\ Loop("pass")
    /\ pass[f] # None /\ Stale(f)
    /\ "stale_claim" \notin Races
    /\ \A g \in 1 .. f - 1 : pass[g] = None
    /\ pass' = [pass EXCEPT ![f] = None]
    /\ UNCHANGED <<rowVars, pauseVars, mark, tick, seen, workVars, life, requests, crashes,
                   histVars>>

EndPass ==
    /\ Loop("pass")
    /\ pass = NoPass
    /\ tick' = "pause"
    /\ UNCHANGED <<rowVars, pauseVars, mark, seen, pass, workVars, life, requests, crashes,
                   histVars>>

Supervise ==
    \/ SeeDue \/ EndPause \/ SeeMark \/ ReachMark \/ ClearReached \/ BeginPass \/ EndPass
    \/ \E f \in Files : Claim(f) \/ SkipStale(f)

-----------------------------------------------------------------------------
(* An attempt.                                                              *)

At(f, step) == worker' = [worker EXCEPT ![f] = step]

Advance(f, s, step) ==
    /\ worker[f] # "idle"
    /\ IF can_transition_to(state[f], s)
       THEN state' = [state EXCEPT ![f] = s] /\ At(f, step)
       ELSE UNCHANGED state /\ At(f, "tail")
    /\ UNCHANGED <<tries, pauseVars, mark, loopVars, copy, reasons, told, life, requests,
                   crashes, histVars>>

\* A row read as waiting for a retry is queued first.
Begin(f) ==
    \/ worker[f] = "claimed" /\ copy[f] = "retry_wait" /\ Advance(f, "queued", "begin")
    \/ worker[f] = "claimed" /\ copy[f] = "queued" /\ Advance(f, "resolving", "working")
    \/ worker[f] = "begin" /\ Advance(f, "resolving", "working")

\* The cancelled token is seen.
Stopped(f) == worker[f] = "working" /\ f \in told /\ Advance(f, "paused", "tail")

\* The attempt ends without having looked.
Ends(f) ==
    /\ worker[f] = "working"
    /\ \/ /\ state' = [state EXCEPT ![f] = "completed"]
          /\ UNCHANGED tries
       \/ /\ state' = [state EXCEPT ![f] = IF tries[f] < MaxRetries THEN "retry_wait"
                                                                  ELSE "failed"]
          /\ tries' = [tries EXCEPT ![f] = @ + 1]
    /\ At(f, "tail")
    /\ UNCHANGED <<pauseVars, mark, loopVars, copy, reasons, told, life, requests, crashes,
                   histVars>>

GiveBack(f) ==
    /\ worker[f] = "tail"
    /\ At(f, "idle")
    /\ copy' = [copy EXCEPT ![f] = None]
    /\ reasons' = reasons \ {f}
    /\ told' = told \ {f}
    /\ spared' = spared \ {f}
    /\ UNCHANGED <<rowVars, pauseVars, mark, loopVars, life, requests, crashes, own, reached>>

Worker(f) == Begin(f) \/ Stopped(f) \/ Ends(f) \/ GiveBack(f)

-----------------------------------------------------------------------------
(* People.                                                                  *)

Asked(op) ==
    /\ life = "up"
    /\ op \in Ops
    /\ requests < MaxRequests
    /\ requests' = requests + 1

\* `pause_queue_until`, `pause_queue_until_started`.
AskPause(op) ==
    /\ Asked(op)
    /\ PauseList(op, "person")
    /\ UNCHANGED <<rowVars, record, current, hold, mark, loopVars, workVars, life, crashes,
                   histVars>>

AskResume ==
    /\ Asked("resume")
    /\ ResumeLift("person")
    /\ reached' = FALSE
    /\ UNCHANGED <<rowVars, record, current, mark, loopVars, workVars, life, crashes, own, spared>>

\* Refused where the target is done: it would stop the queue at once.
SetMark(target) ==
    /\ Asked("mark")
    /\ \A f \in target : state[f] # Gone
    /\ ~Done(target)
    /\ mark' = target
    /\ reached' = FALSE
    /\ UNCHANGED <<rowVars, pauseVars, loopVars, workVars, life, crashes, own, spared>>

ClearMark ==
    /\ Asked("clear")
    /\ mark # {}
    /\ mark' = {}
    /\ reached' = FALSE
    /\ UNCHANGED <<rowVars, pauseVars, loopVars, workVars, life, crashes, own, spared>>

\* A link is added to the queue.
Enqueue(f) ==
    /\ life = "up"
    /\ state[f] = Gone
    /\ "added_while_pausing" \in Races \/ job.at \notin {"store", "hold"}
    /\ state' = [state EXCEPT ![f] = "queued"]
    /\ UNCHANGED <<tries, pauseVars, mark, loopVars, workVars, life, requests, crashes, histVars>>

Ask ==
    \/ \E op \in Ops \cap {"timed", "started"} : AskPause(op)
    \/ AskResume \/ ClearMark
    \/ \E target \in Targets : SetMark(target)

-----------------------------------------------------------------------------
(* Time, the end of the process and its start.                              *)

TimePasses ==
    /\ record.until = "ahead"
    /\ record' = [record EXCEPT !.until = "passed"]
    /\ current' = IF current.until = "ahead" THEN [current EXCEPT !.until = "passed"] ELSE current
    /\ UNCHANGED <<rowVars, hold, job, mark, loopVars, workVars, life, requests, crashes, histVars>>

Crash ==
    /\ life = "up"
    /\ crashes < MaxCrashes
    /\ crashes' = crashes + 1
    /\ life' = "down"
    /\ current' = NoPause /\ hold' = FALSE /\ job' = NoJob
    /\ tick' = "pause" /\ seen' = {} /\ pass' = NoPass
    /\ worker' = [f \in Files |-> "idle"] /\ copy' = NoPass
    /\ reasons' = {} /\ told' = {} /\ spared' = {}
    /\ UNCHANGED <<rowVars, record, mark, requests, own, reached>>

\* Mutant: the hold is not set again with the record.
Start_without_hold ==
    /\ life = "down"
    /\ state' = [f \in Files |-> IF is_working(state[f]) THEN "queued" ELSE state[f]]
    /\ current' = record
    /\ life' = "up"
    /\ UNCHANGED <<tries, record, hold, job, mark, loopVars, workVars, requests, crashes, histVars>>

\* `recover_interrupted` queues the rows an attempt was on, and
\* `restore_queue_pause` brings the hold and the record back before the first tick.
Start ==
    /\ life = "down"
    /\ state' = [f \in Files |-> IF is_working(state[f]) THEN "queued" ELSE state[f]]
    /\ current' = record
    /\ hold' = (record # NoPause)
    /\ life' = "up"
    /\ UNCHANGED <<tries, record, job, mark, loopVars, workVars, requests, crashes, histVars>>

\* Some files wait, somebody has paused some, and some are not added yet.
Init ==
    /\ state \in [Files -> {"queued", "paused", Gone}]
    /\ own = {f \in Files : state[f] = "paused"}
    /\ tries = [f \in Files |-> 0]
    /\ record = NoPause /\ current = NoPause /\ hold = FALSE /\ job = NoJob
    /\ mark = {} /\ seen = {}
    /\ tick = "pause" /\ pass = NoPass
    /\ worker = [f \in Files |-> "idle"] /\ copy = NoPass
    /\ reasons = {} /\ told = {}
    /\ life = "up"
    /\ requests = 0 /\ crashes = 0
    /\ spared = {} /\ reached = FALSE

Next ==
    \/ Job \/ Supervise \/ Ask \/ TimePasses \/ Crash \/ Start
    \/ \E f \in Files : Worker(f) \/ Enqueue(f)

Spec == Init /\ [][Next]_vars

\* The loop ticks, the holder of the lock and the attempts go on, time passes and
\* a process that ended is started; nobody has to ask for anything or add a link.
FairSpec ==
    /\ Spec
    /\ WF_vars(Job) /\ WF_vars(Supervise) /\ WF_vars(TimePasses) /\ WF_vars(Start)
    /\ \A f \in Files : WF_vars(Worker(f))

-----------------------------------------------------------------------------
(* Properties.                                                              *)

\* Under a recorded pause no attempt begins to move its row: not after a restart,
\* not from a pass that read the row before the pause, not for a link added
\* meanwhile.  The exceptions are the moments the pause is being set or ended, an
\* attempt that was told to stop and has not looked yet, and those a stop mark
\* lets finish (`pause_queue`, `pause_many`, `restore_queue_pause`).
NoneBeginsUnderPause ==
    [][\A f \in Files :
          ~is_working(state[f]) /\ is_working(state'[f]) =>
              record = NoPause \/ job # NoJob \/ f \in told \cup spared]_vars

\* Once the loop found the mark's target done, no file is started until somebody
\* resumes the queue, gives the pause an end or moves the mark, wherever the process may end in
\* between (`reach_stop_mark`: the pause is recorded before the mark goes).
StopMarkStops ==
    [][\A f \in Files : worker[f] = "idle" /\ worker'[f] # "idle" => ~reached]_vars

\* The queue goes on: in the end no timed pause is left and no mark sits on a
\* finished target, and unless an open-ended pause is in force the files that are
\* paused are those somebody had paused before, and every other one was tried to
\* its end (`supervise_queue_pause`, `resume_queue`).
QueueGoesOn ==
    <>[](/\ life = "up" /\ job = NoJob /\ Running = {}
         /\ record.until \in {None, "open"}
         /\ mark = {} \/ ~Done(mark)
         /\ record = NoPause =>
              \A f \in Files : IF f \in own THEN state[f] = "paused"
                                            ELSE done(state[f]) \/ state[f] = Gone)
=============================================================================

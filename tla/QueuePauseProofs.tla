--------------------------- MODULE QueuePauseProofs ---------------------------
(***************************************************************************)
(* What TLAPS proves of QueuePause for every number of files, requests and  *)
(* process ends: what a pause and a stop mark promise while nobody ends     *)
(* them.  The coincidences of `Rare` break the promise and are kept out; a  *)
(* pause that ends while an attempt it told to stop has not is not one.     *)
(***************************************************************************)
EXTENDS QueuePause, TLAPS

Rare == {"stale_claim", "added_while_pausing", "told_in_tail"}

-----------------------------------------------------------------------------
(* The invariant.                                                          *)

\* A row moves only under its own attempt, which found it as the pass read it.
RowInv ==
    \A f \in Files :
        /\ life = "up" => (state[f] = "resolving" <=> worker[f] = "working")
        /\ tries[f] = MaxRetries + 1 => state[f] = "failed"
        /\ worker[f] = "claimed" => copy[f] # None
        /\ worker[f] = "claimed" /\ copy[f] = "retry_wait" => state[f] = "retry_wait"
        /\ worker[f] = "claimed" /\ copy[f] = "queued" => state[f] # "retry_wait"
        /\ worker[f] = "begin" => state[f] = "queued"
        /\ worker[f] # "idle" \/ pass[f] # None => state[f] # Gone
        /\ pass[f] = "retry_wait" => worker[f] = "idle"

\* What a process that has ended leaves in memory.
LifeInv ==
    /\ tick # "pass" => pass = NoPass
    /\ life = "up" => current = record
    /\ life = "down" => /\ \A f \in Files : worker[f] = "idle"
                        /\ job = NoJob /\ tick = "pause" /\ pass = NoPass

\* The holder of the pause's lock, and what it has read and written.
JobInv ==
    /\ job.at = "free" => job = NoJob
    /\ job.op \in {"timed", "started", "mark"} <=> job.at \in PauseStep
    /\ job.op = "resume" <=> job.at \in ResumeStep
    /\ job.op \in {"timed", "started"} => job.by = "person"
    /\ job.op = "mark" => job.by = "loop" /\ tick = "reach"
    /\ job.op = "resume" /\ job.by = "loop" => tick = "end"
    /\ job.at \in {"reasons", "rows", "release"} => hold
    /\ job.at \in {"hold", "reasons", "rows", "release"} =>
          record.until # None /\ (job.op = "mark" => record.until = "open")
    /\ reasons \subseteq Running \cup
          (IF job.at \in {"rows", "release"} THEN job.idle ELSE {})
    /\ IF job.at \in {"rows", "release"} THEN job.idle \subseteq job.files ELSE job.idle = {}
    /\ job.at \in {"store", "hold", "reasons"} => \A f \in job.files : state[f] # Gone
    /\ job.at \in {"rows", "release"} =>
          \A f \in job.idle : worker[f] = "idle" /\ f \in reasons /\ state[f] # Gone
    /\ job.at = "release" => \A f \in job.idle : ~is_startable(state[f])
    /\ job.at \in {"unreason", "queue"} => \A f \in job.files : state[f] = "paused"
    /\ job.at \in {"store", "hold", "reasons"} /\ job.op # "mark" =>
          \A f \in Files \ job.files :
             \/ state[f] \in {"paused", "failed", "completed", Gone}
             \/ /\ job.at = "reasons" /\ state[f] = "queued"
                /\ worker[f] = "idle" /\ pass[f] = None

\* A pause is recorded and nobody is setting or ending it.
InForce ==
    /\ life = "up"
    /\ record # NoPause
    /\ job = NoJob \/ job.at \in {"rows", "release"}

\* No attempt at a row that could begin, except the told and the spared, and no
\* row of a pass still as the pass read it.
PauseInv ==
    InForce =>
        /\ hold
        /\ \A f \in Files :
              /\ worker[f] \in {"claimed", "begin"} /\ is_startable(state[f]) =>
                    f \in told \cup spared
              /\ worker[f] = "idle" /\ f \notin reasons /\ pass[f] # None =>
                    state[f] # pass[f]
              /\ worker[f] = "tail" /\ pass[f] # None => state[f] # "queued"

\* The mark is still there to be found again, or its pause is recorded.
MarkDone == mark # {} /\ Done(mark)
Recorded == record.until = "open"
Held     == Recorded /\ hold /\ job.op # "resume"

MarkInv ==
    reached =>
        /\ MarkDone \/ Recorded
        /\ tick # "pass"
        /\ tick \in {"end", "reach"} => MarkDone
        /\ tick \in {"clear", "held"} => Held
        /\ tick \in {"pause", "mark"} /\ life = "up" => MarkDone \/ Held

QInv == TypeOK /\ RowInv /\ LifeInv /\ JobInv /\ PauseInv /\ MarkInv

-----------------------------------------------------------------------------
(* The attempts' steps and the jobs' fields.                               *)

FileState == {"queued", "resolving", "paused", "retry_wait", "failed", "completed", Gone}

LEMMA Moves ==
    ASSUME NEW s \in FileState
    PROVE  /\ can_transition_to(s, "queued") <=> s \in {"queued", "paused", "retry_wait", "failed"}
           /\ can_transition_to(s, "resolving") <=> s \in {"queued", "retry_wait", "resolving"}
           /\ can_transition_to(s, "paused") <=> s \in {"queued", "resolving", "retry_wait", "paused"}
           /\ is_working(s) <=> s = "resolving"
           /\ is_startable(s) <=> s \in {"queued", "retry_wait"}
           /\ done(s) <=> s \in {"completed", "failed"}
  BY DEF FileState, can_transition_to, Successors, Gone, is_working, is_startable, done

\* One attempt moves on, and maybe its row.
Moved(f, s, step) ==
    /\ state' = [state EXCEPT ![f] = s]
    /\ worker' = [worker EXCEPT ![f] = step]

\* An attempt begins with a row in the queue, finds a row that waited for its
\* retry as it was, or finds that it may not begin.
LEMMA BeginCases ==
    ASSUME TypeOK, RowInv, LifeInv, NEW f \in Files, Begin(f)
    PROVE  /\ UNCHANGED <<tries, pauseVars, mark, loopVars, copy, reasons, told, life,
                          requests, crashes, histVars>>
           /\ life = "up"
           /\ \/ /\ worker[f] = "claimed" /\ state[f] = "retry_wait"
                 /\ Moved(f, "queued", "begin")
              \/ /\ worker[f] \in {"claimed", "begin"} /\ state[f] = "queued"
                 /\ Moved(f, "resolving", "working")
              \/ /\ worker[f] = "claimed" /\ ~is_startable(state[f])
                 /\ Moved(f, state[f], "tail")
<1> USE DEF TypeOK, RowInv, LifeInv
<1>1. state[f] \in FileState /\ [state EXCEPT ![f] = state[f]] = state
  BY DEF FileState
<1>2. life = "up" /\ state[f] # "resolving"
  BY DEF Begin
<1> QED
  BY <1>1, <1>2, Moves DEF Begin, Advance, At, Moved

\* Both ends of an attempt find its row where it left it.
LEMMA EndCases ==
    ASSUME TypeOK, RowInv, LifeInv, NEW f \in Files, Stopped(f) \/ Ends(f)
    PROVE  /\ UNCHANGED <<pauseVars, mark, loopVars, copy, reasons, told, life,
                          requests, crashes, histVars>>
           /\ life = "up" /\ worker[f] = "working" /\ state[f] = "resolving"
           /\ \E s \in {"paused", "completed", "retry_wait", "failed"} : Moved(f, s, "tail")
           /\ \/ UNCHANGED tries
              \/ /\ tries' = [tries EXCEPT ![f] = @ + 1]
                 /\ tries[f] >= MaxRetries => state'[f] = "failed"
<1> USE DEF TypeOK, RowInv, LifeInv
<1>1. life = "up" /\ worker[f] = "working" /\ state[f] = "resolving"
  BY DEF Stopped, Ends
<1>2. can_transition_to(state[f], "paused")
  BY <1>1, Moves DEF FileState
<1>3. CASE Stopped(f)
  BY <1>1, <1>2, <1>3 DEF Stopped, Advance, At, Moved
<1>4. CASE Ends(f)
  <2>1. tries[f] \in Nat /\ MaxRetries \in Nat
    BY QueuePauseAssumption
  <2> QED
    BY <1>1, <1>4, <2>1 DEF Ends, At, Moved
<1> QED
  BY <1>3, <1>4

LEMMA JobFields ==
    ASSUME TypeOK
    PROVE  /\ NoJob.op = None /\ NoJob.by = None /\ NoJob.at = "free"
           /\ NoJob.files = {} /\ NoJob.idle = {}
           /\ \A step \in PauseStep \cup ResumeStep : AtStep(step) =>
                 /\ job'.at = step /\ job'.op = job.op /\ job'.by = job.by
                 /\ job'.files = job.files /\ job'.idle = job.idle
           /\ \A op \in {"timed", "started", "mark"}, by \in {"loop", "person"} :
                 PauseList(op, by) =>
                    /\ job = NoJob
                    /\ job'.at = "store" /\ job'.op = op /\ job'.by = by /\ job'.idle = {}
                    /\ job'.files = {f \in Files : stops(op, state[f])}
           /\ \A by \in {"loop", "person"} : ResumeLift(by) =>
                 /\ job = NoJob /\ ~hold'
                 /\ job'.at = "read" /\ job'.op = "resume" /\ job'.by = by
                 /\ job'.files = {} /\ job'.idle = {}
           /\ PauseReasons =>
                 /\ job'.at = "rows" /\ job'.op = job.op /\ job'.by = job.by
                 /\ job'.files = job.files /\ job'.idle = job.files \ Running
           /\ ResumeRead =>
                 /\ job'.at = "unreason" /\ job'.op = job.op /\ job'.by = job.by
                 /\ job'.files = {f \in current.files : state[f] = "paused"}
                 /\ job'.idle = job.idle
<1> USE DEF TypeOK
<1>1. /\ NoJob.op = None /\ NoJob.by = None /\ NoJob.at = "free"
      /\ NoJob.files = {} /\ NoJob.idle = {}
  BY DEF NoJob
<1>2. \A step \in PauseStep \cup ResumeStep : AtStep(step) =>
         /\ job'.at = step /\ job'.op = job.op /\ job'.by = job.by
         /\ job'.files = job.files /\ job'.idle = job.idle
  BY DEF AtStep
<1>3. \A op \in {"timed", "started", "mark"}, by \in {"loop", "person"} :
         PauseList(op, by) =>
            /\ job = NoJob
            /\ job'.at = "store" /\ job'.op = op /\ job'.by = by /\ job'.idle = {}
            /\ job'.files = {f \in Files : stops(op, state[f])}
  BY DEF PauseList, NoJob
<1>4. \A by \in {"loop", "person"} : ResumeLift(by) =>
         /\ job = NoJob /\ ~hold'
         /\ job'.at = "read" /\ job'.op = "resume" /\ job'.by = by
         /\ job'.files = {} /\ job'.idle = {}
  BY DEF ResumeLift, NoJob
<1>5. PauseReasons =>
         /\ job'.at = "rows" /\ job'.op = job.op /\ job'.by = job.by
         /\ job'.files = job.files /\ job'.idle = job.files \ Running
  BY DEF PauseReasons
<1>6. ResumeRead =>
         /\ job'.at = "unreason" /\ job'.op = job.op /\ job'.by = job.by
         /\ job'.files = {f \in current.files : state[f] = "paused"}
         /\ job'.idle = job.idle
  BY DEF ResumeRead
<1> QED
  BY <1>1, <1>2, <1>3, <1>4, <1>5, <1>6

JobType ==
    [op : {"timed", "started", "mark", "resume", None}, by : {"loop", "person", None},
     at : PauseStep \cup ResumeStep \cup {"free"}, files : SUBSET Files, idle : SUBSET Files]

LEMMA JobTyped ==
    ASSUME TypeOK
    PROVE  /\ job \in JobType /\ NoJob \in JobType
           /\ \A step \in PauseStep \cup ResumeStep : AtStep(step) => job' \in JobType
           /\ \A op \in {"timed", "started", "mark"}, by \in {"loop", "person"} :
                 PauseList(op, by) => job' \in JobType
           /\ \A by \in {"loop", "person"} : ResumeLift(by) => job' \in JobType
           /\ PauseReasons => job' \in JobType
           /\ ResumeRead => job' \in JobType
<1>1. job \in JobType
  BY DEF TypeOK, JobType
<1>2. NoJob \in JobType
  BY DEF NoJob, JobType
<1>3. \A step \in PauseStep \cup ResumeStep : AtStep(step) => job' \in JobType
  BY <1>1 DEF AtStep, JobType
<1>4. ASSUME NEW op \in {"timed", "started", "mark"}, NEW by \in {"loop", "person"},
             PauseList(op, by)
      PROVE  job' \in JobType
  <2>1. PICK F \in SUBSET Files :
           job' = [NoJob EXCEPT !.op = op, !.by = by, !.at = "store", !.files = F]
    BY <1>4 DEF PauseList
  <2> QED
    BY <1>2, <2>1 DEF JobType, PauseStep
<1>5. \A by \in {"loop", "person"} : ResumeLift(by) => job' \in JobType
  BY <1>2 DEF ResumeLift, JobType, ResumeStep
<1>6. ASSUME PauseReasons PROVE job' \in JobType
  <2>1. PICK F \in SUBSET Files : job' = [job EXCEPT !.at = "rows", !.idle = F]
    <3>1. job.files \ Running \in SUBSET Files
      BY <1>1 DEF JobType
    <3> QED
      BY <1>6, <3>1 DEF PauseReasons
  <2> QED
    BY <1>1, <2>1 DEF JobType, PauseStep
<1>7. ASSUME ResumeRead PROVE job' \in JobType
  <2>1. PICK F \in SUBSET Files : job' = [job EXCEPT !.at = "unreason", !.files = F]
    <3>1. {f \in current.files : state[f] = "paused"} \in SUBSET Files
      BY DEF TypeOK, Pause, NoPause
    <3> QED
      BY <1>7, <3>1 DEF ResumeRead
  <2> QED
    BY <1>1, <2>1 DEF JobType, ResumeStep
<1> QED
  BY <1>1, <1>2, <1>3, <1>4, <1>5, <1>6, <1>7

LEMMA InitInv == Init => QInv
<1> SUFFICES ASSUME Init PROVE QInv
  OBVIOUS
<1> USE QueuePauseAssumption DEF Init
<1>1. TypeOK
  <2>1. NoJob \in JobType
    BY DEF NoJob, JobType
  <2>2. hold \in BOOLEAN /\ reached \in BOOLEAN
    BY Zenon
  <2>3. tries \in [Files -> 0 .. MaxRetries + 1] /\ requests \in 0 .. MaxRequests
        /\ crashes \in 0 .. MaxCrashes
    OBVIOUS
  <2>4. /\ state \in [Files -> FileState] /\ own \subseteq Files
        /\ pass \in [Files -> {"queued", "retry_wait", None}]
        /\ worker \in [Files -> {"idle", "claimed", "begin", "working", "tail"}]
        /\ copy \in [Files -> {"queued", "retry_wait", None}]
    BY DEF NoPass, FileState
  <2> QED
    BY <2>1, <2>2, <2>3, <2>4 DEF TypeOK, JobType, FileState
<1>2. RowInv
  BY DEF RowInv, NoPass, None, Gone
<1>3. LifeInv /\ PauseInv /\ MarkInv
  BY DEF LifeInv, PauseInv, InForce, MarkInv
<1>4. JobInv
  BY <1>1, JobFields DEF JobInv, PauseStep, ResumeStep, None
<1> QED
  BY <1>1, <1>2, <1>3, <1>4 DEF QInv

-----------------------------------------------------------------------------
(* Types.                                                                  *)

LEMMA NextTypes ==
    ASSUME QInv, [Next]_vars
    PROVE  TypeOK'
<1> TypeOK /\ RowInv /\ LifeInv /\ JobInv
  BY DEF QInv
<1> USE QueuePauseAssumption, JobTyped, JobFields
    DEF rowVars, pauseVars, loopVars, workVars, histVars
<1>a. job' \in JobType <=> (job \in [op : {"timed", "started", "mark", "resume", None}, by : {"loop", "person", None},
                at : PauseStep \cup ResumeStep \cup {"free"},
                files : SUBSET Files, idle : SUBSET Files])'
  BY DEF JobType
<1>b. {"store", "hold", "reasons", "rows", "release", "read", "unreason", "queue", "forget"}
         = PauseStep \cup ResumeStep
  BY DEF PauseStep, ResumeStep
<1>c. record \in Pause \cup {NoPause} /\ current \in Pause \cup {NoPause}
  BY DEF TypeOK
<1>1. CASE PauseStore
  <2>1. record' \in Pause
    BY <1>1, <1>c, JobTyped DEF PauseStore, Pause, Until, NoPause, JobType
  <2> QED
    BY <1>1, <1>a, <1>b, <2>1 DEF PauseStore, TypeOK
<1>2. CASE PauseHold
  BY <1>2, <1>a, <1>b DEF PauseHold, TypeOK
<1>3. CASE PauseReasons
  <2>1. /\ reasons' \subseteq Running \cup job'.files
        /\ told' \subseteq Running /\ spared' \subseteq Files
    BY <1>3 DEF PauseReasons, TypeOK, JobInv, Running
  <2>2. UNCHANGED <<rowVars, record, current, hold, mark, loopVars, worker, copy, life, requests,
                    crashes, own, reached>>
    BY <1>3 DEF PauseReasons
  <2> QED
    BY <1>3, <1>a, <2>1, <2>2 DEF TypeOK, Running
<1>4. CASE PauseRows
  BY <1>4, <1>a, <1>b DEF PauseRows, TypeOK
<1>5. CASE PauseRelease
  BY <1>5, <1>a, <1>b DEF PauseRelease, JobEnds, TypeOK, JobInv, Running
<1>6. CASE ResumeRead
  <2>1. reasons \subseteq Running
    BY <1>6 DEF ResumeRead, JobInv
  <2>2. UNCHANGED <<rowVars, record, current, hold, mark, loopVars, workVars, life, requests,
                    crashes, histVars>>
    BY <1>6 DEF ResumeRead
  <2> QED
    BY <1>6, <1>a, <2>1, <2>2 DEF TypeOK, Running
<1>7. CASE ResumeReasons
  BY <1>7, <1>a, <1>b DEF ResumeReasons, TypeOK
<1>8. CASE ResumeRows
  BY <1>8, <1>a, <1>b DEF ResumeRows, TypeOK
<1>9. CASE ResumeForget
  BY <1>9, <1>a, <1>b DEF ResumeForget, JobEnds, TypeOK, JobInv, Running
<1>10. CASE SeeDue \/ SeeMark \/ ClearReached
  BY <1>10 DEF SeeDue, SeeMark, ClearReached, TypeOK
<1>11. CASE EndPause
  <2>1. job = NoJob /\ reasons \subseteq Running
    BY <1>11 DEF EndPause, ResumeLift, JobInv
  <2>2. hold' \in BOOLEAN
    BY <1>11, Zenon DEF EndPause, ResumeLift, TypeOK
  <2>3. job' \in JobType /\ tick' \in {tick, "mark"}
    BY <1>11 DEF EndPause
  <2>4. UNCHANGED <<rowVars, record, current, mark, seen, pass, workVars, life, requests, crashes,
                    histVars>>
    BY <1>11 DEF EndPause
  <2> QED
    BY <1>a, <2>1, <2>2, <2>3, <2>4 DEF TypeOK, Running
<1>12. CASE ReachMark
  BY <1>12, <1>a DEF ReachMark, TypeOK, JobInv, Running
<1>13. CASE BeginPass
  BY <1>13 DEF BeginPass, Due, TypeOK
<1>14. CASE EndPass
  BY <1>14 DEF EndPass, TypeOK
<1>15. ASSUME NEW f \in Files, Claim(f) PROVE TypeOK'
  BY <1>15 DEF Claim, TypeOK, Running
<1>16. ASSUME NEW f \in Files, SkipStale(f) PROVE TypeOK'
  BY <1>16 DEF SkipStale, TypeOK
<1>17. ASSUME NEW f \in Files, Begin(f) PROVE TypeOK'
  BY <1>17, BeginCases DEF Moved, TypeOK
<1>18. ASSUME NEW f \in Files, Stopped(f) \/ Ends(f) PROVE TypeOK'
  BY <1>18, EndCases DEF Moved, TypeOK, RowInv
<1>19. ASSUME NEW f \in Files, GiveBack(f) PROVE TypeOK'
  BY <1>19 DEF GiveBack, At, TypeOK
<1>20. ASSUME NEW op \in {"timed", "started"}, AskPause(op) PROVE TypeOK'
  BY <1>20, <1>a DEF AskPause, Asked, TypeOK, JobInv, Running
<1>21. CASE AskResume
  <2>1. job = NoJob /\ reasons \subseteq Running /\ job' \in JobType
    BY <1>21 DEF AskResume, ResumeLift, JobInv
  <2>2. hold' \in BOOLEAN /\ reached' \in BOOLEAN
    BY <1>21, Zenon DEF AskResume, ResumeLift
  <2>3. requests' \in 0 .. MaxRequests
        /\ UNCHANGED <<rowVars, record, current, mark, loopVars, workVars, life, crashes, own, spared>>
    BY <1>21 DEF AskResume, Asked, TypeOK
  <2> QED
    BY <1>a, <2>1, <2>2, <2>3 DEF TypeOK, Running
<1>22. CASE ClearMark
  <2>1. reached' \in BOOLEAN
    BY <1>22, Zenon DEF ClearMark
  <2>2. requests' \in 0 .. MaxRequests /\ mark' = {}
        /\ UNCHANGED <<rowVars, pauseVars, loopVars, workVars, life, crashes, own, spared>>
    BY <1>22 DEF ClearMark, Asked, TypeOK
  <2> QED
    BY <2>1, <2>2 DEF TypeOK
<1>23. ASSUME NEW target \in Targets, SetMark(target) PROVE TypeOK'
  <2>1. reached' \in BOOLEAN
    BY <1>23, Zenon DEF SetMark
  <2>2. requests' \in 0 .. MaxRequests /\ mark' = target
        /\ UNCHANGED <<rowVars, pauseVars, loopVars, workVars, life, crashes, own, spared>>
    BY <1>23 DEF SetMark, Asked, TypeOK
  <2> QED
    BY <2>1, <2>2 DEF TypeOK
<1>24. ASSUME NEW f \in Files, Enqueue(f) PROVE TypeOK'
  BY <1>24 DEF Enqueue, TypeOK
<1>25. CASE TimePasses
  <2>1. record' \in Pause \cup {NoPause} /\ current' \in Pause \cup {NoPause}
    BY <1>25, <1>c DEF TimePasses, Pause, NoPause, Until
  <2> QED
    BY <1>25, <2>1 DEF TimePasses, TypeOK
<1>26. CASE Crash
  <2>1. hold' \in BOOLEAN
    BY <1>26, Zenon DEF Crash
  <2>2. /\ pass' \in [Files -> {"queued", "retry_wait", None}]
        /\ worker' \in [Files -> {"idle", "claimed", "begin", "working", "tail"}]
        /\ copy' \in [Files -> {"queued", "retry_wait", None}]
    BY <1>26 DEF Crash, NoPass
  <2>3. crashes' \in 0 .. MaxCrashes
    BY <1>26 DEF Crash, TypeOK
  <2> QED
    BY <1>26, <1>a, <2>1, <2>2, <2>3 DEF Crash, TypeOK
<1>27. CASE Start
  BY <1>27 DEF Start, TypeOK, LifeInv
<1>28. CASE UNCHANGED vars
  BY <1>28 DEF vars, TypeOK
<1> QED
  BY <1>1, <1>2, <1>3, <1>4, <1>5, <1>6, <1>7, <1>8, <1>9, <1>10, <1>11, <1>12, <1>13,
     <1>14, <1>15, <1>16, <1>17, <1>18, <1>19, <1>20, <1>21, <1>22, <1>23, <1>24, <1>25,
     <1>26, <1>27, <1>28 DEF Next, Job, Supervise, Ask, Worker

-----------------------------------------------------------------------------
(* Rows, memory and the lock's holder.                                     *)

\* The jobs' steps that leave rows, attempts and the pass alone.
Aside ==
    \/ PauseStore \/ PauseHold \/ PauseReasons \/ PauseRelease \/ ResumeRead
    \/ ResumeReasons \/ ResumeForget \/ SeeDue \/ EndPause \/ SeeMark \/ ReachMark
    \/ ClearReached \/ AskResume \/ ClearMark \/ TimePasses
    \/ \E op \in Ops \cap {"timed", "started"} : AskPause(op)
    \/ \E target \in Targets : SetMark(target)
    \/ UNCHANGED vars

LEMMA AsideFacts == Aside => UNCHANGED <<state, tries, pass, worker, copy, life>>
  BY DEF Aside, PauseStore, PauseHold, PauseReasons, PauseRelease, ResumeRead,
     ResumeReasons, ResumeForget, SeeDue, EndPause, SeeMark, ReachMark, ClearReached,
     AskResume, ClearMark, TimePasses, AskPause, SetMark, rowVars, pauseVars, loopVars,
     workVars, histVars, vars

LEMMA NextCases ==
    ASSUME [Next]_vars
    PROVE  \/ Aside \/ PauseRows \/ ResumeRows \/ BeginPass \/ EndPass \/ Crash \/ Start
           \/ \E f \in Files : Claim(f) \/ SkipStale(f) \/ Begin(f) \/ Stopped(f) \/ Ends(f)
                               \/ GiveBack(f) \/ Enqueue(f)
  BY DEF Next, Aside, Job, Supervise, Ask, Worker

LEMMA NextRow ==
    ASSUME Races \cap Rare = {}, QInv, [Next]_vars
    PROVE  RowInv'
<1> TypeOK /\ RowInv /\ LifeInv /\ JobInv
  BY DEF QInv
<1> USE QueuePauseAssumption DEF rowVars, pauseVars, loopVars, workVars, histVars, None, Gone
<1>1. CASE Aside
  BY <1>1, AsideFacts DEF RowInv
<1>2. CASE PauseRows
  BY <1>2, Moves DEF PauseRows, RowInv, JobInv, TypeOK, FileState
<1>3. CASE ResumeRows
  BY <1>3, Moves DEF ResumeRows, RowInv, JobInv, TypeOK, FileState
<1>4. CASE BeginPass \/ EndPass
  BY <1>4 DEF BeginPass, EndPass, Due, Running, RowInv, TypeOK
<1>5. CASE Crash
  BY <1>5 DEF Crash, RowInv, NoPass
<1>6. CASE Start
  BY <1>6, Moves DEF Start, RowInv, LifeInv, TypeOK, FileState
<1>7. ASSUME NEW f \in Files, Claim(f) PROVE RowInv'
  <2>1. ~Stale(f)
    BY <1>7 DEF Claim, Rare
  <2> QED
    BY <1>7, <2>1 DEF Claim, Stale, untouchable, Running, RowInv, TypeOK
<1>8. ASSUME NEW f \in Files, SkipStale(f) PROVE RowInv'
  BY <1>8 DEF SkipStale, RowInv, TypeOK
<1>9. ASSUME NEW f \in Files, Begin(f) PROVE RowInv'
  BY <1>9, BeginCases, Moves DEF Moved, RowInv, TypeOK, FileState
<1>10. ASSUME NEW f \in Files, Stopped(f) \/ Ends(f) PROVE RowInv'
  BY <1>10, EndCases DEF Moved, RowInv, TypeOK
<1>11. ASSUME NEW f \in Files, GiveBack(f) PROVE RowInv'
  BY <1>11 DEF GiveBack, At, RowInv, TypeOK
<1>12. ASSUME NEW f \in Files, Enqueue(f) PROVE RowInv'
  BY <1>12 DEF Enqueue, RowInv, TypeOK
<1> QED
  BY <1>1, <1>2, <1>3, <1>4, <1>5, <1>6, <1>7, <1>8, <1>9, <1>10, <1>11, <1>12, NextCases

LEMMA NextLife ==
    ASSUME QInv, [Next]_vars
    PROVE  LifeInv'
<1> TypeOK /\ LifeInv /\ JobInv
  BY DEF QInv
<1> USE DEF rowVars, pauseVars, loopVars, workVars, histVars
<1>1. CASE PauseStore \/ PauseHold \/ PauseReasons \/ PauseRows \/ PauseRelease
           \/ ResumeRead \/ ResumeReasons \/ ResumeRows \/ ResumeForget
  <2>1. job # NoJob
    BY <1>1, JobFields DEF PauseStore, PauseHold, PauseReasons, PauseRows, PauseRelease,
       ResumeRead, ResumeReasons, ResumeRows, ResumeForget
  <2>2. life = "up" /\ life' = "up"
    BY <1>1, <2>1 DEF LifeInv, TypeOK, PauseStore, PauseHold, PauseReasons, PauseRows,
       PauseRelease, ResumeRead, ResumeReasons, ResumeRows, ResumeForget
  <2>3. /\ pass' = pass
        /\ current' = record' \/ UNCHANGED <<current, record>>
    BY <1>1 DEF PauseStore, PauseHold, PauseReasons, PauseRows, PauseRelease,
       ResumeRead, ResumeReasons, ResumeRows, ResumeForget
  <2>4. CASE ~(PauseRelease \/ ResumeForget)
    <3>1. tick' = tick
      BY <1>1, <2>4 DEF PauseStore, PauseHold, PauseReasons, PauseRows, ResumeRead,
         ResumeReasons, ResumeRows
    <3> QED
      BY <2>2, <2>3, <3>1 DEF LifeInv
  <2>5. CASE PauseRelease \/ ResumeForget
    <3>1. tick' = tick \/ (job.by = "loop" /\ job.at \in {"release", "forget"})
      BY <2>5 DEF PauseRelease, ResumeForget, JobEnds
    <3>2. tick' = tick \/ tick # "pass"
      BY <3>1 DEF JobInv, PauseStep, ResumeStep
    <3> QED
      BY <2>2, <2>3, <3>2 DEF LifeInv
  <2> QED
    BY <2>4, <2>5
<1>2. CASE Supervise
  BY <1>2 DEF Supervise, SeeDue, EndPause, SeeMark, ReachMark, ClearReached, BeginPass,
     EndPass, Claim, SkipStale, Loop, LifeInv
<1>3. CASE Ask
  BY <1>3 DEF Ask, AskPause, AskResume, ClearMark, SetMark, Asked, LifeInv
<1>4. CASE TimePasses
  BY <1>4 DEF TimePasses, LifeInv
<1>5. CASE Crash \/ Start
  BY <1>5 DEF Crash, Start, LifeInv, TypeOK
<1>6. ASSUME NEW f \in Files, Worker(f) \/ Enqueue(f) PROVE LifeInv'
  BY <1>6 DEF Worker, Begin, Stopped, Advance, Ends, GiveBack, Enqueue, LifeInv
<1>7. CASE UNCHANGED vars
  BY <1>7 DEF vars, LifeInv
<1> QED
  BY <1>1, <1>2, <1>3, <1>4, <1>5, <1>6, <1>7 DEF Next, Job

LEMMA NextJob ==
    ASSUME Races \cap Rare = {}, QInv, [Next]_vars
    PROVE  JobInv'
<1> TypeOK /\ RowInv /\ LifeInv /\ JobInv
  BY DEF QInv
<1> USE JobFields DEF rowVars, pauseVars, loopVars, workVars, histVars, None, PauseStep, ResumeStep
<1>a. \A f \in Files : state[f] \in FileState
  BY DEF TypeOK, FileState
<1>b. job' = NoJob => job'.at = "free"
  OBVIOUS
<1>1. CASE PauseStore
  <2>1. /\ job.at = "store" /\ AtStep("hold")
        /\ record'.until = IF job.op = "timed" THEN "ahead" ELSE "open"
        /\ UNCHANGED <<state, worker, pass, tick, reasons>>
    BY <1>1 DEF PauseStore
  <2> QED
    BY <2>1 DEF JobInv, Running
<1>2. CASE PauseHold
  BY <1>2 DEF PauseHold, JobInv, Running
<1>3. CASE PauseReasons
  <2>1. /\ job.at = "reasons" /\ job'.at = "rows"
        /\ reasons' = reasons \cup job.files
        /\ UNCHANGED <<state, worker, pass, tick, record, hold>>
    BY <1>3 DEF PauseReasons
  <2>2. \A f \in job'.idle : worker'[f] = "idle" /\ f \in reasons' /\ state'[f] # Gone
    BY <1>3, <2>1 DEF Running, JobInv, TypeOK
  <2> QED
    BY <1>3, <2>1, <2>2 DEF JobInv, Running
<1>4. CASE PauseRows
  <2>1. /\ job.at = "rows" /\ AtStep("release")
        /\ UNCHANGED <<worker, pass, tick, record, hold, reasons>>
        /\ \A f \in Files : state'[f] = IF f \in job.idle /\ is_startable(state[f])
                                        THEN "paused" ELSE state[f]
    BY <1>4 DEF PauseRows
  <2>2. \A f \in job.idle : f \in Files /\ ~is_startable(state'[f]) /\ state'[f] # Gone
    BY <2>1 DEF JobInv, TypeOK, is_startable, Gone
  <2> QED
    BY <2>1, <2>2 DEF JobInv, Running
<1>5. CASE PauseRelease
  BY <1>5 DEF PauseRelease, JobEnds, JobInv, Running
<1>6. CASE ResumeRead
  <2>1. /\ job.at = "read" /\ UNCHANGED <<state, worker, pass, tick, record, hold, reasons>>
    BY <1>6 DEF ResumeRead
  <2> QED
    BY <1>6, <2>1 DEF JobInv, Running
<1>7. CASE ResumeReasons
  BY <1>7 DEF ResumeReasons, JobInv, Running
<1>8. CASE ResumeRows
  BY <1>8 DEF ResumeRows, JobInv, Running
<1>9. CASE ResumeForget
  BY <1>9 DEF ResumeForget, JobEnds, JobInv, Running
<1>10. CASE SeeDue \/ SeeMark \/ ClearReached \/ BeginPass
  <2>1. /\ UNCHANGED <<state, worker, job, record, hold, reasons>>
        /\ tick \notin {"reach", "end"}
    BY <1>10 DEF SeeDue, SeeMark, ClearReached, BeginPass, Loop
  <2>2. pass' = pass \/ (BeginPass /\ ~hold /\ \A f \in Files : pass'[f] # None => is_startable(state[f]))
    BY <1>10 DEF SeeDue, SeeMark, ClearReached, BeginPass, Due, is_startable
  <2>3. CASE pass' = pass
    BY <2>1, <2>3 DEF JobInv, Running
  <2>4. CASE ~hold
    BY <2>1, <2>4 DEF JobInv, Running
  <2> QED
    BY <2>2, <2>3, <2>4
<1>11. CASE EndPause
  <2>1. /\ job = NoJob /\ tick = "end" /\ UNCHANGED <<state, worker, pass, record, reasons>>
        /\ \/ ResumeLift("loop") /\ UNCHANGED tick
           \/ UNCHANGED <<job, hold>>
    BY <1>11 DEF EndPause, ResumeLift, Loop
  <2> QED
    BY <2>1 DEF JobInv, Running
<1>12. CASE ReachMark
  <2>1. /\ PauseList("mark", "loop") /\ tick = "reach"
        /\ UNCHANGED <<state, worker, pass, tick, record, hold, reasons>>
    BY <1>12 DEF ReachMark, Loop
  <2>2. \A f \in Files : stops("mark", state[f]) => state[f] # Gone
    BY <1>a DEF stops, is_startable, is_working, Gone
  <2> QED
    BY <2>1, <2>2 DEF JobInv, Running
<1>13. ASSUME NEW op \in {"timed", "started"}, AskPause(op) PROVE JobInv'
  <2>1. /\ PauseList(op, "person")
        /\ UNCHANGED <<state, worker, pass, tick, record, hold, reasons>>
    BY <1>13 DEF AskPause
  <2>2. /\ \A f \in Files : stops(op, state[f]) => state[f] # Gone
        /\ \A f \in Files : ~stops(op, state[f]) =>
              state[f] \in {"paused", "failed", "completed", Gone}
    BY <1>a, Moves DEF stops, FileState, Gone
  <2> QED
    BY <2>1, <2>2 DEF JobInv, Running
<1>14. CASE AskResume
  <2>1. /\ ResumeLift("person")
        /\ UNCHANGED <<state, worker, pass, tick, record, reasons>>
    BY <1>14 DEF AskResume
  <2> QED
    BY <2>1 DEF JobInv, Running
<1>15. CASE ClearMark \/ (\E target \in Targets : SetMark(target))
  BY <1>15 DEF ClearMark, SetMark, JobInv, Running
<1>16. CASE TimePasses
  <2>1. /\ UNCHANGED <<state, worker, pass, tick, job, hold, reasons>>
        /\ record.until = "ahead" /\ record'.until = "passed"
    BY <1>16 DEF TimePasses, TypeOK, Pause, NoPause
  <2> QED
    BY <2>1 DEF JobInv, Running
<1>17. CASE Crash
  BY <1>17 DEF Crash, JobInv
<1>18. CASE Start
  <2>1. job = NoJob /\ job' = NoJob /\ UNCHANGED <<worker, pass, tick, record, reasons>>
    BY <1>18 DEF Start, LifeInv
  <2> QED
    BY <2>1 DEF JobInv, Running
<1>19. ASSUME NEW f \in Files, Claim(f) PROVE JobInv'
  BY <1>19 DEF Claim, untouchable, JobInv, Running, TypeOK
<1>20. ASSUME NEW f \in Files, SkipStale(f) PROVE JobInv'
  BY <1>20 DEF SkipStale, JobInv, Running, TypeOK
<1>21. ASSUME NEW f \in Files, Begin(f) PROVE JobInv'
  <2>1. UNCHANGED <<job, tick, record, hold, reasons, pass>>
    BY <1>21, BeginCases
  <2>2. /\ worker[f] # "idle" /\ \A g \in Files : worker'[g] = "idle" <=> worker[g] = "idle"
        /\ \A g \in Files \ {f} : state'[g] = state[g]
        /\ state[f] # "paused" \/ state'[f] = state[f]
        /\ state'[f] # Gone
        /\ state[f] \in {"queued", "retry_wait"} \/ state'[f] = state[f]
    BY <1>21, BeginCases DEF Moved, TypeOK, RowInv, Gone
  <2> QED
    BY <2>1, <2>2 DEF JobInv, Running, TypeOK, Gone
<1>22. ASSUME NEW f \in Files, Stopped(f) \/ Ends(f) PROVE JobInv'
  <2>1. UNCHANGED <<job, tick, record, hold, reasons, pass>>
    BY <1>22, EndCases
  <2>2. /\ worker[f] # "idle" /\ \A g \in Files : worker'[g] = "idle" <=> worker[g] = "idle"
        /\ \A g \in Files \ {f} : state'[g] = state[g]
        /\ state[f] = "resolving" /\ state'[f] # Gone
    BY <1>22, EndCases DEF Moved, TypeOK, Gone
  <2> QED
    BY <2>1, <2>2 DEF JobInv, Running, TypeOK, Gone
<1>23. ASSUME NEW f \in Files, GiveBack(f) PROVE JobInv'
  BY <1>23 DEF GiveBack, At, JobInv, Running, TypeOK
<1>24. ASSUME NEW f \in Files, Enqueue(f) PROVE JobInv'
  <2>1. /\ state[f] = Gone /\ worker[f] = "idle" /\ pass[f] = None
        /\ job.at \notin {"store", "hold"}
        /\ UNCHANGED <<worker, job, tick, record, hold, reasons, pass>>
    BY <1>24 DEF Enqueue, RowInv, Rare
  <2>2. /\ \A g \in Files \ {f} : state'[g] = state[g]
        /\ state'[f] = "queued"
    BY <1>24 DEF Enqueue, TypeOK
  <2> QED
    BY <2>1, <2>2 DEF JobInv, Running, TypeOK, Gone
<1>25. CASE EndPass \/ UNCHANGED vars
  <2>1. UNCHANGED <<state, worker, job, record, hold, reasons, pass>>
        /\ (tick' = tick \/ tick = "pass")
    BY <1>25 DEF EndPass, Loop, vars
  <2> QED
    BY <2>1 DEF JobInv, Running
<1> QED
  BY <1>1, <1>2, <1>3, <1>4, <1>5, <1>6, <1>7, <1>8, <1>9, <1>10, <1>11, <1>12, <1>13,
     <1>14, <1>15, <1>16, <1>17, <1>18, <1>19, <1>20, <1>21, <1>22, <1>23, <1>24, <1>25
     DEF Next, Job, Supervise, Ask, Worker

-----------------------------------------------------------------------------
(* The pause in force.                                                     *)

\* What a pause in force says of one file.
Stays(f) ==
    /\ worker[f] \in {"claimed", "begin"} /\ is_startable(state[f]) => f \in told \cup spared
    /\ worker[f] = "idle" /\ f \notin reasons /\ pass[f] # None => state[f] # pass[f]
    /\ worker[f] = "tail" /\ pass[f] # None => state[f] # "queued"

LEMMA NextPause ==
    ASSUME Races \cap Rare = {}, QInv, [Next]_vars
    PROVE  PauseInv'
<1> TypeOK /\ RowInv /\ LifeInv /\ JobInv /\ PauseInv
  BY DEF QInv
<1> USE JobFields DEF rowVars, pauseVars, loopVars, workVars, histVars
<1>a. \A f \in Files : state[f] \in FileState
  BY DEF TypeOK, FileState
<1>b. PauseInv <=> (InForce => hold /\ \A f \in Files : Stays(f))
  BY DEF PauseInv, Stays
<1>c. PauseInv' <=> (InForce' => hold' /\ \A f \in Files : Stays(f)')
  BY DEF PauseInv, Stays
<1>d. job = NoJob <=> job.at = "free"
  BY DEF JobInv
<1>1. CASE PauseStore \/ PauseHold \/ ResumeRead \/ ResumeReasons \/ ResumeRows
           \/ ReachMark \/ AskResume \/ (\E op \in {"timed", "started"} : AskPause(op))
  <2>1. job'.at \in {"store", "hold", "reasons", "read", "unreason", "queue", "forget"}
    BY <1>1 DEF PauseStore, PauseHold, ResumeRead, ResumeReasons, ResumeRows, ReachMark,
       AskResume, AskPause, PauseStep, ResumeStep
  <2> QED
    BY <2>1 DEF PauseInv, InForce
<1>2. CASE ResumeForget \/ Crash
  BY <1>2 DEF ResumeForget, Crash, PauseInv, InForce
<1>3. CASE PauseReasons
  <2>1. /\ job.at = "reasons" /\ reasons' = reasons \cup job.files
        /\ told' = told \cup (job.files \cap Running)
        /\ spared' = IF job.op = "mark" THEN Running \ told' ELSE spared
        /\ UNCHANGED <<state, pass, worker, hold>>
        /\ \A f \in job.files : worker[f] = "tail" => ~is_startable(state[f])
    BY <1>3 DEF PauseReasons, Rare
  <2>2. hold'
    BY <2>1 DEF JobInv
  <2>3. ASSUME NEW f \in Files PROVE Stays(f)'
    <3>1. CASE f \in job.files
      BY <2>1, <3>1 DEF Stays, Running, is_startable
    <3>2. CASE f \notin job.files /\ job.op # "mark"
      <4>1. \/ state[f] \in {"paused", "failed", "completed", Gone}
            \/ state[f] = "queued" /\ worker[f] = "idle" /\ pass[f] = None
        BY <2>1, <3>2 DEF JobInv
      <4>2. pass[f] \in {"queued", "retry_wait", None}
        BY DEF TypeOK
      <4> QED
        BY <2>1, <4>1, <4>2 DEF Stays, is_startable, Gone
    <3>3. CASE job.op = "mark"
      <4>1. pass[f] = None
        BY <3>3 DEF JobInv, LifeInv, NoPass
      <4> QED
        BY <2>1, <3>3, <4>1 DEF Stays, Running
    <3> QED
      BY <3>1, <3>2, <3>3
  <2> QED
    BY <1>c, <2>2, <2>3
<1>4. CASE PauseRows
  <2>1. /\ job.at = "rows" /\ AtStep("release") /\ UNCHANGED <<life, record, hold>>
    BY <1>4 DEF PauseRows
  <2>2. InForce' => hold /\ \A f \in Files : Stays(f)
    BY <1>b, <2>1 DEF InForce, PauseStep
  <2>3. ASSUME NEW f \in Files, Stays(f) PROVE Stays(f)'
    <3>1. UNCHANGED <<pass, worker, told, spared, reasons>>
      BY <1>4 DEF PauseRows
    <3>2. state'[f] = state[f] \/ (state'[f] = "paused" /\ worker[f] = "idle" /\ f \in reasons)
      BY <1>4 DEF PauseRows, JobInv
    <3> QED
      BY <2>3, <3>1, <3>2 DEF Stays, is_startable
  <2> QED
    BY <1>c, <2>1, <2>2, <2>3
<1>5. CASE PauseRelease
  <2>1. /\ job.at = "release" /\ reasons' = reasons \ (job.idle \ Running)
        /\ UNCHANGED <<life, record, hold, state, pass, worker, told, spared>>
    BY <1>5 DEF PauseRelease
  <2>2. InForce' => hold /\ \A f \in Files : Stays(f)
    BY <1>b, <2>1 DEF InForce
  <2>3. ASSUME NEW f \in Files, Stays(f) PROVE Stays(f)'
    <3>1. f \in job.idle => ~is_startable(state[f])
      BY <2>1 DEF JobInv
    <3>2. pass[f] \in {"queued", "retry_wait", None}
      BY DEF TypeOK
    <3> QED
      BY <2>1, <2>3, <3>1, <3>2 DEF Stays, is_startable
  <2> QED
    BY <1>c, <2>1, <2>2, <2>3
<1>6. CASE SeeDue \/ SeeMark \/ ClearReached \/ EndPass \/ ClearMark
           \/ (\E target \in Targets : SetMark(target)) \/ UNCHANGED vars
  <2>1. UNCHANGED <<life, record, hold, job, state, pass, worker, told, spared, reasons>>
    BY <1>6 DEF SeeDue, SeeMark, ClearReached, EndPass, ClearMark, SetMark, vars
  <2> QED
    BY <2>1 DEF PauseInv, InForce
<1>7. CASE TimePasses
  <2>1. UNCHANGED <<life, hold, job, state, pass, worker, told, spared, reasons>>
        /\ record # NoPause
    BY <1>7 DEF TimePasses, NoPause, None
  <2> QED
    BY <2>1 DEF PauseInv, InForce
<1>8. CASE EndPause
  <2>1. CASE ResumeLift("loop")
    BY <2>1 DEF PauseInv, InForce
  <2>2. CASE current = NoPause
    <3>1. life = "up" /\ record' = NoPause
      BY <1>8, <2>2 DEF EndPause, Loop, LifeInv
    <3> QED
      BY <3>1 DEF PauseInv, InForce
  <2> QED
    BY <1>8, <2>1, <2>2 DEF EndPause
<1>9. CASE BeginPass
  <2>1. UNCHANGED <<life, record, hold, job, state, worker, told, spared, reasons>>
    BY <1>9 DEF BeginPass
  <2>2. hold => pass' = pass
    BY <1>9 DEF BeginPass
  <2> QED
    BY <2>1, <2>2 DEF PauseInv, InForce
<1>10. CASE Start
  <2>1. /\ \A f \in Files : worker'[f] = "idle" /\ pass'[f] = None
        /\ record' # NoPause => hold'
    BY <1>10 DEF Start, LifeInv, NoPass
  <2> QED
    BY <2>1 DEF PauseInv, InForce
<1>11. ASSUME NEW f \in Files, Claim(f) PROVE PauseInv'
  <2>1. /\ UNCHANGED <<life, record, hold, job, state, told, spared, reasons>>
        /\ pass' = [pass EXCEPT ![f] = None]
        /\ worker' = worker \/ worker' = [worker EXCEPT ![f] = "claimed"]
        /\ worker' # worker => worker[f] = "idle" /\ f \notin reasons
        /\ pass[f] # None /\ ~Stale(f)
    BY <1>11 DEF Claim, untouchable, Running, Rare
  <2>2. ASSUME NEW g \in Files, Stays(g) PROVE Stays(g)'
    <3>1. CASE g # f
      <4>1. worker'[g] = worker[g] /\ pass'[g] = pass[g]
        BY <2>1, <3>1 DEF TypeOK
      <4> QED
        BY <2>1, <2>2, <4>1 DEF Stays
    <3>2. CASE g = f
      <4>1. pass'[f] = None
        BY <2>1 DEF TypeOK
      <4>2. worker'[f] = worker[f] \/
              (worker'[f] = "claimed" /\ worker[f] = "idle" /\ f \notin reasons)
        BY <2>1 DEF TypeOK
      <4>3. worker[f] = "idle" /\ f \notin reasons => ~is_startable(state[f])
        BY <2>1, <2>2, <3>2 DEF Stays, Stale, TypeOK, is_startable
      <4> QED
        BY <2>1, <2>2, <3>2, <4>1, <4>2, <4>3 DEF Stays
    <3> QED
      BY <3>1, <3>2
  <2> QED
    BY <1>b, <1>c, <2>1, <2>2 DEF InForce
<1>12. ASSUME NEW f \in Files, SkipStale(f) PROVE PauseInv'
  <2>1. /\ UNCHANGED <<life, record, hold, job, state, told, spared, reasons, worker>>
        /\ pass' = [pass EXCEPT ![f] = None]
    BY <1>12 DEF SkipStale
  <2>2. \A g \in Files : pass'[g] = pass[g] \/ pass'[g] = None
    BY <2>1 DEF TypeOK
  <2>3. ASSUME NEW g \in Files, Stays(g) PROVE Stays(g)'
    BY <2>1, <2>2, <2>3 DEF Stays
  <2> QED
    BY <1>b, <1>c, <2>1, <2>3 DEF InForce
<1>13. ASSUME NEW f \in Files, Begin(f) \/ Stopped(f) \/ Ends(f) PROVE PauseInv'
  <2>1. /\ UNCHANGED <<life, record, hold, job, told, spared, reasons, pass>>
        /\ \A g \in Files \ {f} : worker'[g] = worker[g] /\ state'[g] = state[g]
    BY <1>13, BeginCases, EndCases DEF Moved, TypeOK
  <2>2. \/ worker[f] \in {"claimed", "begin"} /\ is_startable(state[f]) /\ worker'[f] = "begin"
        \/ worker'[f] = "working"
        \/ worker'[f] = "tail" /\ state'[f] # "queued"
    BY <1>13, BeginCases, EndCases DEF Moved, TypeOK, is_startable
  <2>3. ASSUME NEW g \in Files, Stays(g) PROVE Stays(g)'
    BY <2>1, <2>2, <2>3 DEF Stays
  <2> QED
    BY <1>b, <1>c, <2>1, <2>3 DEF InForce
<1>14. ASSUME NEW f \in Files, GiveBack(f) PROVE PauseInv'
  <2>1. /\ UNCHANGED <<life, record, hold, job, state, pass>>
        /\ \A g \in Files \ {f} :
              /\ worker'[g] = worker[g]
              /\ g \in told' <=> g \in told
              /\ g \in spared' <=> g \in spared
              /\ g \in reasons' <=> g \in reasons
        /\ worker[f] = "tail" /\ worker'[f] = "idle"
    BY <1>14 DEF GiveBack, At, TypeOK
  <2>2. pass[f] \in {"queued", None}
    BY <2>1 DEF TypeOK, RowInv
  <2>3. ASSUME NEW g \in Files, Stays(g) PROVE Stays(g)'
    BY <2>1, <2>2, <2>3 DEF Stays
  <2> QED
    BY <1>b, <1>c, <2>1, <2>3 DEF InForce
<1>15. ASSUME NEW f \in Files, Enqueue(f) PROVE PauseInv'
  <2>1. /\ UNCHANGED <<life, record, hold, job, pass, worker, told, spared, reasons>>
        /\ \A g \in Files \ {f} : state'[g] = state[g]
        /\ worker[f] = "idle" /\ pass[f] = None
    BY <1>15 DEF Enqueue, TypeOK, RowInv
  <2>3. ASSUME NEW g \in Files, Stays(g) PROVE Stays(g)'
    BY <2>1, <2>3 DEF Stays
  <2> QED
    BY <1>b, <1>c, <2>1, <2>3 DEF InForce
<1> QED
  BY <1>1, <1>2, <1>3, <1>4, <1>5, <1>6, <1>7, <1>8, <1>9, <1>10, <1>11, <1>12, <1>13,
     <1>14, <1>15 DEF Next, Job, Supervise, Ask, Worker

-----------------------------------------------------------------------------
(* The stop mark.                                                          *)

\* A row that came to an end stays there.
LEMMA DoneStays ==
    ASSUME QInv, [Next]_vars
    PROVE  \A f \in Files : done(state[f]) => done(state'[f])
<1> TypeOK /\ RowInv /\ LifeInv /\ JobInv
  BY DEF QInv
<1>1. CASE Aside \/ BeginPass \/ EndPass \/ Crash
  BY <1>1, AsideFacts DEF BeginPass, EndPass, Crash, rowVars
<1>2. CASE PauseRows \/ Start
  BY <1>2 DEF PauseRows, Start, is_startable, is_working, done, TypeOK
<1>3. CASE ResumeRows
  BY <1>3 DEF ResumeRows, JobInv, done
<1>4. ASSUME NEW f \in Files, Claim(f) \/ SkipStale(f) \/ GiveBack(f)
      PROVE  UNCHANGED state
  BY <1>4 DEF Claim, SkipStale, GiveBack, rowVars
<1>5. ASSUME NEW f \in Files, Begin(f)
      PROVE  \A g \in Files : done(state[g]) => done(state'[g])
  BY <1>5, BeginCases DEF Moved, done, TypeOK
<1>6. ASSUME NEW f \in Files, Stopped(f) \/ Ends(f)
      PROVE  \A g \in Files : done(state[g]) => done(state'[g])
  BY <1>6, EndCases DEF Moved, done, TypeOK
<1>7. ASSUME NEW f \in Files, Enqueue(f)
      PROVE  \A g \in Files : done(state[g]) => done(state'[g])
  BY <1>7 DEF Enqueue, done, Gone, TypeOK
<1> QED
  BY <1>1, <1>2, <1>3, <1>4, <1>5, <1>6, <1>7, NextCases

LEMMA NextMark ==
    ASSUME QInv, [Next]_vars
    PROVE  MarkInv'
<1> TypeOK /\ LifeInv /\ JobInv /\ MarkInv
  BY DEF QInv
<1> USE JobFields DEF rowVars, pauseVars, loopVars, workVars, histVars
<1>a. mark \subseteq Files
  BY QueuePauseAssumption DEF TypeOK
<1>b. mark' = mark /\ MarkDone => MarkDone'
  BY <1>a, DoneStays DEF MarkDone, Done
<1>1. CASE PauseStore
  <2>1. /\ job.at = "store" /\ AtStep("hold") /\ UNCHANGED <<mark, tick, hold, life>>
        /\ record'.until = IF job.op = "timed" THEN "ahead" ELSE "open"
        /\ reached' => reached /\ job.op # "timed"
    BY <1>1 DEF PauseStore
  <2>2. job'.op # "resume" /\ job'.op = job.op
    BY <2>1 DEF JobInv, PauseStep, ResumeStep
  <2> QED
    BY <1>b, <2>1, <2>2 DEF MarkInv, Held, Recorded
<1>2. CASE PauseHold \/ PauseReasons \/ PauseRows \/ ResumeRead \/ ResumeReasons \/ ResumeRows
  <2>1. /\ UNCHANGED <<mark, tick, record, life, reached>>
        /\ job'.op = job.op /\ (hold => hold')
    BY <1>2 DEF PauseHold, PauseReasons, PauseRows, ResumeRead, ResumeReasons, ResumeRows,
       PauseStep, ResumeStep
  <2> QED
    BY <1>b, <2>1 DEF MarkInv, Held, Recorded
<1>3. CASE PauseRelease
  <2>1. /\ job.at = "release" /\ job' = NoJob /\ UNCHANGED <<mark, record, hold, life, reached>>
        /\ tick' = IF job.by = "loop" THEN "clear" ELSE tick
    BY <1>3 DEF PauseRelease, JobEnds
  <2>2. job'.op = None /\ hold /\ (job.by = "loop" => Recorded /\ tick = "reach")
    BY <2>1 DEF JobInv, PauseStep, ResumeStep, Recorded
  <2> QED
    BY <1>b, <2>1, <2>2 DEF MarkInv, Held, Recorded, None
<1>4. CASE ResumeForget
  <2>1. /\ job.at = "forget" /\ UNCHANGED <<mark, hold, life, reached>>
        /\ tick' = IF job.by = "loop" THEN "mark" ELSE tick
    BY <1>4 DEF ResumeForget, JobEnds
  <2>2. job.op = "resume" /\ (job.by = "loop" => tick = "end")
    BY <2>1 DEF JobInv, PauseStep, ResumeStep
  <2>3. life = "up"
    BY <2>1 DEF LifeInv, TypeOK
  <2>4. reached => MarkDone
    BY <2>2, <2>3 DEF MarkInv, Held, TypeOK
  <2> QED
    BY <1>b, <2>1, <2>2, <2>4 DEF MarkInv, Held
<1>5. CASE SeeDue
  <2>1. /\ life = "up" /\ tick = "pause" /\ UNCHANGED <<mark, record, hold, job, life, reached>>
        /\ tick' = IF record.until = "passed" THEN "end" ELSE "mark"
    BY <1>5 DEF SeeDue, Loop, LifeInv
  <2> QED
    BY <1>b, <2>1 DEF MarkInv, Held, Recorded
<1>6. CASE EndPause
  <2>1. /\ tick = "end" /\ tick' \in {"end", "mark"}
        /\ UNCHANGED <<mark, record, life, reached>>
    BY <1>6 DEF EndPause, Loop
  <2> QED
    BY <1>b, <2>1 DEF MarkInv
<1>7. CASE SeeMark
  <2>1. /\ life = "up" /\ tick = "mark" /\ UNCHANGED <<mark, record, hold, job, life, state>>
        /\ tick' = IF MarkDone THEN "reach" ELSE "held"
        /\ reached' => reached \/ MarkDone
    BY <1>7 DEF SeeMark, Loop, MarkDone
  <2> QED
    BY <1>b, <2>1 DEF MarkInv, Held, Recorded
<1>8. CASE ReachMark
  <2>1. /\ tick = "reach" /\ UNCHANGED <<mark, tick, record, life, reached>>
    BY <1>8 DEF ReachMark, Loop
  <2> QED
    BY <1>b, <2>1 DEF MarkInv
<1>9. CASE ClearReached
  <2>1. tick = "clear" /\ tick' = "held" /\ UNCHANGED <<record, hold, job, life, reached>>
    BY <1>9 DEF ClearReached, Loop
  <2> QED
    BY <2>1 DEF MarkInv, Held, Recorded
<1>10. CASE BeginPass
  <2>1. /\ life = "up" /\ tick = "held" /\ UNCHANGED <<mark, record, hold, job, life, reached>>
        /\ tick' = IF hold THEN "pause" ELSE "pass"
    BY <1>10 DEF BeginPass, Loop
  <2> QED
    BY <1>b, <2>1 DEF MarkInv, Held, Recorded
<1>11. CASE EndPass
  BY <1>11 DEF EndPass, Loop, MarkInv
<1>12. ASSUME NEW op \in {"timed", "started"}, AskPause(op) PROVE MarkInv'
  <2>1. /\ UNCHANGED <<mark, tick, record, hold, life, reached>> /\ job'.op = op
    BY <1>12 DEF AskPause
  <2> QED
    BY <1>b, <2>1 DEF MarkInv, Held, Recorded
<1>13. CASE AskResume \/ ClearMark \/ (\E target \in Targets : SetMark(target))
  BY <1>13 DEF AskResume, ClearMark, SetMark, MarkInv
<1>14. CASE TimePasses
  <2>1. UNCHANGED <<mark, tick, hold, job, life, reached>> /\ record.until = "ahead"
    BY <1>14 DEF TimePasses
  <2> QED
    BY <1>b, <2>1 DEF MarkInv, Held, Recorded
<1>15. CASE Crash
  <2>1. UNCHANGED <<mark, record, reached>> /\ tick' = "pause" /\ life' = "down"
    BY <1>15 DEF Crash
  <2> QED
    BY <1>b, <2>1 DEF MarkInv, Recorded
<1>16. CASE Start
  <2>1. /\ UNCHANGED <<mark, tick, record, job, reached>> /\ tick = "pause" /\ job = NoJob
        /\ hold' = (record # NoPause)
    BY <1>16 DEF Start, LifeInv
  <2>2. Recorded => record # NoPause
    BY DEF Recorded, NoPause, None
  <2>3. Recorded => hold'
    BY <2>1, <2>2
  <2>4. job'.op # "resume" /\ tick' = "pause" /\ UNCHANGED <<mark, record, reached>>
    BY <2>1 DEF NoJob, None
  <2> QED
    BY <1>b, <2>3, <2>4 DEF MarkInv, Held, Recorded
<1>17. ASSUME NEW f \in Files, Claim(f) PROVE MarkInv'
  <2>1. tick = "pass" /\ UNCHANGED reached
    BY <1>17 DEF Claim, Loop
  <2> QED
    BY <2>1 DEF MarkInv
<1>18. ASSUME NEW f \in Files, SkipStale(f) \/ Worker(f) \/ Enqueue(f) PROVE MarkInv'
  <2>1. UNCHANGED <<mark, tick, record, hold, job, life, reached>>
    BY <1>18 DEF SkipStale, Worker, Begin, Stopped, Advance, Ends, GiveBack, Enqueue
  <2> QED
    BY <1>b, <2>1 DEF MarkInv, Held, Recorded
<1>19. CASE UNCHANGED vars
  BY <1>b, <1>19 DEF vars, MarkInv, Held, Recorded
<1> QED
  BY <1>1, <1>2, <1>3, <1>4, <1>5, <1>6, <1>7, <1>8, <1>9, <1>10, <1>11, <1>12, <1>13,
     <1>14, <1>15, <1>16, <1>17, <1>18, <1>19 DEF Next, Job, Supervise, Ask, Worker

-----------------------------------------------------------------------------
(* The theorems.                                                           *)

LEMMA PauseInvariant ==
    ASSUME Races \cap Rare = {}
    PROVE  Spec => []QInv
<1>1. QInv /\ [Next]_vars => QInv'
  BY NextTypes, NextRow, NextLife, NextJob, NextPause, NextMark DEF QInv
<1> QED
  BY InitInv, <1>1, PTL DEF Spec

\* Type correctness of the queue's pause, its rows, attempts and stop reasons: no
\* reason or cancelled token outlives the attempt or the pause it belongs to
\* (`pause_many`, `release`), and the attempts of a file stay within its budget.
THEOREM TypesAreRight ==
    ASSUME Races \cap Rare = {}
    PROVE  Spec => []TypeOK
<1>1. QInv => TypeOK
  BY DEF QInv
<1> QED
  BY <1>1, PauseInvariant, PTL

\* Under a recorded pause nobody is setting or ending, no attempt begins to move
\* its row, over restarts, links added and passes that read before the pause
\* (`pause_queue`, `pause_many`, `restore_queue_pause`).
THEOREM PauseHoldsTheQueue ==
    ASSUME Races \cap Rare = {}
    PROVE  Spec => NoneBeginsUnderPause
<1>1. QInv /\ [Next]_vars =>
         [\A f \in Files : ~is_working(state[f]) /\ is_working(state'[f]) =>
              record = NoPause \/ job # NoJob \/ f \in told \cup spared]_vars
  <2> SUFFICES ASSUME QInv, [Next]_vars, NEW f \in Files,
                      ~is_working(state[f]), is_working(state'[f])
               PROVE  record = NoPause \/ job # NoJob \/ f \in told \cup spared
    OBVIOUS
  <2> TypeOK /\ RowInv /\ LifeInv /\ PauseInv
    BY DEF QInv
  <2>1. CASE Aside \/ BeginPass \/ EndPass \/ Crash
    BY <2>1, AsideFacts DEF BeginPass, EndPass, Crash, rowVars
  <2>2. CASE PauseRows \/ Start
    BY <2>2 DEF PauseRows, Start, is_working
  <2>3. CASE ResumeRows
    BY <2>3 DEF ResumeRows, is_working
  <2>4. ASSUME NEW g \in Files, Claim(g) \/ SkipStale(g) \/ GiveBack(g) PROVE FALSE
    BY <2>4 DEF Claim, SkipStale, GiveBack, rowVars
  <2>5. ASSUME NEW g \in Files, Stopped(g) \/ Ends(g) PROVE FALSE
    BY <2>5, EndCases DEF Moved, is_working, TypeOK
  <2>6. ASSUME NEW g \in Files, Enqueue(g) PROVE FALSE
    BY <2>6 DEF Enqueue, is_working, TypeOK
  <2>7. ASSUME NEW g \in Files, Begin(g)
        PROVE  record = NoPause \/ job # NoJob \/ f \in told \cup spared
    <3>1. /\ f = g /\ life = "up" /\ worker[f] \in {"claimed", "begin"}
          /\ is_startable(state[f])
      BY <2>7, BeginCases DEF Moved, is_working, is_startable, TypeOK
    <3> QED
      BY <3>1 DEF PauseInv, InForce
  <2> QED
    BY <2>1, <2>2, <2>3, <2>4, <2>5, <2>6, <2>7, NextCases
<1> QED
  BY <1>1, PauseInvariant, PTL DEF Spec, NoneBeginsUnderPause

\* Once the loop found the mark's target done, no file is started before somebody
\* resumes the queue, gives the pause an end or moves the mark, wherever the
\* process ends (`reach_stop_mark`, `supervise_stop_mark`).
THEOREM MarkStopsTheQueue ==
    ASSUME Races \cap Rare = {}
    PROVE  Spec => StopMarkStops
<1>1. QInv /\ [Next]_vars =>
         [\A f \in Files : worker[f] = "idle" /\ worker'[f] # "idle" => ~reached]_vars
  <2> SUFFICES ASSUME QInv, [Next]_vars, NEW f \in Files,
                      worker[f] = "idle", worker'[f] # "idle"
               PROVE  ~reached
    OBVIOUS
  <2> TypeOK /\ RowInv /\ LifeInv /\ MarkInv
    BY DEF QInv
  <2>1. CASE Aside \/ BeginPass \/ EndPass \/ PauseRows \/ ResumeRows \/ Start \/ Crash
    BY <2>1, AsideFacts DEF BeginPass, EndPass, PauseRows, ResumeRows, Start, Crash, workVars
  <2>2. ASSUME NEW g \in Files, SkipStale(g) \/ GiveBack(g) \/ Enqueue(g) PROVE FALSE
    BY <2>2 DEF SkipStale, GiveBack, Enqueue, At, workVars, TypeOK
  <2>3. ASSUME NEW g \in Files, Begin(g) \/ Stopped(g) \/ Ends(g) PROVE FALSE
    BY <2>3, BeginCases, EndCases DEF Moved, TypeOK
  <2>4. ASSUME NEW g \in Files, Claim(g) PROVE ~reached
    BY <2>4 DEF Claim, Loop, MarkInv
  <2> QED
    BY <2>1, <2>2, <2>3, <2>4, NextCases
<1> QED
  BY <1>1, PauseInvariant, PTL DEF Spec, StopMarkStops

=============================================================================

----------------------------- MODULE MirrorGroup -----------------------------
(***************************************************************************)
(* One mirror group in the queue of crates/rd-scheduler: links that point   *)
(* at the same file, of which one runs and the others wait as `skipped`.    *)
(* The dispatch pass judges a member by rows it read before, a failed       *)
(* attempt hands the turn on with two writes, the automatic retry and the   *)
(* sweep at the start take up what nobody holds, and a cancel or a resume   *)
(* moves the turn by hand.  Between any two reads and writes another task   *)
(* may run or the process may end.                                          *)
(*                                                                         *)
(* The members are numbered in the package's order.  The working states of  *)
(* an attempt are one here, `resolving`, and of the conditions of a start   *)
(* only the group's own are kept (the others are Scheduler's).              *)
(***************************************************************************)
EXTENDS Integers, FiniteSets, DownloadStates

CONSTANTS
    N,             \* the members of the group
    WithAccount,   \* those downloaded through an account
    Kinds,         \* the failures met: "transient", "offline", "refused", "local"
    MaxRetries,    \* configured attempts of a retryable failure
    MaxRounds,     \* bound: rounds of the automatic retry in a behaviour
    Races,         \* the coincidences met, see RaceKind
    Ops,           \* the requests made: "cancel", "resume"
    MaxRequests,   \* bound: requests in a behaviour
    MaxCrashes     \* bound: ends of the process in a behaviour

Mirrors == 1 .. N

\* What the code does not rule out and its timing makes rare: an attempt fails
\* while a pass is at the group; a pass begins before an attempt has moved its
\* row; a pass or the automatic retry begins between the two writes of a hand-over;
\* a request meets a hand-over or an attempt that was cancelled and has not
\* stopped, or a pass meets such an attempt.
RaceKind == {"fail_in_pass", "late_start", "loop_in_handover", "request"}

ASSUME MirrorGroupAssumption ==
    /\ N \in Nat \ {0}
    /\ WithAccount \subseteq Mirrors
    /\ Kinds \subseteq {"transient", "offline", "refused", "local"}
    /\ Races \subseteq RaceKind
    /\ Ops \subseteq {"cancel", "resume"}
    /\ {MaxRetries, MaxRounds, MaxRequests, MaxCrashes} \subseteq Nat

VARIABLES
    state, error, tries,        \* the rows: state, last_error, retry_count
    due,                        \* the retry-waiting rows whose time has come
    pass, group,                \* the pass: its rows still to look at, the group as read
    retrying,                   \* the row the automatic retry found nobody in the way of
    worker, copy, next,         \* the attempts: step, the row started with, the successor
    cancelled,                  \* whose token is cancelled
    request,                    \* the request being served
    life,                       \* "up", "down", "recovered"
    rounds, requests, crashes,  \* bounds
    cut                         \* history: a crash cut a moving turn off with a member blocked

rowVars   == <<state, error, tries, due>>
passVars  == <<pass, group, retrying>>
workVars  == <<worker, copy, next, cancelled>>
boundVars == <<rounds, requests, crashes>>
vars == <<rowVars, passVars, workVars, request, life, boundVars, cut>>

None     == "none"
NoError  == [kind |-> None, code |-> None]
Error    == [kind : Kinds, code : {"own", "handover", "exhausted"}] \cup {NoError}
Row      == [state : DownloadState, error : Error, tries : Nat]
NoRow    == [state |-> None, error |-> NoError, tries |-> 0]
NoGroup  == [m \in Mirrors |-> NoRow]
NoRequest == [op |-> None, on |-> 0, at |-> "idle", left |-> {}, to |-> 0]

row(m) == [state |-> state[m], error |-> error[m], tries |-> tries[m]]
rows   == [m \in Mirrors |-> row(m)]

TypeOK ==
    /\ state \in [Mirrors -> DownloadState]
    /\ error \in [Mirrors -> Error]
    /\ tries \in [Mirrors -> Nat]
    /\ due \subseteq Mirrors
    /\ pass \in [Mirrors -> Row \cup {NoRow}]
    /\ group \in [Mirrors -> Row] \cup {NoGroup}
    /\ retrying \in Mirrors \cup {0}
    /\ worker \in [Mirrors -> {"idle", "claimed", "begin", "working", "failing",
                               "given_up", "tail"}]
    /\ copy \in [Mirrors -> Row \cup {NoRow}]
    /\ next \in [Mirrors -> Mirrors \cup {0}]
    /\ cancelled \subseteq {m \in Mirrors : worker[m] # "idle"}
    /\ request \in [op : Ops \cup {None}, on : Mirrors \cup {0},
                    at : {"idle", "read", "write", "wake", "promote", "stand", "queue"},
                    left : SUBSET Mirrors, to : Mirrors \cup {0}]
    /\ life \in {"up", "down", "recovered"}
    /\ rounds \in 0 .. MaxRounds
    /\ requests \in 0 .. MaxRequests
    /\ crashes \in 0 .. MaxCrashes
    /\ cut \in BOOLEAN

-----------------------------------------------------------------------------
(* The group.                                                              *)

has_taken_the_turn(s) == holds_the_file(s) \/ s = "completed"

is_contending(s) == s \in {"queued", "retry_wait", "paused"}

holds_the_group_open(s) == has_taken_the_turn(s) \/ is_contending(s) \/ s = "blocked"

\* The order of `best_candidate` on rows as read: untried before tried, with an
\* account before without, then the place in the package.
Before(read, m, n) ==
    LET burnt(k) == read[k].error # NoError IN
    \/ ~burnt(m) /\ burnt(n)
    \/ /\ burnt(m) = burnt(n)
       /\ \/ m \in WithAccount /\ n \notin WithAccount
          \/ (m \in WithAccount) = (n \in WithAccount) /\ m < n

IsBest(read, m, candidates) ==
    m \in candidates /\ \A n \in candidates \ {m} : Before(read, m, n)

\* Mutant: only the members further down the package are looked at.
Waiting_further_down(read, m) == {n \in m + 1 .. N : read[n].state = "skipped"}

Waiting(read, m) == {n \in Mirrors \ {m} : read[n].state = "skipped"}

\* The one path of a lifecycle transition: refused unless the row's state allows
\* it, and a queued row loses its error.
Transition(m, s) ==
    /\ can_transition_to(state[m], s)
    /\ state' = [state EXCEPT ![m] = s]
    /\ error' = IF s = "queued" THEN [error EXCEPT ![m] = NoError] ELSE error
    /\ due' = due \ {m}
    /\ UNCHANGED tries

\* `record_failure` asks for no transition.
RecordFailure(m, kind, code, retry) ==
    /\ state' = [state EXCEPT ![m] = CASE retry            -> "retry_wait"
                                       [] kind = "refused" -> "blocked"
                                       [] OTHER            -> "failed"]
    /\ error' = [error EXCEPT ![m] = [kind |-> kind, code |-> code]]
    /\ tries' = [tries EXCEPT ![m] = @ + 1]
    /\ due' = due \ {m}

\* A failed row back in the queue with a fresh budget, if it is still failed.
Requeued(m) ==
    IF state[m] = "failed"
    THEN /\ state' = [state EXCEPT ![m] = "queued"]
         /\ error' = [error EXCEPT ![m] = NoError]
         /\ tries' = [tries EXCEPT ![m] = 0]
         /\ UNCHANGED due
    ELSE UNCHANGED rowVars

-----------------------------------------------------------------------------
(* The supervise loop: dispatch passes and the automatic retry, one after   *)
(* another.                                                                 *)

Idle == pass = NoGroup /\ retrying = 0

NoWorker == \A m \in Mirrors : worker[m] = "idle"

NoRequestMet == "request" \in Races \/ (request = NoRequest /\ cancelled = {})

NoHandOverMet == "loop_in_handover" \in Races \/ \A m \in Mirrors : worker[m] # "given_up"

Startable(m) == state[m] = "queued" \/ m \in due

BeginPass ==
    /\ life = "up"
    /\ Idle /\ NoRequestMet
    /\ "late_start" \in Races \/ \A m \in Mirrors : worker[m] \notin {"claimed", "begin"}
    /\ "fail_in_pass" \in Races \/ \A m \in Mirrors : worker[m] # "failing"
    /\ NoHandOverMet
    /\ \E m \in Mirrors : Startable(m)
    /\ pass' = [m \in Mirrors |-> IF Startable(m) THEN row(m) ELSE NoRow]
    /\ UNCHANGED <<rowVars, group, retrying, workVars, request, life, boundVars, cut>>

NextInPass(m) ==
    /\ pass[m] # NoRow
    /\ \A n \in 1 .. m - 1 : pass[n] = NoRow

LastInPass(m) == \A n \in Mirrors \ {m} : pass[n] = NoRow

PassedOver(m) == pass' = [pass EXCEPT ![m] = NoRow]

\* The group is read once per pass, and again after a member stood down.
ReadGroup(m) ==
    /\ NextInPass(m)
    /\ group = NoGroup
    /\ group' = rows
    /\ UNCHANGED <<rowVars, pass, retrying, workVars, request, life, boundVars, cut>>

\* Mutant: only a sibling under way or done makes a member stand down.
StandsDown_when_taken(m) ==
    \E n \in Mirrors \ {m} : has_taken_the_turn(group[n].state)

\* Another member has the turn, or a better one contends for it.
StandsDown(m) ==
    LET siblings   == Mirrors \ {m}
        contenders == {n \in siblings : is_contending(group[n].state)} \cup {m}
        read       == [group EXCEPT ![m] = pass[m]]
    IN  \/ \E n \in siblings : has_taken_the_turn(group[n].state)
        \/ ~IsBest(read, m, contenders)

\* `mirror_stands_down`; a move the store refuses ends the pass.
StandDown(m) ==
    /\ NextInPass(m)
    /\ group # NoGroup
    /\ StandsDown(m)
    /\ \/ Transition(m, "skipped") /\ PassedOver(m)
       \/ /\ ~can_transition_to(state[m], "skipped")
          /\ pass' = NoGroup
          /\ UNCHANGED rowVars
    /\ group' = NoGroup
    /\ UNCHANGED <<retrying, workVars, request, life, boundVars, cut>>

untouchable(m) ==
    \/ worker[m] # "idle"
    \/ request.op = "cancel" /\ request.on = m /\ request.at \in {"read", "write"}

Claim(m) ==
    /\ NextInPass(m)
    /\ group # NoGroup
    /\ ~StandsDown(m)
    /\ IF untouchable(m)
       THEN UNCHANGED <<worker, copy>>
       ELSE /\ worker' = [worker EXCEPT ![m] = "claimed"]
            /\ copy' = [copy EXCEPT ![m] = pass[m]]
    /\ PassedOver(m)
    /\ group' = IF LastInPass(m) THEN NoGroup ELSE group
    /\ UNCHANGED <<rowVars, retrying, next, cancelled, request, life, boundVars, cut>>

\* Mutant: a mirror given up for another one is taken up as well.
may_pass_later_all(m) == error[m].kind \in {"transient", "offline", "local"}

may_pass_later(m) ==
    /\ error[m].code # "handover"
    /\ error[m].kind \in {"transient", "offline", "local"}

group_moved_on(m) == \E n \in Mirrors \ {m} : holds_the_group_open(state[n])

\* `auto_retry_pass` finds a row that is due ...
SeeFailed(m) ==
    /\ life = "up"
    /\ Idle /\ NoRequestMet
    /\ rounds < MaxRounds
    /\ state[m] = "failed"
    /\ may_pass_later(m)
    /\ ~group_moved_on(m)
    /\ NoHandOverMet
    /\ retrying' = m
    /\ rounds' = rounds + 1
    /\ UNCHANGED <<rowVars, pass, group, workVars, request, life, requests, crashes, cut>>

\* ... and queues it, if it is still failed.
AutoRetry ==
    /\ retrying # 0
    /\ Requeued(retrying)
    /\ retrying' = 0
    /\ UNCHANGED <<pass, group, workVars, request, life, boundVars, cut>>

TimePasses(m) ==
    /\ life = "up"
    /\ state[m] = "retry_wait"
    /\ m \notin due
    /\ due' = due \cup {m}
    /\ UNCHANGED <<state, error, tries, passVars, workVars, request, life, boundVars, cut>>

Supervise ==
    \/ BeginPass \/ AutoRetry
    \/ \E m \in Mirrors : ReadGroup(m) \/ StandDown(m) \/ Claim(m)

-----------------------------------------------------------------------------
(* An attempt.                                                             *)

At(m, step) == worker' = [worker EXCEPT ![m] = step]

\* The worker asks for the row to move to `s`; a refused move ends the attempt.
Advance(m, s, step) ==
    /\ \/ Transition(m, s) /\ At(m, step)
       \/ ~can_transition_to(state[m], s) /\ At(m, "tail") /\ UNCHANGED rowVars
    /\ UNCHANGED <<passVars, copy, next, cancelled, request, life, boundVars, cut>>

\* A row read as waiting for a retry is queued first.
Begin(m) ==
    \/ worker[m] = "claimed" /\ copy[m].state = "retry_wait" /\ Advance(m, "queued", "begin")
    \/ worker[m] = "claimed" /\ copy[m].state = "queued" /\ Advance(m, "resolving", "working")
    \/ worker[m] = "begin" /\ Advance(m, "resolving", "working")

Completed(m) ==
    /\ worker[m] = "working"
    /\ state' = [state EXCEPT ![m] = "completed"]
    /\ At(m, "tail")
    /\ UNCHANGED <<error, tries, due, passVars, copy, next, cancelled, request, life,
                   boundVars, cut>>

\* The cancelled token is seen, and the row is written from the reason.
Stopped(m) ==
    /\ worker[m] = "working"
    /\ m \in cancelled
    /\ Advance(m, "cancelled", "tail")

\* `retry_at` has an answer: the failure is worth a retry and attempts are left.
Retries(m, kind) == kind # "refused" /\ copy[m].tries < MaxRetries

hands_over(m, kind) ==
    /\ kind # "local"
    /\ Retries(m, kind) => kind # "transient"

\* The member whose reason is the group's verdict, and that reason.
Verdict(m, kind) ==
    LET leader == IF m = 1 THEN copy[m].error ELSE error[1]
    IN  IF leader = NoError THEN kind ELSE leader.kind

\* `record_error`, and the reading of `hand_over`: what is to be recorded, and
\* the mirror that takes over, if one waits.
Fail(m) ==
    /\ worker[m] = "working"
    /\ "fail_in_pass" \in Races \/ pass = NoGroup
    /\ "request" \in Races \/ request = NoRequest
    /\ \E kind \in Kinds :
          LET waiting == Waiting(rows, m)
              code    == CASE ~hands_over(m, kind)                 -> "own"
                           [] hands_over(m, kind) /\ waiting # {}  -> "handover"
                           [] hands_over(m, kind) /\ waiting = {}
                              /\ Retries(m, kind)                  -> "own"
                           [] OTHER                                -> "exhausted"
              why     == IF code = "exhausted" THEN Verdict(m, kind) ELSE kind
          IN  /\ copy' = [copy EXCEPT ![m].error = [kind |-> why, code |-> code]]
              /\ IF code = "handover"
                 THEN \E n \in waiting : /\ IsBest(rows, n, waiting)
                                         /\ next' = [next EXCEPT ![m] = n]
                 ELSE UNCHANGED next
    /\ At(m, "failing")
    /\ UNCHANGED <<rowVars, passVars, cancelled, request, life, boundVars, cut>>

\* The failure is recorded, for a mirror that hands over without a retry ...
Record(m) ==
    /\ worker[m] = "failing"
    /\ LET why == copy[m].error IN
       RecordFailure(m, why.kind, why.code, why.code = "own" /\ Retries(m, why.kind))
    /\ At(m, IF copy[m].error.code = "handover" THEN "given_up" ELSE "tail")
    /\ UNCHANGED <<passVars, copy, next, cancelled, request, life, boundVars, cut>>

\* ... and the next mirror is queued.
Promote(m) ==
    /\ worker[m] = "given_up"
    /\ \/ Transition(next[m], "queued")
       \/ ~can_transition_to(state[next[m]], "queued") /\ UNCHANGED rowVars
    /\ At(m, "tail")
    /\ UNCHANGED <<passVars, copy, next, cancelled, request, life, boundVars, cut>>

\* Mutant: the token of the attempt is left behind.
GiveBack_keeping_token(m) ==
    /\ worker[m] = "tail"
    /\ At(m, "idle")
    /\ copy' = [copy EXCEPT ![m] = NoRow]
    /\ next' = [next EXCEPT ![m] = 0]
    /\ UNCHANGED <<rowVars, passVars, cancelled, request, life, boundVars, cut>>

GiveBack(m) ==
    /\ worker[m] = "tail"
    /\ At(m, "idle")
    /\ copy' = [copy EXCEPT ![m] = NoRow]
    /\ next' = [next EXCEPT ![m] = 0]
    /\ cancelled' = cancelled \ {m}
    /\ UNCHANGED <<rowVars, passVars, request, life, boundVars, cut>>

Worker(m) ==
    \/ Begin(m) \/ Completed(m) \/ Stopped(m) \/ Fail(m)
    \/ Record(m) \/ Promote(m) \/ GiveBack(m)

-----------------------------------------------------------------------------
(* Requests.                                                               *)

Proceed(step) == request' = [request EXCEPT !.at = step]

Ask(op, m) ==
    /\ life = "up"
    /\ op \in Ops
    /\ request = NoRequest
    /\ \/ "request" \in Races
       \/ /\ Idle /\ cancelled = {}
          /\ \A n \in Mirrors : worker[n] \notin {"failing", "given_up"}
    /\ requests < MaxRequests
    /\ requests' = requests + 1
    /\ request' = [NoRequest EXCEPT !.op = op, !.on = m, !.at = "read"]
    /\ UNCHANGED <<rowVars, passVars, workVars, life, rounds, crashes, cut>>

\* `cancel` under the lock: a running attempt is told, an idle row written.
CancelToken ==
    /\ request.op = "cancel" /\ request.at = "read"
    /\ LET running == worker[request.on] # "idle" IN
       /\ cancelled' = IF running THEN cancelled \cup {request.on} ELSE cancelled
       /\ Proceed(IF running THEN "wake" ELSE "write")
    /\ UNCHANGED <<rowVars, passVars, worker, copy, next, life, boundVars, cut>>

CancelRow ==
    /\ request.op = "cancel" /\ request.at = "write"
    /\ \/ Transition(request.on, "cancelled") /\ Proceed("wake")
       \/ /\ ~can_transition_to(state[request.on], "cancelled")
          /\ request' = NoRequest
          /\ UNCHANGED rowVars
    /\ UNCHANGED <<passVars, workVars, life, boundVars, cut>>

\* `wake_mirror`: the best waiting mirror is found ...
WakeMirror ==
    /\ request.op = "cancel" /\ request.at = "wake"
    /\ LET waiting == Waiting(rows, request.on) IN
       IF waiting = {}
       THEN request' = NoRequest
       ELSE \E n \in waiting : /\ IsBest(rows, n, waiting)
                               /\ request' = [request EXCEPT !.at = "promote", !.to = n]
    /\ UNCHANGED <<rowVars, passVars, workVars, life, boundVars, cut>>

\* ... and queued.
WakePromote ==
    /\ request.at = "promote"
    /\ \/ Transition(request.to, "queued")
       \/ ~can_transition_to(state[request.to], "queued") /\ UNCHANGED rowVars
    /\ request' = NoRequest
    /\ UNCHANGED <<passVars, workVars, life, boundVars, cut>>

\* `resume`: a waiting mirror is started only where no other has the turn, and
\* the ones that contend for it stand down.
ResumeRead ==
    /\ request.op = "resume" /\ request.at = "read"
    /\ LET m == request.on
           siblings == Mirrors \ {m}
       IN  IF state[m] # "skipped"
           THEN Proceed("queue")
           ELSE IF \E n \in siblings : has_taken_the_turn(state[n])
           THEN request' = NoRequest
           ELSE request' = [request EXCEPT !.at = "stand",
                                           !.left = {n \in siblings : is_contending(state[n])}]
    /\ UNCHANGED <<rowVars, passVars, workVars, life, boundVars, cut>>

ResumeStand ==
    /\ request.at = "stand"
    /\ IF request.left = {}
       THEN Proceed("queue") /\ UNCHANGED rowVars
       ELSE \E n \in request.left :
              \/ Transition(n, "skipped") /\ request' = [request EXCEPT !.left = @ \ {n}]
              \/ /\ ~can_transition_to(state[n], "skipped")
                 /\ request' = NoRequest
                 /\ UNCHANGED rowVars
    /\ UNCHANGED <<passVars, workVars, life, boundVars, cut>>

ResumeQueue ==
    /\ request.at = "queue"
    /\ \/ state[request.on] = "failed" /\ Requeued(request.on)
       \/ state[request.on] # "failed" /\ Transition(request.on, "queued")
       \/ ~can_transition_to(state[request.on], "queued") /\ UNCHANGED rowVars
    /\ request' = NoRequest
    /\ UNCHANGED <<passVars, workVars, life, boundVars, cut>>

Handler ==
    \/ CancelToken \/ CancelRow \/ WakeMirror \/ WakePromote
    \/ ResumeRead \/ ResumeStand \/ ResumeQueue

-----------------------------------------------------------------------------
(* The end of the process and its start.                                    *)

Crash ==
    /\ life # "down"
    /\ crashes < MaxCrashes
    /\ crashes' = crashes + 1
    /\ life' = "down"
    /\ pass' = NoGroup /\ group' = NoGroup /\ retrying' = 0
    /\ worker' = [m \in Mirrors |-> "idle"]
    /\ copy' = NoGroup
    /\ next' = [m \in Mirrors |-> 0]
    /\ cancelled' = {}
    /\ request' = NoRequest
    /\ cut' = \/ cut
              \/ /\ request # NoRequest \/ \E m \in Mirrors : worker[m] = "given_up"
                 /\ \E m \in Mirrors : state[m] = "blocked"
    /\ UNCHANGED <<rowVars, rounds, requests>>

\* `recover_interrupted` queues the rows an attempt was on, and leaves their
\* errors where they are.
Recover ==
    /\ life = "down"
    /\ state' = [m \in Mirrors |-> IF is_working(state[m]) THEN "queued" ELSE state[m]]
    /\ life' = "recovered"
    /\ UNCHANGED <<error, tries, due, passVars, workVars, request, boundVars, cut>>

\* Mutant: the start does not look for groups left without a turn.
Sweep_not ==
    /\ life = "recovered"
    /\ life' = "up"
    /\ UNCHANGED <<rowVars, passVars, workVars, request, boundVars, cut>>

\* `recover_stalled_mirror_groups`: a group nobody holds open gets its best
\* waiting mirror queued.
Sweep ==
    /\ life = "recovered"
    /\ LET waiting == Waiting(rows, 0) IN
       IF (\E m \in Mirrors : holds_the_group_open(state[m])) \/ waiting = {}
       THEN UNCHANGED rowVars
       ELSE \E m \in waiting : IsBest(rows, m, waiting) /\ Transition(m, "queued")
    /\ life' = "up"
    /\ UNCHANGED <<passVars, workVars, request, boundVars, cut>>

\* The enqueue queues the member the LinkGrabber selected, which is put first,
\* and lets the others wait.
Init ==
    /\ state = [m \in Mirrors |-> IF m = 1 THEN "queued" ELSE "skipped"]
    /\ error = [m \in Mirrors |-> NoError]
    /\ tries = [m \in Mirrors |-> 0]
    /\ due = {}
    /\ pass = NoGroup /\ group = NoGroup /\ retrying = 0
    /\ worker = [m \in Mirrors |-> "idle"]
    /\ copy = NoGroup
    /\ next = [m \in Mirrors |-> 0]
    /\ cancelled = {}
    /\ request = NoRequest
    /\ life = "up"
    /\ rounds = 0 /\ requests = 0 /\ crashes = 0
    /\ cut = FALSE

Next ==
    \/ Supervise \/ Handler \/ Crash \/ Recover \/ Sweep
    \/ \E m \in Mirrors : \/ SeeFailed(m) \/ TimePasses(m) \/ Worker(m)
                          \/ \E op \in Ops : Ask(op, m)

Spec == Init /\ [][Next]_vars

\* The loop ticks, attempts go on, time passes and a process that ended is
\* started; nobody has to ask for anything.
FairSpec ==
    /\ Spec
    /\ WF_vars(Supervise) /\ WF_vars(Handler) /\ WF_vars(Recover) /\ WF_vars(Sweep)
    /\ \A m \in Mirrors : WF_vars(Worker(m)) /\ WF_vars(TimePasses(m))

-----------------------------------------------------------------------------
(* Properties.                                                             *)

\* One copy is downloaded: no two members of the group are at work or finished
\* together, over hand-overs, restarts and rounds of the automatic retry
\* (`mirror_stands_down`, `hand_over`).
OneAtATime ==
    \A m, n \in Mirrors :
        has_taken_the_turn(state[m]) /\ has_taken_the_turn(state[n]) => m = n

\* A mirror that was given up for another one stays given up: neither the
\* automatic retry, the sweep of a start nor a pass that read it before brings
\* it back (`HANDOVER_CODE`).
GivenUpStays ==
    [][\A m \in Mirrors :
          error[m].code = "handover" => error'[m] = error[m] \/ request # NoRequest]_vars

\* The group is given up only when every member was tried: where the verdict is
\* written, nobody waits who was never started (`EXHAUSTED_CODE`).
VerdictAfterAll ==
    [][\A m \in Mirrors :
          error'[m] # error[m] /\ error'[m].code = "exhausted" =>
              \A n \in Mirrors : ~(state[n] = "skipped" /\ error[n] = NoError)]_vars

Quiet ==
    /\ life = "up"
    /\ Idle
    /\ request = NoRequest
    /\ NoWorker

LocallyFailed == \E m \in Mirrors : state[m] = "failed" /\ error[m].kind = "local"

\* No group waits for a link that is never coming: where nothing is under way
\* and a mirror waits, some member holds the group open, unless this machine
\* made the last attempt fail (`wake_mirror`, `recover_stalled_mirror_groups`).
TurnIsHeld ==
    Quiet /\ ~LocallyFailed /\ (\E m \in Mirrors : state[m] = "skipped")
        => \E m \in Mirrors : holds_the_group_open(state[m])

\* The group comes to an end: a member completes, or each of them was tried,
\* or this machine failed.  A crash between the two writes of a hand-over or
\* of a request while a member is blocked is the exception: the sweep takes the
\* blocked row for one that holds the group open.
GroupEnds ==
    <>[](/\ Quiet
         /\ \/ \E m \in Mirrors : state[m] = "completed"
            \/ \A m \in Mirrors : state[m] # "skipped"
            \/ LocallyFailed
            \/ cut)
=============================================================================

--------------------------- MODULE MirrorTurnProofs ---------------------------
(***************************************************************************)
(* The theorems about MirrorGroup that also need that attempts fail and     *)
(* hand over between the loop's looks at the group (Races = {}): who was    *)
(* given up stays given up, the verdict is written after everyone was       *)
(* tried, and a group in which a mirror waits is held open.                 *)
(***************************************************************************)
EXTENDS MirrorGroupProofs

-----------------------------------------------------------------------------
(* The inductive invariant.                                                *)

\* With no coincidence: one attempt at a time, which fails and hands over while
\* nothing else goes on.
Engaged(m) == worker[m] \notin {"idle", "tail"}

AloneInv == \A m, n \in Mirrors : Engaged(m) /\ Engaged(n) => m = n

FailInv ==
    \A m \in Mirrors :
        /\ worker[m] \in {"failing", "given_up"} => pass = NoGroup /\ request.at = "idle"
        /\ worker[m] = "failing" =>
              LET why == copy[m].error IN
              /\ why.code = "exhausted" => \A n \in Mirrors : state[n] # "skipped"
              /\ why.code = "handover" => state[next[m]] = "skipped"
              /\ why.code = "own" => Retries(m, why.kind) \/ why.kind = "local"
              /\ why.code # None
        /\ worker[m] = "given_up" => state[next[m]] = "skipped"

\* Who was given up is out of the queue, and whoever is started or retried is not
\* one of them.
CodeInv ==
    /\ \A m \in Mirrors :
          /\ Starting(m) => state[m] \in {"queued", "retry_wait", "skipped"}
          /\ error[m].code = "handover" => state[m] \in {"failed", "blocked", "cancelled"}
    /\ retrying # 0 => state[retrying] = "failed" /\ error[retrying].code # "handover"

HandInv == AloneInv /\ FailInv /\ CodeInv

Waits(m) == state[m] = "skipped"
Open(m)  == holds_the_group_open(state[m])

\* A cancel told no one but its own member; the members a resume has still to
\* stand down are in its way or have taken the turn.
AskInv ==
    /\ request.op = "resume" \/ request.at \in {"read", "write"} => cancelled = {}
    /\ request.at # "idle" => cancelled \subseteq {request.on}
    /\ request.at = "promote" =>
          request.to # request.on /\ (Waits(request.to) \/ Open(request.to))
    /\ request.at = "stand" =>
          /\ request.on \notin request.left
          /\ Waits(request.on) \/ Open(request.on)
          /\ \A n \in request.left : is_startable(state[n]) \/ Taken(n)

\* Who keeps the group going: a member that holds it open and is not about to be
\* cancelled, this machine's failure ...
Good(m)  == Open(m) /\ (m \in cancelled => worker[m] = "tail")
Local(m) == state[m] = "failed" /\ error[m].kind = "local"
Kept     == \E m \in Mirrors : Good(m) \/ Local(m)

\* ... or the request under way that is about to.
Promised ==
    \/ request.at = "wake" /\ ~Waits(request.on)
    \/ request.at = "promote"
    \/ request.at \in {"stand", "queue"} /\ Waits(request.on)

HeldInv ==
    /\ life = "up"
    /\ \A m \in Mirrors : worker[m] # "given_up"
    /\ \E m \in Mirrors : Waits(m)
    => Kept \/ Promised

\* Whoever had the turn or contended for it when the group was read still does.
GroupInv ==
    \A m \in Mirrors :
        /\ group # NoGroup
        /\ has_taken_the_turn(group[m].state) \/ is_contending(group[m].state)
        => Taken(m) \/ is_startable(state[m])

CInv == MInv /\ HandInv /\ AskInv /\ HeldInv /\ GroupInv

-----------------------------------------------------------------------------
(* The attempt and the rows of those given up.                             *)

LEMMA CalmIsSeparate ==
    ASSUME Races = {} PROVE Separate
  BY DEF Separate

\* An attempt that has its row at work is the only one.
LEMMA NextAlone ==
    ASSUME MInv, AloneInv, FailInv, [Next]_vars
    PROVE  AloneInv'
<1> TypeOK /\ WorkInv /\ OrderInv
  BY DEF MInv
<1> USE DEF rowVars, passVars, workVars, boundVars
<1>k. (\A m \in Mirrors : Engaged(m)' => Engaged(m)) => AloneInv'
  BY DEF AloneInv
<1>u. UNCHANGED worker => AloneInv'
  BY DEF AloneInv, Engaged
<1>1. CASE Supervise /\ UNCHANGED worker
  BY <1>1, <1>u
<1>2. ASSUME NEW m \in Mirrors, Claim(m), ~UNCHANGED worker PROVE AloneInv'
  <2>1. worker' = [worker EXCEPT ![m] = "claimed"] /\ pass # NoGroup
    BY <1>2 DEF Claim, NextInPass, NoGroup
  <2>2. \A n \in Mirrors : ~Taken(n) /\ ~Starting(n)
    BY <1>2, ClaimedAlone
  <2>3. \A n \in Mirrors : worker[n] \notin {"working", "failing"}
    BY <2>2, Moves DEF WorkInv, Taken
  <2>4. \A n \in Mirrors : worker[n] # "given_up"
    BY <2>1 DEF FailInv
  <2>5. \A n \in Mirrors : ~Engaged(n)
    BY <2>2, <2>3, <2>4 DEF Engaged, Starting, TypeOK
  <2> QED
    BY <2>1, <2>5 DEF AloneInv, Engaged, TypeOK
<1>3. ASSUME NEW m \in Mirrors, SeeFailed(m) \/ TimePasses(m) PROVE AloneInv'
  BY <1>3, <1>u DEF SeeFailed, TimePasses
<1>4. ASSUME NEW m \in Mirrors, Worker(m) PROVE AloneInv'
  <2>1. /\ \A n \in Mirrors \ {m} : worker'[n] = worker[n]
        /\ Engaged(m)' => Engaged(m)
    BY <1>4 DEF Worker, Begin, Stopped, Advance, Completed, Fail, Record, Promote, GiveBack,
       At, TypeOK, Engaged
  <2> QED
    BY <1>k, <2>1 DEF Engaged
<1>5. ASSUME NEW op \in Ops, NEW m \in Mirrors, Ask(op, m) PROVE AloneInv'
  BY <1>5, <1>u DEF Ask
<1>6. CASE Handler
  BY <1>6, <1>u DEF Handler, CancelToken, CancelRow, WakeMirror, WakePromote, ResumeRead,
     ResumeStand, ResumeQueue
<1>7. CASE Crash
  BY <1>7, <1>k DEF Crash, Engaged
<1>8. CASE Recover \/ Sweep \/ UNCHANGED vars
  BY <1>8, <1>u DEF Recover, Sweep, vars
<1>9. Supervise /\ ~UNCHANGED worker => \E m \in Mirrors : Claim(m)
  BY DEF Supervise, BeginPass, AutoRetry, ReadGroup, StandDown
<1> QED
  BY <1>1, <1>2, <1>3, <1>4, <1>5, <1>6, <1>7, <1>8, <1>9 DEF Next

\* A failed attempt knows whom it hands over to, or that nobody waits, and nothing
\* else is under way until it has.
LEMMA NextFail ==
    ASSUME Races = {}, MInv, HandInv, [Next]_vars
    PROVE  FailInv'
<1> TypeOK /\ WorkInv /\ OrderInv /\ AloneInv /\ FailInv /\ CodeInv
  BY DEF MInv, HandInv
<1> USE DEF rowVars, passVars, workVars, boundVars
<1> DEFINE Fails(m) == worker[m] \in {"failing", "given_up"}
<1>n. (\A m \in Mirrors : ~Fails(m)') => FailInv'
  BY DEF FailInv
<1>u. UNCHANGED <<state, worker, copy, next, pass, request>> => FailInv'
  BY DEF FailInv, Retries
<1>w. (\A m \in Mirrors : ~Fails(m)) /\ UNCHANGED worker => FailInv'
  BY <1>n
<1>p. pass # NoGroup \/ request.at # "idle" => \A m \in Mirrors : ~Fails(m)
  BY DEF FailInv
<1>1. CASE BeginPass
  BY <1>1, <1>w DEF BeginPass, NoHandOverMet
<1>2. ASSUME NEW m \in Mirrors, ReadGroup(m) \/ SeeFailed(m) \/ TimePasses(m) PROVE FailInv'
  BY <1>2, <1>u DEF ReadGroup, SeeFailed, TimePasses
<1>3. ASSUME NEW m \in Mirrors, StandDown(m) \/ Claim(m) PROVE FailInv'
  <2>1. pass # NoGroup
    BY <1>3 DEF StandDown, Claim, NextInPass, NoGroup
  <2>2. worker' = worker \/ worker' = [worker EXCEPT ![m] = "claimed"]
    BY <1>3 DEF StandDown, Claim
  <2> QED
    BY <2>1, <2>2, <1>n, <1>p DEF TypeOK
<1>4. CASE AutoRetry
  <2>1. /\ retrying \in Mirrors /\ state[retrying] = "failed"
        /\ UNCHANGED <<worker, copy, next, pass, request>>
        /\ Queued(retrying)
    BY <1>4, QueuedBy DEF AutoRetry, TypeOK, CodeInv, Requeued
  <2>2. \A n \in Mirrors : /\ state[n] = "skipped" => state'[n] = "skipped"
                           /\ state'[n] = "skipped" => state[n] = "skipped"
    BY <2>1 DEF Queued, TypeOK
  <2>3. \A n \in Mirrors : Fails(n) /\ next[n] # 0 => next[n] \in Mirrors
    BY DEF TypeOK
  <2> QED
    BY <2>1, <2>2, <2>3 DEF FailInv, Retries, WorkInv
<1>5. ASSUME NEW m \in Mirrors, Engaged(m), ~Fails(m)',
             \A n \in Mirrors \ {m} : worker'[n] = worker[n]
      PROVE  FailInv'
  BY <1>5, <1>n DEF AloneInv, Engaged
<1>6. ASSUME NEW m \in Mirrors, Begin(m) \/ Stopped(m) \/ Completed(m) \/ Promote(m)
      PROVE  FailInv'
  <2>1. /\ Engaged(m) /\ worker'[m] \in {"begin", "working", "tail"}
        /\ \A n \in Mirrors \ {m} : worker'[n] = worker[n]
    BY <1>6 DEF Begin, Stopped, Advance, Completed, Promote, At, TypeOK, Engaged
  <2> QED
    BY <2>1, <1>5
<1>7. ASSUME NEW m \in Mirrors, Fail(m) PROVE FailInv'
  <2>1. /\ worker[m] = "working" /\ worker'[m] = "failing"
        /\ \A n \in Mirrors \ {m} : worker'[n] = worker[n]
        /\ UNCHANGED <<state, pass, request>> /\ pass = NoGroup /\ request.at = "idle"
        /\ copy'[m].tries = copy[m].tries
    BY <1>7, FailCases, RequestFields DEF TypeOK
  <2>2. \A n \in Mirrors \ {m} : ~Fails(n)'
    BY <2>1 DEF AloneInv, Engaged
  <2> DEFINE why == copy'[m].error
  <2>3. /\ why.code = "exhausted" => Waiting(rows, m) = {}
        /\ why.code = "handover" => next'[m] \in Waiting(rows, m)
        /\ why.code = "own" => Retries(m, why.kind) \/ why.kind = "local"
        /\ why.code \in {"own", "handover", "exhausted"}
    BY <1>7, FailCases
  <2>4. \A n \in Waiting(rows, m) : state[n] = "skipped"
    BY RowTyped DEF Waiting
  <2>5. \A n \in Mirrors : state[n] = "skipped" => n \in Waiting(rows, m)
    BY <2>1, RowTyped DEF Waiting, WorkInv
  <2>6. \A kind \in {why.kind} : Retries(m, kind)' <=> Retries(m, kind)
    BY <2>1 DEF Retries
  <2> HIDE DEF why
  <2>7. /\ why.code = "exhausted" => \A n \in Mirrors : state'[n] # "skipped"
        /\ why.code = "handover" => state'[next'[m]] = "skipped"
        /\ why.code # None
    BY <2>1, <2>3, <2>4, <2>5 DEF None
  <2> QED
    BY <2>1, <2>2, <2>3, <2>6, <2>7 DEF FailInv, why
<1>8. ASSUME NEW m \in Mirrors, Record(m) PROVE FailInv'
  <2>1. PICK s \in {"retry_wait", "blocked", "failed"} : state' = [state EXCEPT ![m] = s]
    BY <1>8, RecordCases
  <2>2. /\ worker[m] = "failing" /\ UNCHANGED <<copy, next, pass, request>>
        /\ worker' = [worker EXCEPT ![m] = IF copy[m].error.code = "handover"
                                           THEN "given_up" ELSE "tail"]
    BY <1>8, RecordCases
  <2>3. /\ worker'[m] \in {"given_up", "tail"}
        /\ worker'[m] = "given_up" => copy[m].error.code = "handover"
        /\ \A n \in Mirrors \ {m} : worker'[n] = worker[n]
    BY <2>2 DEF TypeOK
  <2>4. \A n \in Mirrors \ {m} : ~Fails(n)'
    BY <2>2, <2>3 DEF AloneInv, Engaged
  <2>5. worker'[m] = "given_up" => state[next[m]] = "skipped" /\ next[m] \in Mirrors \ {m}
    BY <2>2, <2>3 DEF FailInv, WorkInv, TypeOK
  <2>6. worker'[m] = "given_up" => state'[next'[m]] = "skipped"
    BY <2>1, <2>2, <2>5 DEF TypeOK
  <2>7. pass' = NoGroup /\ request'.at = "idle"
    BY <2>2 DEF FailInv
  <2> QED
    BY <2>3, <2>4, <2>6, <2>7 DEF FailInv
<1>9. ASSUME NEW m \in Mirrors, GiveBack(m) PROVE FailInv'
  <2>1. /\ worker'[m] = "idle" /\ UNCHANGED <<state, pass, request>>
        /\ \A n \in Mirrors \ {m} :
              worker'[n] = worker[n] /\ copy'[n] = copy[n] /\ next'[n] = next[n]
    BY <1>9 DEF GiveBack, At, TypeOK
  <2> QED
    BY <2>1 DEF FailInv, Retries
<1>10. ASSUME NEW op \in Ops, NEW m \in Mirrors, Ask(op, m) PROVE FailInv'
  BY <1>10, <1>w DEF Ask
<1>11. CASE Handler
  <2>1. request.at # "idle" /\ UNCHANGED worker
    BY <1>11 DEF Handler, CancelToken, CancelRow, WakeMirror, WakePromote, ResumeRead,
       ResumeStand, ResumeQueue
  <2> QED
    BY <2>1, <1>p, <1>w
<1>12. CASE Crash
  BY <1>12, <1>n DEF Crash
<1>13. CASE Recover \/ Sweep
  BY <1>13, <1>w DEF Recover, Sweep, OrderInv
<1>14. CASE UNCHANGED vars
  BY <1>14, <1>u DEF vars
<1> QED
  BY <1>1, <1>2, <1>3, <1>4, <1>6, <1>7, <1>8, <1>9, <1>10, <1>11, <1>12, <1>13, <1>14
     DEF Next, Supervise, Worker

\* A row put into the queue has no error left.
LEMMA QueuedCode ==
    ASSUME TypeOK, CodeInv, NEW n \in Mirrors, Queued(n) \/ UNCHANGED rowVars,
           retrying' \in {0, retrying}, retrying' # 0 => state[n] # "failed",
           \A m \in Mirrors : Starting(m)' => Starting(m)
    PROVE  CodeInv'
<1>1. CASE UNCHANGED rowVars
  BY <1>1 DEF rowVars, CodeInv
<1>2. CASE Queued(n)
  <2>1. /\ state' = [state EXCEPT ![n] = "queued"] /\ error' = [error EXCEPT ![n] = NoError]
    BY <1>2 DEF Queued
  <2>2. error'[n].code # "handover"
    BY <2>1 DEF TypeOK, NoError, None
  <2>3. \A m \in Mirrors \ {n} : state'[m] = state[m] /\ error'[m] = error[m]
    BY <2>1 DEF TypeOK
  <2>4. state'[n] = "queued"
    BY <2>1 DEF TypeOK
  <2>5. retrying' # 0 => retrying' \in Mirrors \ {n}
    BY DEF CodeInv, TypeOK
  <2> QED
    BY <2>2, <2>3, <2>4, <2>5 DEF CodeInv
<1> QED
  BY <1>1, <1>2

\* Whoever was not given up may move, and those given up out of the queue.
LEMMA SetCode ==
    ASSUME TypeOK, CodeInv, NEW n \in Mirrors, NEW s,
           \/ state' = [state EXCEPT ![n] = s] /\ UNCHANGED error
           \/ UNCHANGED <<state, error>>,
           \/ s = "cancelled" /\ ~Starting(n)'
           \/ error[n].code # "handover" /\ (s = "skipped" \/ ~Starting(n)'),
           retrying' \in {0, retrying}, retrying' # 0 => state[n] # "failed",
           \A m \in Mirrors : Starting(m)' => Starting(m)
    PROVE  CodeInv'
<1>1. CASE UNCHANGED <<state, error>>
  BY <1>1 DEF CodeInv
<1>2. CASE state' = [state EXCEPT ![n] = s] /\ UNCHANGED error
  <2>1. \A m \in Mirrors \ {n} : state'[m] = state[m]
    BY <1>2 DEF TypeOK
  <2>2. state'[n] = s
    BY <1>2 DEF TypeOK
  <2>3. retrying' # 0 => retrying' \in Mirrors \ {n}
    BY DEF CodeInv, TypeOK
  <2> QED
    BY <1>2, <2>1, <2>2, <2>3 DEF CodeInv
<1> QED
  BY <1>1, <1>2

LEMMA NextCode ==
    ASSUME Races = {}, MInv, HandInv, AskInv, [Next]_vars
    PROVE  CodeInv'
<1> TypeOK /\ WorkInv /\ OrderInv /\ PassInv /\ AloneInv /\ FailInv /\ CodeInv
  BY DEF MInv, HandInv
<1> USE DEF rowVars, passVars, workVars, boundVars
<1>u. UNCHANGED <<state, error, retrying, worker>> => CodeInv'
  BY DEF CodeInv, Starting
<1>s. UNCHANGED worker => \A m \in Mirrors : Starting(m)' => Starting(m)
  BY DEF Starting
<1>c. \A m \in Mirrors : state[m] \notin {"failed", "blocked", "cancelled"}
                            => error[m].code # "handover"
  BY DEF CodeInv
<1>1. CASE BeginPass
  BY <1>1, <1>u DEF BeginPass
<1>2. ASSUME NEW m \in Mirrors, ReadGroup(m) \/ TimePasses(m) PROVE CodeInv'
  BY <1>2, <1>u DEF ReadGroup, TimePasses
<1>3. ASSUME NEW m \in Mirrors, StandDown(m) PROVE CodeInv'
  <2>1. is_startable(state[m]) /\ pass # NoGroup
    BY <1>3 DEF StandDown, NextInPass, InPass, PassInv, NoGroup
  <2>2. retrying = 0 /\ UNCHANGED <<retrying, worker>>
    BY <1>3, <2>1 DEF OrderInv, StandDown
  <2>3. \/ state' = [state EXCEPT ![m] = "skipped"] /\ UNCHANGED error
        \/ UNCHANGED <<state, error>>
    BY <1>3 DEF StandDown, Transition
  <2>4. error[m].code # "handover"
    BY <2>1, <1>c DEF is_startable
  <2> QED
    BY <2>2, <2>3, <2>4, <1>s, SetCode
<1>4. ASSUME NEW m \in Mirrors, Claim(m) PROVE CodeInv'
  <2>1. is_startable(state[m])
    BY <1>4, ClaimedAlone
  <2>2. /\ UNCHANGED <<state, error, retrying>>
        /\ worker' = worker \/ worker' = [worker EXCEPT ![m] = "claimed"]
    BY <1>4 DEF Claim
  <2>3. \A n \in Mirrors : Starting(n)' => Starting(n) \/ n = m
    BY <2>2 DEF Starting, TypeOK
  <2> QED
    BY <2>1, <2>2, <2>3 DEF CodeInv, is_startable
<1>5. ASSUME NEW m \in Mirrors, SeeFailed(m) PROVE CodeInv'
  BY <1>5, <1>s DEF SeeFailed, may_pass_later, CodeInv
<1>6. CASE AutoRetry
  <2>1. /\ retrying \in Mirrors /\ Requeued(retrying) /\ retrying' = 0 /\ UNCHANGED worker
    BY <1>6 DEF AutoRetry, TypeOK
  <2>2. Queued(retrying) \/ UNCHANGED rowVars
    BY <2>1, QueuedBy
  <2> QED
    BY <2>1, <2>2, <1>s, QueuedCode
<1>7. ASSUME NEW m \in Mirrors, Begin(m) PROVE CodeInv'
  <2>1. /\ Starting(m) /\ UNCHANGED retrying
        /\ state[m] \in {"queued", "retry_wait", "skipped"}
    BY <1>7, BeginCases DEF CodeInv
  <2>2. \A n \in Mirrors : Starting(n)' => Starting(n)
    BY <1>7, <2>1, BeginCases DEF At, Starting, TypeOK
  <2>3. CASE Queued(m) \/ UNCHANGED rowVars
    BY <2>1, <2>2, <2>3, QueuedCode
  <2>4. CASE /\ state' = [state EXCEPT ![m] = "resolving"] /\ UNCHANGED error
             /\ At(m, "working")
    <3>1. ~Starting(m)'
      BY <2>4 DEF At, Starting, TypeOK
    <3>2. error[m].code # "handover"
      BY <2>1, <1>c
    <3> QED
      BY <2>1, <2>2, <2>4, <3>1, <3>2, SetCode
  <2> QED
    BY <1>7, <2>3, <2>4, BeginCases
<1>8. ASSUME NEW m \in Mirrors, Completed(m) \/ Stopped(m) PROVE CodeInv'
  <2>1. /\ state[m] = "resolving" /\ UNCHANGED <<error, retrying>> /\ At(m, "tail")
        /\ \/ \E s \in {"completed", "cancelled"} : state' = [state EXCEPT ![m] = s]
           \/ UNCHANGED state
    BY <1>8 DEF Completed, Stopped, Advance, Transition, WorkInv
  <2>2. /\ \A n \in Mirrors : Starting(n)' => Starting(n)
        /\ ~Starting(m)'
    BY <2>1 DEF At, Starting, TypeOK
  <2>3. error[m].code # "handover"
    BY <2>1, <1>c
  <2> QED
    BY <2>1, <2>2, <2>3, SetCode
<1>9. ASSUME NEW m \in Mirrors, Fail(m) PROVE CodeInv'
  <2>1. UNCHANGED <<state, error, retrying>> /\ At(m, "failing")
    BY <1>9, FailCases DEF At
  <2> QED
    BY <2>1, StartingKept DEF CodeInv
<1>10. ASSUME NEW m \in Mirrors, Record(m) PROVE CodeInv'
  <2>1. PICK s \in {"retry_wait", "blocked", "failed"} :
          /\ state' = [state EXCEPT ![m] = s]
          /\ copy[m].error.code = "handover" => s # "retry_wait"
    BY <1>10, RecordCases
  <2>2. /\ worker[m] = "failing" /\ UNCHANGED retrying
        /\ At(m, "given_up") \/ At(m, "tail")
        /\ error' = [error EXCEPT ![m] = [kind |-> copy[m].error.kind,
                                         code |-> copy[m].error.code]]
    BY <1>10, RecordCases DEF At
  <2>3. /\ \A n \in Mirrors : Starting(n)' => Starting(n)
        /\ ~Starting(m)'
    BY <2>2, StartingKept DEF At, Starting, TypeOK
  <2>4. error'[m].code = copy[m].error.code
    BY <2>2 DEF TypeOK
  <2>5. /\ \A n \in Mirrors \ {m} : state'[n] = state[n] /\ error'[n] = error[n]
        /\ state'[m] = s
    BY <2>1, <2>2 DEF TypeOK
  <2>6. retrying # 0 => retrying \in Mirrors \ {m}
    BY <2>2 DEF CodeInv, TypeOK, WorkInv
  <2> QED
    BY <2>1, <2>2, <2>3, <2>4, <2>5, <2>6 DEF CodeInv
<1>11. ASSUME NEW m \in Mirrors, Promote(m) PROVE CodeInv'
  <2>1. /\ next[m] \in Mirrors /\ state[next[m]] = "skipped" /\ At(m, "tail")
        /\ UNCHANGED retrying
    BY <1>11 DEF Promote, WorkInv, TypeOK, FailInv
  <2>2. Queued(next[m]) \/ UNCHANGED rowVars
    BY <1>11, <2>1, QueuedBy DEF Promote
  <2> QED
    BY <2>1, <2>2, StartingKept, QueuedCode
<1>12. ASSUME NEW m \in Mirrors, GiveBack(m) PROVE CodeInv'
  <2>1. UNCHANGED <<state, error, retrying>> /\ At(m, "idle")
    BY <1>12 DEF GiveBack
  <2> QED
    BY <2>1, StartingKept DEF CodeInv
<1>13. ASSUME NEW op \in Ops, NEW m \in Mirrors, Ask(op, m) PROVE CodeInv'
  BY <1>13, <1>u DEF Ask
<1>14. ASSUME Handler PROVE retrying = 0 /\ UNCHANGED <<retrying, worker>>
  BY <1>14 DEF Handler, CancelToken, CancelRow, WakeMirror, WakePromote, ResumeRead,
     ResumeStand, ResumeQueue, OrderInv, Idle
<1>15. CASE CancelToken \/ WakeMirror \/ ResumeRead
  BY <1>15, <1>u DEF CancelToken, WakeMirror, ResumeRead
<1>16. CASE CancelRow
  <2>1. PICK n \in Mirrors : /\ worker[n] = "idle"
                             /\ \/ state' = [state EXCEPT ![n] = "cancelled"] /\ UNCHANGED error
                                \/ UNCHANGED <<state, error>>
    BY <1>16 DEF CancelRow, Transition, OrderInv, TypeOK
  <2>2. ~Starting(n)'
    BY <2>1, <1>14, <1>16 DEF Starting, Handler
  <2> QED
    BY <1>14, <1>16, <1>s, <2>1, <2>2, SetCode DEF Handler
<1>17. CASE WakePromote \/ ResumeQueue
  <2>1. PICK n \in Mirrors : Queued(n) \/ UNCHANGED rowVars
    BY <1>17, QueuedBy DEF WakePromote, ResumeQueue, OrderInv, TypeOK
  <2> QED
    BY <1>14, <1>17, <1>s, <2>1, QueuedCode DEF Handler
<1>18. CASE ResumeStand
  <2>1. ASSUME NEW n \in request.left, Transition(n, "skipped") PROVE CodeInv'
    <3>1. n \in Mirrors /\ state[n] \in MirrorState
      BY DEF TypeOK, WorkInv
    <3>2. is_startable(state[n])
      BY <1>18, <2>1, <3>1, Moves DEF Transition, ResumeStand, AskInv, Taken
    <3>3. error[n].code # "handover"
      BY <3>1, <3>2, <1>c DEF is_startable
    <3> QED
      BY <1>14, <1>18, <1>s, <2>1, <3>1, <3>3, SetCode DEF Handler, Transition
  <2>2. ASSUME UNCHANGED rowVars PROVE CodeInv'
    BY <2>2, <1>u, <1>14, <1>18 DEF Handler
  <2> QED
    BY <1>18, <2>1, <2>2 DEF ResumeStand
<1>19. CASE Crash
  BY <1>19 DEF Crash, CodeInv, Starting
<1>20. CASE Recover
  <2>1. retrying = 0 /\ \A m \in Mirrors : ~Starting(m)
    BY <1>20 DEF Recover, OrderInv, Idle, Starting
  <2>2. \A m \in Mirrors : state[m] # "resolving" => state'[m] = state[m]
    BY <1>20, Moves DEF Recover, WorkInv
  <2> QED
    BY <1>20, <2>1, <2>2, <1>s DEF Recover, CodeInv
<1>21. CASE Sweep
  <2>1. Waiting(rows, 0) \subseteq Mirrors /\ UNCHANGED <<worker, retrying>> /\ retrying = 0
    BY <1>21 DEF Waiting, Sweep, OrderInv, Idle
  <2>2. UNCHANGED rowVars \/ \E n \in Mirrors : Queued(n)
    BY <1>21, <2>1, QueuedBy DEF Sweep
  <2> QED
    BY <2>1, <2>2, <1>s, <1>u, QueuedCode
<1>22. CASE UNCHANGED vars
  BY <1>22, <1>u DEF vars
<1> QED
  BY <1>1, <1>2, <1>3, <1>4, <1>5, <1>6, <1>7, <1>8, <1>9, <1>10, <1>11, <1>12, <1>13, <1>15,
     <1>16, <1>17, <1>18, <1>19, <1>20, <1>21, <1>22 DEF Next, Supervise, Handler, Worker

-----------------------------------------------------------------------------
(* A request and the members it has to do with.                            *)

\* What an attempt does during a request or a pass: a member with the turn, or on
\* its way to it, keeps it unless it was told to stop.
LEMMA WorkerMoves ==
    ASSUME Races = {}, MInv, HandInv, NEW m \in Mirrors, Worker(m),
           request.at # "idle" \/ pass # NoGroup
    PROVE  /\ Begin(m) \/ Completed(m) \/ Stopped(m) \/ GiveBack(m)
           /\ UNCHANGED request /\ cancelled' \subseteq cancelled
           /\ \A n \in Mirrors : n # m \/ n \notin cancelled =>
                 /\ Taken(n) \/ is_startable(state[n]) => Taken(n)' \/ is_startable(state'[n])
                 /\ Waits(n) \/ Open(n) => (Waits(n) \/ Open(n))'
<1> TypeOK /\ WorkInv /\ OrderInv /\ FailInv /\ CodeInv
  BY DEF MInv, HandInv
<1> USE DEF rowVars, passVars, workVars, boundVars
<1>1. Begin(m) \/ Completed(m) \/ Stopped(m) \/ GiveBack(m)
  <2>1. worker[m] \notin {"failing", "given_up"} /\ (request # NoRequest \/ pass # NoGroup)
    BY RequestFields DEF FailInv
  <2> QED
    BY <2>1 DEF Worker, Fail, Record, Promote
<1>2. UNCHANGED request /\ cancelled' \subseteq cancelled
  BY <1>1 DEF Begin, Completed, Stopped, Advance, GiveBack
<1>3. \A n \in Mirrors \ {m} : state'[n] = state[n]
  BY <1>1, BeginCases DEF Queued, Completed, Stopped, Advance, Transition, GiveBack, TypeOK
<1>4. ASSUME Begin(m) PROVE state'[m] \in {state[m], "queued", "resolving"}
  BY <1>4, BeginCases DEF Queued, TypeOK
<1>5. ASSUME Completed(m) PROVE state'[m] = "completed"
  BY <1>5 DEF Completed, TypeOK
<1>6. Stopped(m) => m \in cancelled
  BY DEF Stopped
<1>7. GiveBack(m) => state' = state
  BY DEF GiveBack
<1>8. m \in cancelled \/ state'[m] \in {state[m], "queued", "resolving", "completed"}
  BY <1>1, <1>4, <1>5, <1>6, <1>7
<1>9. \A s \in {"queued", "resolving", "completed"} :
         /\ has_taken_the_turn(s) \/ is_startable(s)
         /\ holds_the_group_open(s)
  BY Moves DEF MirrorState
<1> HIDE DEF rowVars, passVars, workVars, boundVars
<1>10. ASSUME NEW n \in Mirrors, n # m \/ n \notin cancelled
       PROVE  state'[n] \in {state[n], "queued", "resolving", "completed"}
  BY <1>10, <1>3, <1>8
<1> QED
  BY <1>1, <1>2, <1>9, <1>10 DEF Taken, Waits, Open

LEMMA NextAsk ==
    ASSUME Races = {}, MInv, HandInv, AskInv, [Next]_vars
    PROVE  AskInv'
<1> TypeOK /\ WorkInv /\ OrderInv /\ PassInv /\ FailInv
  BY DEF MInv, HandInv
<1> USE DEF rowVars, passVars, workVars, boundVars
<1>n. request' = NoRequest => AskInv'
  BY RequestFields DEF AskInv, None
<1>u. UNCHANGED <<request, cancelled, state>> => AskInv'
  BY DEF AskInv, Waits, Open, Taken
<1>i. UNCHANGED request /\ request.at = "idle" => AskInv'
  BY <1>n DEF OrderInv
<1>1. CASE BeginPass
  BY <1>1, <1>u DEF BeginPass
<1>2. ASSUME NEW m \in Mirrors, ReadGroup(m) \/ Claim(m) \/ SeeFailed(m) \/ TimePasses(m)
      PROVE  AskInv'
  BY <1>2, <1>u DEF ReadGroup, Claim, SeeFailed, TimePasses
<1>3. ASSUME NEW m \in Mirrors, StandDown(m) PROVE AskInv'
  BY <1>3, <1>i DEF StandDown, NextInPass, NoGroup, OrderInv, Idle
<1>4. CASE AutoRetry
  BY <1>4, <1>i DEF AutoRetry, OrderInv, Idle
<1>5. ASSUME NEW m \in Mirrors, Worker(m) PROVE AskInv'
  <2>1. UNCHANGED request
    BY <1>5 DEF Worker, Begin, Stopped, Advance, Completed, Fail, Record, Promote, GiveBack
  <2>2. ASSUME request.at # "idle" PROVE AskInv'
    <3>1. /\ cancelled' \subseteq cancelled
          /\ \A n \in Mirrors : n # m \/ n \notin cancelled =>
                /\ Taken(n) \/ is_startable(state[n]) => Taken(n)' \/ is_startable(state'[n])
                /\ Waits(n) \/ Open(n) => (Waits(n) \/ Open(n))'
      BY <1>5, <2>2, WorkerMoves
    <3>2. request.at = "promote" =>
             request.to # request.on /\ (Waits(request.to) \/ Open(request.to))'
      <4>1. ASSUME request.at = "promote" PROVE request.to \in Mirrors /\ request.to \notin cancelled
        BY <4>1 DEF AskInv, OrderInv, TypeOK
      <4>2. PICK n : n = request.to
        OBVIOUS
      <4> QED
        BY <2>1, <3>1, <4>1, <4>2 DEF AskInv, Waits, Open
    <3>3. ASSUME request.at = "stand"
          PROVE  /\ request.on \notin request.left
                 /\ (Waits(request.on) \/ Open(request.on))'
                 /\ \A n \in request.left : is_startable(state'[n]) \/ Taken(n)'
      <4>1. cancelled = {} /\ request.on \in Mirrors /\ request.left \subseteq Mirrors
        BY <3>3 DEF AskInv, OrderInv, TypeOK
      <4>2. PICK n : n = request.on
        OBVIOUS
      <4> QED
        BY <2>1, <3>1, <3>3, <4>1, <4>2 DEF AskInv, Waits, Open
    <3> QED
      BY <2>1, <3>1, <3>2, <3>3 DEF AskInv
  <2> QED
    BY <2>1, <2>2, <1>i
<1>6. ASSUME NEW op \in Ops, NEW m \in Mirrors, Ask(op, m) PROVE AskInv'
  <2>1. request'.at = "read" /\ cancelled' = {}
    BY <1>6, RequestFields DEF Ask
  <2> QED
    BY <2>1 DEF AskInv
<1>7. CASE CancelToken
  <2>1. /\ request.at = "read" /\ request.op = "cancel" /\ cancelled = {}
        /\ cancelled' \subseteq {request.on}
        /\ request'.on = request.on /\ request'.op = "cancel"
        /\ \/ request'.at = "wake"
           \/ request'.at = "write" /\ cancelled' = {}
    BY <1>7, RequestFields DEF CancelToken, AskInv, Goes
  <2> QED
    BY <2>1 DEF AskInv
<1>8. CASE CancelRow
  <2>1. cancelled = {} /\ UNCHANGED cancelled
    BY <1>8 DEF CancelRow, AskInv
  <2> QED
    BY <1>8, <1>n, <2>1, RequestFields DEF AskInv, Goes
<1>9. CASE WakeMirror
  <2>1. /\ request.at = "wake" /\ request.op = "cancel" /\ cancelled \subseteq {request.on}
        /\ UNCHANGED <<state, cancelled>>
    BY <1>9 DEF WakeMirror, AskInv
  <2>2. ASSUME Goes("promote"), request'.to \in Waiting(rows, request.on) PROVE AskInv'
    <3>1. request'.to # request.on /\ state[request'.to] = "skipped"
      BY <2>2, RowTyped DEF Waiting
    <3> QED
      BY <2>1, <2>2, <3>1 DEF AskInv, Goes, Waits
  <2> QED
    BY <1>9, <1>n, <2>2, RequestFields
<1>10. CASE WakePromote \/ ResumeQueue
  BY <1>10, <1>n DEF WakePromote, ResumeQueue
<1>11. CASE ResumeRead
  <2>1. /\ request.at = "read" /\ request.op = "resume" /\ cancelled = {}
        /\ UNCHANGED <<state, cancelled>>
    BY <1>11 DEF ResumeRead, AskInv
  <2>2. ASSUME Goes("queue") PROVE AskInv'
    BY <2>1, <2>2 DEF AskInv, Goes
  <2>3. ASSUME Goes("stand"), state[request.on] = "skipped",
               \A n \in request'.left : n \in Mirrors \ {request.on} /\ is_contending(state[n])
        PROVE  AskInv'
    <3>1. \A n \in request'.left : n # request.on /\ is_startable(state[n])
      BY <2>3, Moves DEF WorkInv
    <3> QED
      BY <2>1, <2>3, <3>1 DEF AskInv, Goes, Waits
  <2> QED
    BY <1>11, <1>n, <2>2, <2>3, RequestFields
<1>12. CASE ResumeStand
  <2>1. request.at = "stand" /\ request.op = "resume" /\ cancelled = {} /\ UNCHANGED cancelled
    BY <1>12 DEF ResumeStand, AskInv, OrderInv
  <2>2. ASSUME Goes("queue") PROVE AskInv'
    BY <2>1, <2>2 DEF AskInv, Goes
  <2>3. ASSUME NEW n \in request.left, Transition(n, "skipped"), Goes("stand"),
               request'.left = request.left \ {n}
        PROVE  AskInv'
    <3>1. /\ request.on \in Mirrors /\ request.on # n
          /\ request.left \subseteq Mirrors
      BY <2>1 DEF AskInv, OrderInv, TypeOK
    <3>2. \A k \in Mirrors \ {n} : state'[k] = state[k]
      BY <2>3 DEF Transition, TypeOK
    <3> QED
      BY <2>1, <2>3, <3>1, <3>2 DEF AskInv, Goes, Waits, Open, Taken
  <2> QED
    BY <1>12, <1>n, <2>2, <2>3, RequestFields
<1>13. CASE Crash
  BY <1>13, <1>n DEF Crash
<1>14. CASE Recover \/ Sweep
  BY <1>14, <1>n DEF Recover, Sweep, OrderInv
<1>15. CASE UNCHANGED vars
  BY <1>15, <1>u DEF vars
<1> QED
  BY <1>1, <1>2, <1>3, <1>4, <1>5, <1>6, <1>7, <1>8, <1>9, <1>10, <1>11, <1>12, <1>13, <1>14,
     <1>15 DEF Next, Supervise, Handler

LEMMA NextGroup ==
    ASSUME Races = {}, MInv, HandInv, GroupInv, [Next]_vars
    PROVE  GroupInv'
<1> TypeOK /\ WorkInv /\ OrderInv /\ PassInv /\ FailInv
  BY DEF MInv, HandInv
<1> USE DEF rowVars, passVars, workVars, boundVars
<1>n. group' = NoGroup => GroupInv'
  BY DEF GroupInv
<1>u. UNCHANGED <<group, state>> => GroupInv'
  BY DEF GroupInv, Taken
<1>g. group = NoGroup /\ UNCHANGED group => GroupInv'
  BY <1>n
<1>o. group # NoGroup => /\ pass # NoGroup /\ ~Idle /\ life = "up" /\ retrying = 0
                         /\ request.at = "idle" /\ cancelled = {}
  BY DEF OrderInv, Idle
<1>1. ASSUME NEW m \in Mirrors, ReadGroup(m) PROVE GroupInv'
  <2>1. \A n \in Mirrors : group'[n].state = state[n] /\ state[n] \in MirrorState
    BY <1>1, RowTyped DEF ReadGroup, WorkInv
  <2>2. UNCHANGED state
    BY <1>1 DEF ReadGroup
  <2> QED
    BY <2>1, <2>2, Moves DEF GroupInv, Taken
<1>2. ASSUME NEW m \in Mirrors, StandDown(m) PROVE GroupInv'
  BY <1>2, <1>n DEF StandDown
<1>3. ASSUME NEW m \in Mirrors, Claim(m) PROVE GroupInv'
  BY <1>3, <1>n, <1>u DEF Claim
<1>4. ASSUME NEW m \in Mirrors, SeeFailed(m) \/ TimePasses(m) PROVE GroupInv'
  BY <1>4, <1>u DEF SeeFailed, TimePasses
<1>5. ASSUME NEW m \in Mirrors, Worker(m) PROVE GroupInv'
  <2>1. UNCHANGED group
    BY <1>5 DEF Worker, Begin, Stopped, Advance, Completed, Fail, Record, Promote, GiveBack
  <2>2. ASSUME group # NoGroup
        PROVE  \A n \in Mirrors :
                  Taken(n) \/ is_startable(state[n]) => Taken(n)' \/ is_startable(state'[n])
    BY <1>5, <2>2, <1>o, WorkerMoves
  <2> QED
    BY <2>1, <2>2 DEF GroupInv
<1>6. CASE BeginPass
  BY <1>6, <1>u DEF BeginPass
<1>7. CASE AutoRetry
  BY <1>7, <1>o, <1>g DEF AutoRetry
<1>8. ASSUME NEW op \in Ops, NEW m \in Mirrors, Ask(op, m) PROVE GroupInv'
  BY <1>8, <1>u DEF Ask
<1>9. CASE Handler
  <2>1. request.at # "idle" /\ UNCHANGED group
    BY <1>9 DEF Handler, CancelToken, CancelRow, WakeMirror, WakePromote, ResumeRead,
       ResumeStand, ResumeQueue
  <2> QED
    BY <2>1, <1>g, <1>o
<1>10. CASE Crash
  BY <1>10, <1>n DEF Crash
<1>11. CASE Recover \/ Sweep
  BY <1>11, <1>g, <1>o DEF Recover, Sweep
<1>12. CASE UNCHANGED vars
  BY <1>12, <1>u DEF vars
<1> QED
  BY <1>1, <1>2, <1>3, <1>4, <1>5, <1>6, <1>7, <1>8, <1>9, <1>10, <1>11, <1>12
     DEF Next, Supervise

-----------------------------------------------------------------------------
(* The group is held open.                                                 *)

LEMMA KeptHolds ==
    ASSUME NEW m \in Mirrors, Good(m)' \/ Local(m)' PROVE HeldInv'
  BY DEF HeldInv, Kept

LEMMA PromisedHolds ==
    ASSUME Promised' PROVE HeldInv'
  BY DEF HeldInv

\* Where nobody begins to wait, whoever kept the group going still does or a
\* request has taken it over.
LEMMA HeldKept ==
    ASSUME HeldInv, life' = "up" => life = "up",
           \A m \in Mirrors : worker[m] = "given_up" => worker'[m] = "given_up",
           \A m \in Mirrors : Waits(m)' => Waits(m),
           \A m \in Mirrors : Good(m) \/ Local(m) => Good(m)' \/ Local(m)',
           Promised => Promised'
    PROVE  HeldInv'
  BY DEF HeldInv, Kept

\* The rows stay, and no token is cancelled.
LEMMA HeldRows ==
    ASSUME HeldInv, UNCHANGED <<state, error>>, life' = "up" => life = "up",
           \A m \in Mirrors : worker[m] = "given_up" => worker'[m] = "given_up",
           \A m \in cancelled' : m \in cancelled /\ (worker[m] = "tail" => worker'[m] = "tail"),
           Promised => Promised'
    PROVE  HeldInv'
<1>1. \A m \in Mirrors : /\ Waits(m)' <=> Waits(m)
                         /\ Local(m)' <=> Local(m)
                         /\ Good(m) => Good(m)'
  BY DEF Waits, Local, Good, Open
<1> QED
  BY <1>1, HeldKept

LEMMA OpenIs ==
    ASSUME WorkInv, NEW m \in Mirrors
    PROVE  /\ Taken(m) \/ is_startable(state[m]) => Open(m)
           /\ Open(m) <=> state[m] \in {"resolving", "completed", "queued", "retry_wait", "blocked"}
<1>1. state[m] \in MirrorState
  BY DEF WorkInv
<1> QED
  BY <1>1, Moves DEF Taken, Open

\* The same of the next state.
LEMMA OpenNow ==
    ASSUME NEW m \in Mirrors,
           state'[m] \in {"resolving", "completed", "queued", "retry_wait", "blocked"}
    PROVE  Open(m)'
<1>1. state'[m] \in MirrorState
  BY DEF MirrorState
<1> QED
  BY <1>1, Moves DEF Open

\* A row put into the queue keeps the group going, unless its attempt is told to stop.
LEMMA QueuedGood ==
    ASSUME TypeOK, NEW m \in Mirrors, Queued(m),
           m \notin cancelled' \/ worker'[m] = "tail"
    PROVE  Good(m)'
<1>1. state'[m] = "queued"
  BY DEF Queued, TypeOK
<1> QED
  BY <1>1, OpenNow DEF Good

\* Whoever stands down does so for a member that keeps the group going.
LEMMA StandsForOther ==
    ASSUME MInv, GroupInv, NEW m \in Mirrors, StandDown(m)
    PROVE  \E n \in Mirrors \ {m} : Open(n)
<1> TypeOK /\ WorkInv
  BY DEF MInv
<1>1. group # NoGroup /\ StandsDown(m)
  BY DEF StandDown
<1> DEFINE contenders == {n \in Mirrors \ {m} : is_contending(group[n].state)} \cup {m}
           read == [group EXCEPT ![m] = pass[m]]
<1>2. CASE \E n \in Mirrors \ {m} : has_taken_the_turn(group[n].state)
  BY <1>1, <1>2, OpenIs DEF GroupInv
<1>3. CASE ~IsBest(read, m, contenders)
  <2>1. PICK n \in contenders \ {m} : ~Before(read, m, n)
    BY <1>3 DEF IsBest
  <2>2. n \in Mirrors \ {m} /\ is_contending(group[n].state)
    BY <2>1
  <2> QED
    BY <1>1, <2>2, OpenIs DEF GroupInv
<1> QED
  BY <1>1, <1>2, <1>3 DEF StandsDown

LEMMA NextHeldWorker ==
    ASSUME Races = {}, MInv, HandInv, AskInv, HeldInv, NEW m \in Mirrors, Worker(m)
    PROVE  HeldInv'
<1> TypeOK /\ WorkInv /\ OrderInv /\ AloneInv /\ FailInv /\ CodeInv
  BY DEF MInv, HandInv
<1> USE DEF rowVars, passVars, workVars, boundVars
<1>1. ASSUME Begin(m) PROVE HeldInv'
  <2>1. /\ Starting(m) /\ state[m] \in {"queued", "retry_wait", "skipped"}
        /\ UNCHANGED <<cancelled, request, life>>
        /\ \E step \in {"begin", "working", "tail"} : At(m, step)
        /\ \A n \in Mirrors \ {m} : state'[n] = state[n] /\ error'[n] = error[n]
        /\ \/ state'[m] \in {"queued", "resolving"}
           \/ UNCHANGED <<state, error>>
    BY <1>1, BeginCases DEF CodeInv, Queued, TypeOK
  <2>2. /\ \A n \in Mirrors \ {m} : worker'[n] = worker[n]
        /\ worker[m] \notin {"tail", "given_up"}
    BY <2>1 DEF At, TypeOK, Starting
  <2>3. CASE UNCHANGED <<state, error>>
    <3>1. Promised => Promised'
      BY <2>1, <2>3 DEF Promised, Waits
    <3> QED
      BY <2>1, <2>2, <2>3, <3>1, HeldRows DEF TypeOK
  <2>4. CASE state'[m] \in {"queued", "resolving"} /\ m \notin cancelled
    BY <2>1, <2>4, OpenNow, KeptHolds DEF Good
  <2>5. CASE state'[m] \in {"queued", "resolving"} /\ m \in cancelled
    <3>1. ~Waits(m)' /\ ~Good(m) /\ ~Local(m)
      BY <2>1, <2>2, <2>5 DEF Waits, Good, Local
    <3>2. \A n \in Mirrors : Waits(n)' => Waits(n)
      BY <2>1, <3>1 DEF Waits
    <3>3. \A n \in Mirrors : Good(n) \/ Local(n) => Good(n)' \/ Local(n)'
      BY <2>1, <2>2, <3>1 DEF Good, Local, Open
    <3>4. Promised => Promised'
      <4>1. request.at \in {"wake", "stand", "queue"} => request.on \in Mirrors
        BY DEF OrderInv, TypeOK
      <4>2. request.at \notin {"stand", "queue"}
        BY <2>5 DEF AskInv, OrderInv
      <4>3. request.at = "wake" /\ ~Waits(request.on) => ~Waits(request.on)'
        BY <2>1, <3>2, <4>1 DEF Waits
      <4> QED
        BY <2>1, <4>2, <4>3 DEF Promised
    <3> QED
      BY <2>1, <2>2, <3>2, <3>3, <3>4, HeldKept
  <2> QED
    BY <2>1, <2>3, <2>4, <2>5
<1>2. ASSUME Completed(m) PROVE HeldInv'
  <2>1. state'[m] = "completed" /\ worker'[m] = "tail"
    BY <1>2 DEF Completed, At, TypeOK
  <2> QED
    BY <2>1, OpenNow, KeptHolds DEF Good
<1>3. ASSUME Stopped(m) PROVE HeldInv'
  <2>1. /\ worker[m] = "working" /\ m \in cancelled /\ state[m] = "resolving"
        /\ UNCHANGED <<error, cancelled, request, life>> /\ At(m, "tail")
        /\ UNCHANGED state \/ state' = [state EXCEPT ![m] = "cancelled"]
    BY <1>3 DEF Stopped, Advance, Transition, WorkInv
  <2>2. /\ \A n \in Mirrors \ {m} : state'[n] = state[n] /\ worker'[n] = worker[n]
        /\ state'[m] # "skipped" /\ worker'[m] = "tail"
    BY <2>1 DEF At, TypeOK
  <2>3. ~Good(m) /\ ~Local(m) /\ ~Waits(m) /\ ~Waits(m)'
    BY <2>1, <2>2 DEF Good, Local, Waits
  <2>4. \A n \in Mirrors : /\ Waits(n)' <=> Waits(n)
                           /\ Good(n) \/ Local(n) => Good(n)' \/ Local(n)'
    BY <2>1, <2>2, <2>3 DEF Good, Local, Open, Waits
  <2>5. Promised => Promised'
    <3>1. request.at \in {"wake", "stand", "queue"} => request.on \in Mirrors
      BY DEF OrderInv, TypeOK
    <3>2. request.on \in Mirrors => (Waits(request.on)' <=> Waits(request.on))
      BY <2>1, <2>4 DEF Waits
    <3> QED
      BY <2>1, <3>1, <3>2 DEF Promised
  <2> QED
    BY <2>1, <2>2, <2>4, <2>5, HeldKept
<1>4. ASSUME Fail(m) PROVE HeldInv'
  <2>1. /\ worker[m] = "working" /\ UNCHANGED <<state, error, cancelled, request, life>>
        /\ worker' = [worker EXCEPT ![m] = "failing"]
    BY <1>4, FailCases
  <2>2. \A n \in Mirrors \ {m} : worker'[n] = worker[n]
    BY <2>1 DEF TypeOK
  <2>3. Promised => Promised'
    BY <2>1 DEF Promised, Waits
  <2> QED
    BY <2>1, <2>2, <2>3, HeldRows DEF TypeOK
<1>5. ASSUME Record(m) PROVE HeldInv'
  <2>1. /\ worker[m] = "failing" /\ UNCHANGED <<cancelled, request, life>>
        /\ worker' = [worker EXCEPT ![m] = IF copy[m].error.code = "handover"
                                           THEN "given_up" ELSE "tail"]
        /\ error' = [error EXCEPT ![m] = [kind |-> copy[m].error.kind,
                                         code |-> copy[m].error.code]]
    BY <1>5, RecordCases
  <2>2. copy[m].error.code \in {"own", "handover", "exhausted"}
    <3>1. copy[m].error \in Error /\ copy[m].error.code # None
      BY <2>1 DEF WorkInv, Row, FailInv
    <3> QED
      BY <3>1 DEF Error, NoError
  <2>3. CASE copy[m].error.code = "handover"
    <3>1. worker'[m] = "given_up"
      BY <2>1, <2>3 DEF TypeOK
    <3> QED
      BY <3>1 DEF HeldInv
  <2>4. CASE copy[m].error.code = "exhausted"
    <3>1. PICK s \in {"retry_wait", "blocked", "failed"} : state' = [state EXCEPT ![m] = s]
      BY <1>5, RecordCases
    <3>2. \A n \in Mirrors : ~Waits(n)'
      BY <2>1, <2>4, <3>1 DEF FailInv, Waits, TypeOK
    <3> QED
      BY <3>2 DEF HeldInv
  <2>5. CASE copy[m].error.code = "own"
    <3>1. worker'[m] = "tail" /\ error'[m].kind = copy[m].error.kind
      BY <2>1, <2>5 DEF TypeOK
    <3>2. CASE Retries(m, copy[m].error.kind)
      <4>1. state' = [state EXCEPT ![m] = "retry_wait"]
        BY <1>5, <2>5, <3>2, RecordCases
      <4>2. state'[m] = "retry_wait"
        BY <4>1 DEF TypeOK
      <4> QED
        BY <3>1, <4>2, OpenNow, KeptHolds DEF Good
    <3>3. CASE ~Retries(m, copy[m].error.kind)
      <4>1. copy[m].error.kind = "local"
        BY <2>1, <2>5, <3>3 DEF FailInv
      <4>2. state' = [state EXCEPT ![m] = "failed"]
        BY <1>5, <2>5, <3>3, <4>1, RecordCases
      <4>3. state'[m] = "failed"
        BY <4>2 DEF TypeOK
      <4> QED
        BY <3>1, <4>1, <4>3, KeptHolds DEF Local
    <3> QED
      BY <3>2, <3>3
  <2> QED
    BY <2>2, <2>3, <2>4, <2>5
<1>6. ASSUME Promote(m) PROVE HeldInv'
  <2>1. /\ worker[m] = "given_up" /\ next[m] \in Mirrors /\ state[next[m]] = "skipped"
        /\ At(m, "tail") /\ UNCHANGED <<next, cancelled>>
    BY <1>6 DEF Promote, WorkInv, TypeOK, FailInv
  <2>2. PICK n \in Mirrors : n = next[m]
    BY <2>1
  <2>3. Queued(n)
    <3>1. can_transition_to(state[n], "queued")
      BY <2>1, <2>2, Moves DEF MirrorState
    <3> QED
      BY <1>6, <2>2, <3>1, QueuedBy DEF Promote
  <2>4. n \notin cancelled' \/ worker'[n] = "tail"
    <3>1. n \in cancelled => worker[n] # "idle"
      BY DEF TypeOK
    <3>2. n # m => ~Engaged(n)
      BY <2>1 DEF AloneInv, Engaged
    <3> QED
      BY <2>1, <3>1, <3>2 DEF At, TypeOK, Engaged
  <2> QED
    BY <2>3, <2>4, QueuedGood, KeptHolds
<1>7. ASSUME GiveBack(m) PROVE HeldInv'
  <2>1. /\ worker[m] = "tail" /\ worker' = [worker EXCEPT ![m] = "idle"]
        /\ cancelled' = cancelled \ {m} /\ UNCHANGED <<state, error, request, life>>
    BY <1>7 DEF GiveBack, At
  <2>2. \A n \in Mirrors \ {m} : worker'[n] = worker[n]
    BY <2>1 DEF TypeOK
  <2>3. Promised => Promised'
    BY <2>1 DEF Promised, Waits
  <2> QED
    BY <2>1, <2>2, <2>3, HeldRows DEF TypeOK
<1> QED
  BY <1>1, <1>2, <1>3, <1>4, <1>5, <1>6, <1>7 DEF Worker

LEMMA NextHeldRequest ==
    ASSUME Races = {}, MInv, HandInv, AskInv, HeldInv, Handler
    PROVE  HeldInv'
<1> TypeOK /\ WorkInv /\ OrderInv
  BY DEF MInv
<1> USE DEF rowVars, passVars, workVars, boundVars
<1>1. /\ request.at # "idle" /\ request.on \in Mirrors /\ UNCHANGED <<worker, life>>
  BY DEF Handler, CancelToken, CancelRow, WakeMirror, WakePromote, ResumeRead, ResumeStand,
     ResumeQueue, OrderInv, TypeOK
<1>2. PICK on \in Mirrors : on = request.on
  BY <1>1
<1>r. ASSUME UNCHANGED <<state, error, cancelled>>, ~Promised PROVE HeldInv'
  BY <1>1, <1>r, HeldRows
<1>3. CASE CancelToken
  <2>1. /\ request.at = "read" /\ ~Promised /\ UNCHANGED <<state, error>>
        /\ cancelled' \in {cancelled, cancelled \cup {on}}
        /\ cancelled' # cancelled => Goes("wake")
    BY <1>2, <1>3, RequestFields DEF CancelToken, Promised
  <2>2. CASE cancelled' = cancelled
    BY <2>1, <2>2, <1>r
  <2>3. CASE Goes("wake") /\ ~Waits(on)
    <3>1. Promised'
      BY <1>2, <2>1, <2>3 DEF Promised, Goes, Waits
    <3> QED
      BY <3>1, PromisedHolds
  <2>4. CASE cancelled' = cancelled \cup {on} /\ Waits(on)
    <3>1. ~Open(on)
      BY <2>4, OpenIs DEF Waits
    <3>2. \A n \in Mirrors : /\ Waits(n)' <=> Waits(n)
                             /\ Good(n) => n # on
                             /\ Good(n) \/ Local(n) => Good(n)' \/ Local(n)'
      BY <1>1, <2>1, <2>4, <3>1 DEF Waits, Good, Local, Open
    <3> QED
      BY <1>1, <2>1, <3>2, HeldKept
  <2> QED
    BY <2>1, <2>2, <2>3, <2>4
<1>4. CASE CancelRow
  <2>1. request.at = "write" /\ ~Promised /\ UNCHANGED cancelled
    BY <1>4 DEF CancelRow, Promised
  <2>2. CASE Transition(request.on, "cancelled") /\ Proceed("wake")
    <3>1. state'[on] = "cancelled"
      BY <1>2, <2>2 DEF Transition, TypeOK
    <3>2. request'.at = "wake" /\ request'.on = on
      BY <1>2, <2>2 DEF Proceed, TypeOK
    <3>3. Promised'
      BY <3>1, <3>2 DEF Promised, Waits
    <3> QED
      BY <3>3, PromisedHolds
  <2>3. CASE UNCHANGED rowVars
    BY <2>1, <2>3, <1>r
  <2> QED
    BY <1>4, <2>2, <2>3 DEF CancelRow
<1>5. CASE WakeMirror
  <2>1. request.at = "wake" /\ UNCHANGED <<state, error, cancelled>>
    BY <1>5 DEF WakeMirror
  <2>2. CASE Goes("promote")
    BY <2>2, PromisedHolds DEF Promised, Goes
  <2>3. CASE Waiting(rows, request.on) = {}
    <3>1. \A n \in Mirrors : Waits(n) => n = on
      BY <1>2, <2>3, RowTyped DEF Waiting, Waits
    <3>2. CASE Waits(on)
      <4>1. ~Promised
        BY <1>2, <2>1, <3>2 DEF Promised
      <4> QED
        BY <2>1, <4>1, <1>r
    <3>3. CASE ~Waits(on)
      <4>1. \A n \in Mirrors : ~Waits(n)'
        BY <2>1, <3>1, <3>3 DEF Waits
      <4> QED
        BY <4>1 DEF HeldInv
    <3> QED
      BY <3>2, <3>3
  <2> QED
    BY <1>5, <2>2, <2>3, RequestFields
<1>6. CASE WakePromote
  <2>1. PICK n \in Mirrors : n = request.to
    BY <1>6 DEF WakePromote, OrderInv, TypeOK
  <2>2. n \notin cancelled' /\ (Waits(n) \/ Open(n))
    BY <1>6, <2>1 DEF WakePromote, AskInv
  <2>3. CASE Transition(n, "queued")
    BY <2>2, <2>3, QueuedBy, QueuedGood, KeptHolds
  <2>4. CASE ~can_transition_to(state[n], "queued") /\ UNCHANGED rowVars
    <3>1. ~Waits(n)
      BY <2>4, Moves DEF Waits, MirrorState
    <3>2. Good(n)'
      BY <2>2, <2>4, <3>1 DEF Good, Open
    <3> QED
      BY <3>2, KeptHolds
  <2> QED
    BY <1>6, <2>1, <2>3, <2>4 DEF WakePromote
<1>7. CASE ResumeRead
  BY <1>7, <1>r DEF ResumeRead, Promised
<1>8. CASE ResumeStand
  <2>1. /\ request.at = "stand" /\ cancelled' = {} /\ on \notin request.left
        /\ Waits(on) \/ Open(on)
        /\ \A n \in request.left : n \in Mirrors /\ (is_startable(state[n]) \/ Taken(n))
    BY <1>2, <1>8 DEF ResumeStand, AskInv, OrderInv, TypeOK
  <2>2. ASSUME state'[on] = state[on], request'.at \in {"stand", "queue"}, request'.on = on
        PROVE  HeldInv'
    <3>1. CASE Waits(on)
      BY <2>2, <3>1, PromisedHolds DEF Promised, Waits
    <3>2. CASE Open(on)
      BY <2>1, <2>2, <3>2, KeptHolds DEF Good, Open
    <3> QED
      BY <2>1, <3>1, <3>2
  <2>3. CASE Goes("queue") /\ UNCHANGED rowVars
    BY <1>2, <2>2, <2>3 DEF Goes
  <2>4. ASSUME NEW n \in request.left, Transition(n, "skipped"), Goes("stand") PROVE HeldInv'
    <3>1. state'[on] = state[on]
      BY <2>1, <2>4 DEF Transition, TypeOK
    <3> QED
      BY <1>2, <2>2, <2>4, <3>1 DEF Goes
  <2>5. ASSUME NEW n \in request.left, ~can_transition_to(state[n], "skipped"), UNCHANGED rowVars
        PROVE  HeldInv'
    <3>1. n \in Mirrors /\ Open(n)
      BY <2>1, <2>5, OpenIs
    <3>2. Good(n)'
      BY <2>1, <2>5, <3>1 DEF Good, Open
    <3> QED
      BY <3>1, <3>2, KeptHolds
  <2> QED
    BY <1>8, <2>3, <2>4, <2>5, RequestFields
<1>9. CASE ResumeQueue
  <2>1. cancelled' = {} /\ request.on = on
    BY <1>2, <1>9 DEF ResumeQueue, AskInv, OrderInv
  <2>2. CASE Transition(on, "queued") \/ (Requeued(on) /\ state[on] = "failed")
    <3>1. Queued(on)
      <4>1. CASE Transition(on, "queued")
        BY <4>1, QueuedBy
      <4>2. CASE Requeued(on) /\ state[on] = "failed"
        <5>1. state'[on] = "queued"
          BY <4>2 DEF Requeued, TypeOK
        <5>2. ~UNCHANGED rowVars
          BY <4>2, <5>1
        <5> QED
          BY <4>2, <5>2, QueuedBy
      <4> QED
        BY <2>2, <4>1, <4>2
    <3> QED
      BY <2>1, <3>1, QueuedGood, KeptHolds
  <2>3. CASE ~can_transition_to(state[on], "queued") /\ UNCHANGED rowVars
    <3>1. state[on] \in MirrorState
      BY DEF WorkInv
    <3>2. state[on] \in {"resolving", "completed"}
      BY <2>3, <3>1, Moves DEF MirrorState
    <3>3. Good(on)'
      BY <2>1, <2>3, <3>2, OpenNow DEF Good
    <3> QED
      BY <3>3, KeptHolds
  <2> QED
    BY <1>9, <2>1, <2>2, <2>3 DEF ResumeQueue
<1> QED
  BY <1>3, <1>4, <1>5, <1>6, <1>7, <1>8, <1>9 DEF Handler

LEMMA NextHeld ==
    ASSUME Races = {}, CInv, [Next]_vars
    PROVE  HeldInv'
<1> /\ MInv /\ HandInv /\ AskInv /\ HeldInv /\ GroupInv
    /\ TypeOK /\ WorkInv /\ OrderInv /\ CodeInv
  BY DEF CInv, MInv, HandInv
<1> USE DEF rowVars, passVars, workVars, boundVars
<1>u. UNCHANGED <<state, error, worker, cancelled, request, life>> => HeldInv'
  <2>1. UNCHANGED <<state, request>> => (Promised => Promised')
    BY DEF Promised, Waits
  <2> QED
    BY <2>1, HeldRows
<1>1. CASE BeginPass
  BY <1>1, <1>u DEF BeginPass
<1>2. ASSUME NEW m \in Mirrors, ReadGroup(m) \/ SeeFailed(m) \/ TimePasses(m) PROVE HeldInv'
  BY <1>2, <1>u DEF ReadGroup, SeeFailed, TimePasses
<1>3. ASSUME NEW m \in Mirrors, StandDown(m) PROVE HeldInv'
  <2>1. pass # NoGroup /\ UNCHANGED cancelled
    BY <1>3 DEF StandDown, NextInPass, NoGroup
  <2>2. cancelled' = {}
    BY <2>1 DEF OrderInv, Idle
  <2>3. PICK n \in Mirrors \ {m} : Open(n)
    BY <1>3, StandsForOther
  <2>4. state'[n] = state[n]
    BY <1>3 DEF StandDown, Transition, TypeOK
  <2>5. Good(n)'
    BY <2>2, <2>3, <2>4 DEF Good, Open
  <2> QED
    BY <2>5, KeptHolds
<1>4. ASSUME NEW m \in Mirrors, Claim(m) PROVE HeldInv'
  <2>1. pass # NoGroup /\ UNCHANGED <<cancelled, state, error, request, life>>
    BY <1>4 DEF Claim, NextInPass, NoGroup
  <2>2. cancelled' = {}
    BY <2>1 DEF OrderInv, Idle
  <2>3. \A n \in Mirrors : worker[n] = "given_up" => worker'[n] = "given_up"
    BY <1>4 DEF Claim, untouchable, TypeOK
  <2>4. Promised => Promised'
    BY <2>1 DEF Promised, Waits
  <2> QED
    BY <2>1, <2>2, <2>3, <2>4, HeldRows
<1>5. CASE AutoRetry
  <2>1. /\ retrying \in Mirrors /\ state[retrying] = "failed" /\ cancelled' = {}
        /\ Requeued(retrying)
    BY <1>5 DEF AutoRetry, TypeOK, CodeInv, OrderInv, Idle
  <2>2. PICK n \in Mirrors : n = retrying
    BY <2>1
  <2>3. state'[n] = "queued"
    BY <2>1, <2>2 DEF Requeued, TypeOK
  <2>4. Good(n)'
    BY <2>1, <2>3, OpenNow DEF Good
  <2> QED
    BY <2>4, KeptHolds
<1>6. ASSUME NEW m \in Mirrors, Worker(m) PROVE HeldInv'
  BY <1>6, NextHeldWorker
<1>7. ASSUME NEW op \in Ops, NEW m \in Mirrors, Ask(op, m) PROVE HeldInv'
  <2>1. request.at = "idle" /\ UNCHANGED <<state, error, worker, cancelled, life>>
    BY <1>7, RequestFields DEF Ask
  <2> QED
    BY <2>1, HeldRows DEF Promised
<1>8. CASE Handler
  BY <1>8, NextHeldRequest
<1>9. CASE Crash \/ Recover
  BY <1>9 DEF Crash, Recover, HeldInv
<1>10. CASE Sweep
  <2>1. cancelled' = {}
    BY <1>10 DEF Sweep, OrderInv
  <2>2. ASSUME NEW m \in Mirrors, holds_the_group_open(state[m]), UNCHANGED rowVars PROVE HeldInv'
    BY <2>1, <2>2, KeptHolds DEF Good, Open
  <2>3. ASSUME Waiting(rows, 0) = {}, UNCHANGED rowVars PROVE HeldInv'
    <3>1. \A m \in Mirrors : m # 0 /\ ~Waits(m)
      BY <2>3, RowTyped, MirrorGroupAssumption DEF Waiting, Waits, Mirrors
    <3>2. \A m \in Mirrors : ~Waits(m)'
      BY <2>3, <3>1 DEF Waits
    <3> QED
      BY <3>2 DEF HeldInv
  <2>4. ASSUME NEW m \in Waiting(rows, 0), Transition(m, "queued") PROVE HeldInv'
    <3>1. m \in Mirrors
      BY DEF Waiting
    <3> QED
      BY <2>1, <2>4, <3>1, QueuedBy, QueuedGood, KeptHolds
  <2> QED
    BY <1>10, <2>2, <2>3, <2>4 DEF Sweep
<1>11. CASE UNCHANGED vars
  BY <1>11, <1>u DEF vars
<1> QED
  BY <1>1, <1>2, <1>3, <1>4, <1>5, <1>6, <1>7, <1>8, <1>9, <1>10, <1>11 DEF Next, Supervise

-----------------------------------------------------------------------------
(* The theorems.                                                           *)

LEMMA InitCalm == Init => CInv
<1> SUFFICES ASSUME Init PROVE CInv
  OBVIOUS
<1>1. MInv
  BY InitInv
<1>2. HandInv
  BY DEF Init, HandInv, AloneInv, FailInv, CodeInv, Engaged, Starting, NoError, None
<1>3. AskInv
  BY DEF Init, AskInv, NoRequest, None
<1>4. HeldInv
  <2>1. 1 \in Mirrors
    BY MirrorGroupAssumption DEF Mirrors
  <2>2. state[1] = "queued" /\ cancelled = {} /\ "queued" \in MirrorState
    BY <2>1 DEF Init, MirrorState
  <2>3. Good(1)
    BY <2>2, Moves DEF Good, Open
  <2> QED
    BY <2>1, <2>3 DEF HeldInv, Kept
<1>5. GroupInv
  BY DEF Init, GroupInv
<1> QED
  BY <1>1, <1>2, <1>3, <1>4, <1>5 DEF CInv

LEMMA CalmInvariant ==
    ASSUME Races = {}
    PROVE  Spec => []CInv
<1>1. CInv /\ [Next]_vars => CInv'
  <2> SUFFICES ASSUME CInv, [Next]_vars PROVE CInv'
    OBVIOUS
  <2>1. MInv /\ HandInv /\ AskInv /\ GroupInv /\ AloneInv /\ FailInv
    BY DEF CInv, HandInv
  <2>2. MInv'
    BY <2>1, CalmIsSeparate, NextTypes, NextWork, NextOrder, NextTurn, NextPass DEF MInv
  <2>3. HandInv'
    BY <2>1, NextAlone, NextFail, NextCode DEF HandInv
  <2> QED
    BY <2>1, <2>2, <2>3, NextAsk, NextHeld, NextGroup DEF CInv
<1> QED
  BY InitCalm, <1>1, PTL DEF Spec

\* An error is written by the record of a failure alone; it goes when a row is
\* queued, which only a request does to a member that was given up.
LEMMA ErrorMoves ==
    ASSUME Races = {}, CInv, [Next]_vars, NEW m \in Mirrors
    PROVE  \/ error'[m] = error[m]
           \/ error'[m] = NoError /\ (request # NoRequest \/ error[m].code # "handover")
           \/ Record(m)
<1> /\ MInv /\ TypeOK /\ WorkInv /\ OrderInv /\ FailInv /\ CodeInv
  BY DEF CInv, MInv, HandInv
<1> USE DEF rowVars, passVars, workVars, boundVars
<1> DEFINE Goal == \/ error'[m] = error[m]
                   \/ error'[m] = NoError /\ (request # NoRequest \/ error[m].code # "handover")
                   \/ Record(m)
<1>u. UNCHANGED error => Goal
  OBVIOUS
<1>q. ASSUME NEW n \in Mirrors, Queued(n) \/ UNCHANGED rowVars,
             request # NoRequest \/ error[n].code # "handover"
      PROVE  Goal
  BY <1>q DEF Queued, TypeOK
<1>1. CASE BeginPass
  BY <1>1 DEF BeginPass
<1>2. ASSUME NEW n \in Mirrors, \/ ReadGroup(n) \/ SeeFailed(n) \/ TimePasses(n) \/ Claim(n)
                                \/ StandDown(n)
      PROVE  Goal
  BY <1>2, <1>u DEF ReadGroup, SeeFailed, TimePasses, Claim, StandDown, Transition
<1>3. CASE AutoRetry
  <2>1. /\ retrying \in Mirrors /\ error[retrying].code # "handover"
        /\ Queued(retrying) \/ UNCHANGED rowVars
    BY <1>3, QueuedBy DEF AutoRetry, TypeOK, CodeInv
  <2> QED
    BY <2>1, <1>q
<1>4. ASSUME NEW n \in Mirrors, Begin(n) PROVE Goal
  <2>1. error[n].code # "handover" /\ (Queued(n) \/ UNCHANGED error)
    BY <1>4, BeginCases DEF CodeInv
  <2> QED
    BY <2>1, <1>q, <1>u
<1>5. ASSUME NEW n \in Mirrors, Completed(n) \/ Stopped(n) \/ Fail(n) \/ GiveBack(n) PROVE Goal
  BY <1>5, <1>u DEF Completed, Stopped, Advance, Transition, Fail, GiveBack
<1>6. ASSUME NEW n \in Mirrors, Record(n) PROVE Goal
  BY <1>6, RecordCases DEF TypeOK
<1>7. ASSUME NEW n \in Mirrors, Promote(n) PROVE Goal
  <2>1. next[n] \in Mirrors /\ state[next[n]] = "skipped"
    BY <1>7 DEF Promote, WorkInv, TypeOK, FailInv
  <2>2. error[next[n]].code # "handover" /\ (Queued(next[n]) \/ UNCHANGED rowVars)
    BY <1>7, <2>1, QueuedBy DEF Promote, CodeInv
  <2> QED
    BY <2>1, <2>2, <1>q
<1>8. ASSUME NEW op \in Ops, NEW n \in Mirrors, Ask(op, n) PROVE Goal
  BY <1>8 DEF Ask
<1>9. CASE CancelToken \/ CancelRow \/ WakeMirror \/ ResumeRead \/ ResumeStand
  BY <1>9, <1>u DEF CancelToken, CancelRow, WakeMirror, ResumeRead, ResumeStand, Transition
<1>10. CASE WakePromote \/ ResumeQueue
  <2>1. PICK n \in Mirrors : Queued(n) \/ UNCHANGED rowVars
    BY <1>10, QueuedBy DEF WakePromote, ResumeQueue, OrderInv, TypeOK
  <2>2. request # NoRequest
    BY <1>10, RequestFields DEF WakePromote, ResumeQueue
  <2> QED
    BY <2>1, <2>2, <1>q
<1>11. CASE Crash \/ Recover
  BY <1>11 DEF Crash, Recover
<1>12. CASE Sweep
  <2>1. ASSUME NEW n \in Waiting(rows, 0), Transition(n, "queued") PROVE Goal
    <3>1. n \in Mirrors /\ state[n] = "skipped"
      BY RowTyped DEF Waiting
    <3>2. error[n].code # "handover" /\ Queued(n)
      BY <2>1, <3>1, QueuedBy DEF CodeInv
    <3> QED
      BY <3>1, <3>2, <1>q
  <2> QED
    BY <1>12, <2>1, <1>u DEF Sweep
<1>13. CASE UNCHANGED vars
  BY <1>13 DEF vars
<1> QED
  BY <1>1, <1>2, <1>3, <1>4, <1>5, <1>6, <1>7, <1>8, <1>9, <1>10, <1>11, <1>12, <1>13
     DEF Next, Supervise, Handler, Worker

\* Whoever was given up for another mirror stays given up: no pass, no retry, no
\* hand-over and no start brings a member back, only somebody's request
\* (`may_pass_later`, `hand_over`, `recover_stalled_mirror_groups`).
THEOREM NobodyIsBroughtBack ==
    ASSUME Races = {}
    PROVE  Spec => GivenUpStays
<1>1. CInv /\ [Next]_vars =>
         [\A m \in Mirrors :
             error[m].code = "handover" => error'[m] = error[m] \/ request # NoRequest]_vars
  <2> SUFFICES ASSUME CInv, [Next]_vars, NEW m \in Mirrors, error[m].code = "handover"
               PROVE  error'[m] = error[m] \/ request # NoRequest
    OBVIOUS
  <2>1. WorkInv /\ CodeInv
    BY DEF CInv, MInv, HandInv
  <2>2. ~Record(m)
    BY <2>1 DEF Record, WorkInv, CodeInv
  <2> QED
    BY <2>2, ErrorMoves
<1> QED
  BY <1>1, CalmInvariant, PTL DEF Spec, GivenUpStays

\* The group's verdict is written when nobody waits who was never started,
\* however many members took part (`hand_over`, EXHAUSTED_CODE).
THEOREM VerdictIsLast ==
    ASSUME Races = {}
    PROVE  Spec => VerdictAfterAll
<1>1. CInv /\ [Next]_vars =>
         [\A m \in Mirrors :
             error'[m] # error[m] /\ error'[m].code = "exhausted" =>
                 \A n \in Mirrors : ~(state[n] = "skipped" /\ error[n] = NoError)]_vars
  <2> SUFFICES ASSUME CInv, [Next]_vars, NEW m \in Mirrors,
                      error'[m] # error[m], error'[m].code = "exhausted"
               PROVE  \A n \in Mirrors : state[n] # "skipped"
    OBVIOUS
  <2>1. TypeOK /\ FailInv
    BY DEF CInv, MInv, HandInv
  <2>2. error'[m] # NoError
    BY DEF NoError, None
  <2>3. Record(m)
    BY <2>2, ErrorMoves
  <2>4. worker[m] = "failing" /\ copy[m].error.code = "exhausted"
    BY <2>1, <2>3, RecordCases DEF TypeOK
  <2> QED
    BY <2>1, <2>4 DEF FailInv
<1> QED
  BY <1>1, CalmInvariant, PTL DEF Spec, VerdictAfterAll

\* No group waits for a link that never comes: wherever nothing is under way and a
\* mirror waits, a member holds the group open or this machine failed, over
\* hand-overs, cancels, resumes, crashes and starts (`wake_mirror`,
\* `recover_stalled_mirror_groups`).
THEOREM WaitingGroupIsHeld ==
    ASSUME Races = {}
    PROVE  Spec => []TurnIsHeld
<1>1. CInv => TurnIsHeld
  <2> SUFFICES ASSUME CInv, Quiet, ~LocallyFailed, NEW k \in Mirrors, state[k] = "skipped"
               PROVE  \E m \in Mirrors : holds_the_group_open(state[m])
    BY DEF TurnIsHeld
  <2>1. HeldInv /\ TypeOK
    BY DEF CInv, MInv
  <2>2. ~Promised
    BY <2>1, RequestFields DEF Promised, Quiet
  <2>3. \A m \in Mirrors : worker[m] # "given_up"
    BY DEF Quiet, NoWorker
  <2>4. Kept
    BY <2>1, <2>2, <2>3 DEF HeldInv, Quiet, Waits
  <2>5. \A m \in Mirrors : ~Local(m)
    BY DEF LocallyFailed, Local
  <2> QED
    BY <2>4, <2>5 DEF Kept, Good, Open
<1> QED
  BY <1>1, CalmInvariant, PTL

=============================================================================

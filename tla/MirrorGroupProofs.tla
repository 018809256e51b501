-------------------------- MODULE MirrorGroupProofs --------------------------
(***************************************************************************)
(* Theorems about MirrorGroup, for any number of members, kinds of failure, *)
(* retries, rounds, requests and crashes, that need of the coincidences only *)
(* that a pass begins when the attempts of the last one have begun and that *)
(* requests keep clear of hand-overs and of cancelled attempts (Separate).  *)
(***************************************************************************)
EXTENDS MirrorGroup, TLAPS

Separate == Races \cap {"late_start", "request"} = {}

-----------------------------------------------------------------------------
(* The inductive invariant.                                                *)

\* The states a member of a group comes into here.
MirrorState == {"queued", "resolving", "retry_wait", "skipped", "blocked", "failed",
                "cancelled", "completed"}

Starting(m) == worker[m] \in {"claimed", "begin"}
Taken(m)    == has_taken_the_turn(state[m])
InPass(m)   == pass[m] # NoRow

\* An attempt, its row and what it was started with.
WorkInv ==
    \A m \in Mirrors :
        /\ state[m] \in MirrorState
        /\ m \in due => state[m] = "retry_wait"
        /\ worker[m] # "idle" => copy[m] \in Row
        /\ worker[m] = "claimed" => is_startable(copy[m].state)
        /\ worker[m] \in {"working", "failing"} => state[m] = "resolving"
        /\ worker[m] = "failing" /\ copy[m].error.code = "handover" => next[m] # 0
        /\ worker[m] = "given_up" => next[m] # 0

\* What excludes what: the loop does one thing at a time, requests wait for it to
\* be idle, a process that is down does nothing.
OrderInv ==
    /\ request.at = "idle" <=> request.op = None
    /\ request.at = "idle" => request = NoRequest
    /\ request.at # "idle" => request.on # 0 /\ Idle
    /\ request.at \in {"write", "wake", "promote"} => request.op = "cancel"
    /\ request.at \in {"stand", "queue"} => request.op = "resume"
    /\ request.at = "promote" => request.to # 0
    /\ request.at = "write" => worker[request.on] = "idle"
    /\ ~Idle => cancelled = {}
    /\ pass = NoGroup \/ retrying = 0
    /\ group # NoGroup => pass # NoGroup
    /\ life # "up" => /\ Idle /\ group = NoGroup /\ request = NoRequest /\ cancelled = {}
                      /\ \A m \in Mirrors : worker[m] = "idle"

\* One member has the turn or is about to take it.
TurnInv ==
    /\ OneAtATime
    /\ \A m \in Mirrors : Starting(m) =>
          \A n \in Mirrors : ~Taken(n) /\ (Starting(n) => n = m)

\* `n` goes before `m` by their errors, account and place.
Ahead(n, cleanN, m, cleanM) ==
    \/ cleanN /\ ~cleanM
    \/ /\ cleanN <=> cleanM
       /\ \/ n \in WithAccount /\ m \notin WithAccount
          \/ (n \in WithAccount <=> m \in WithAccount) /\ n < m

\* A row the pass has still to look at is as it was read, but for an error that
\* may be gone, and stands down for whoever took the turn since.
PassInv ==
    \A m \in Mirrors : InPass(m) =>
        /\ is_startable(state[m]) /\ is_startable(pass[m].state) /\ ~Starting(m)
        /\ pass[m].error = NoError => error[m] = NoError
        /\ \A n \in Mirrors \ {m} : Starting(n) =>
              /\ is_startable(state[n])
              /\ Ahead(n, error[n] = NoError, m, pass[m].error = NoError)
        /\ group # NoGroup =>
              /\ is_startable(group[m].state)
              /\ pass[m].error = NoError => group[m].error = NoError
              /\ \A n \in Mirrors \ {m} : Taken(n) \/ Starting(n) => StandsDown(m)

MInv == TypeOK /\ WorkInv /\ OrderInv /\ TurnInv /\ PassInv

-----------------------------------------------------------------------------
(* What the states, the queueing of a row and a failure come to.           *)

LEMMA Moves ==
    ASSUME NEW s \in MirrorState
    PROVE  /\ s \in DownloadState
           /\ can_transition_to(s, "queued")
                <=> s \in {"queued", "retry_wait", "skipped", "blocked", "failed", "cancelled"}
           /\ can_transition_to(s, "resolving")
                <=> s \in {"queued", "retry_wait", "blocked", "resolving"}
           /\ can_transition_to(s, "skipped")
                <=> s \in {"queued", "retry_wait", "blocked", "failed", "skipped"}
           /\ can_transition_to(s, "cancelled") <=> s # "completed"
           /\ is_working(s) <=> s = "resolving"
           /\ is_startable(s) <=> s \in {"queued", "retry_wait"}
           /\ is_contending(s) <=> s \in {"queued", "retry_wait"}
           /\ has_taken_the_turn(s) <=> s \in {"resolving", "completed"}
           /\ holds_the_group_open(s)
                <=> s \in {"resolving", "completed", "queued", "retry_wait", "blocked"}
  BY DEF MirrorState, DownloadState, can_transition_to, Successors, Gone, is_working,
     is_startable, is_contending, has_taken_the_turn, holds_the_file, holds_the_group_open

\* A member that is not under way is put into the queue.
Queued(m) ==
    /\ state[m] \in {"queued", "retry_wait", "skipped", "blocked", "failed", "cancelled"}
    /\ state' = [state EXCEPT ![m] = "queued"]
    /\ error' = [error EXCEPT ![m] = NoError]
    /\ tries' \in [Mirrors -> Nat]
    /\ due' = due \ {m}

LEMMA QueuedBy ==
    ASSUME TypeOK, WorkInv, NEW m \in Mirrors
    PROVE  /\ Transition(m, "queued") => Queued(m)
           /\ Requeued(m) => (state[m] = "failed" /\ Queued(m)) \/ UNCHANGED rowVars
<1>1. state[m] \in MirrorState /\ (m \in due => state[m] = "retry_wait")
  BY DEF WorkInv
<1>2. Transition(m, "queued") => Queued(m)
  BY <1>1, Moves DEF Transition, Queued, TypeOK
<1>3. ASSUME Requeued(m), state[m] = "failed" PROVE Queued(m)
  <2>1. due \ {m} = due
    BY <1>1, <1>3
  <2> QED
    BY <1>3, <2>1 DEF Requeued, Queued, TypeOK
<1> QED
  BY <1>2, <1>3 DEF Requeued

\* What a failure decides on.
LEMMA FailCases ==
    ASSUME TypeOK, WorkInv, NEW m \in Mirrors, Fail(m)
    PROVE  /\ worker[m] = "working" /\ worker' = [worker EXCEPT ![m] = "failing"]
           /\ "fail_in_pass" \in Races \/ pass = NoGroup
           /\ "request" \in Races \/ request = NoRequest
           /\ UNCHANGED <<rowVars, passVars, cancelled, request, life, boundVars, cut>>
           /\ copy' \in [Mirrors -> Row \cup {NoRow}] /\ copy'[m] \in Row
           /\ copy'[m].tries = copy[m].tries
           /\ \A n \in Mirrors \ {m} : copy'[n] = copy[n] /\ next'[n] = next[n]
           /\ next' \in [Mirrors -> Mirrors \cup {0}]
           /\ LET why == copy'[m].error IN
              /\ why.kind \in Kinds
              /\ why.code \in {"own", "handover", "exhausted"}
              /\ why.code = "own" => Retries(m, why.kind) \/ why.kind = "local"
              /\ why.code = "handover" => next'[m] \in Waiting(rows, m)
              /\ why.code = "exhausted" => Waiting(rows, m) = {}
<1> DEFINE waiting == Waiting(rows, m)
           code(kind) == CASE ~hands_over(m, kind)                 -> "own"
                           [] hands_over(m, kind) /\ waiting # {}  -> "handover"
                           [] hands_over(m, kind) /\ waiting = {}
                              /\ Retries(m, kind)                  -> "own"
                           [] OTHER                                -> "exhausted"
           why(kind) == IF code(kind) = "exhausted" THEN Verdict(m, kind) ELSE kind
<1>1. PICK kind \in Kinds :
          /\ copy' = [copy EXCEPT ![m].error = [kind |-> why(kind), code |-> code(kind)]]
          /\ IF code(kind) = "handover"
             THEN \E n \in waiting : /\ IsBest(rows, n, waiting)
                                     /\ next' = [next EXCEPT ![m] = n]
             ELSE UNCHANGED next
  BY DEF Fail
<1>2. /\ code(kind) \in {"own", "handover", "exhausted"}
      /\ code(kind) = "own" => ~hands_over(m, kind) \/ Retries(m, kind)
      /\ code(kind) = "exhausted" => waiting = {}
  OBVIOUS
<1>3. ~hands_over(m, kind) => Retries(m, kind) \/ kind = "local"
  BY DEF hands_over
<1>4. Verdict(m, kind) \in Kinds
  <2>1. 1 \in Mirrors /\ copy[m] \in Row
    BY MirrorGroupAssumption DEF Mirrors, WorkInv, Fail
  <2>2. copy[m].error \in Error /\ error[1] \in Error
    BY <2>1 DEF Row, TypeOK
  <2> QED
    BY <2>2 DEF Verdict, Error
<1>5. why(kind) \in Kinds /\ (code(kind) # "exhausted" => why(kind) = kind)
  BY <1>4
<1>6. copy[m] \in Row
  BY DEF WorkInv, Fail
<1> HIDE DEF code, why
<1>7. [kind |-> why(kind), code |-> code(kind)] \in Error
  BY <1>2, <1>5 DEF Error
<1>8. /\ copy'[m] = [copy[m] EXCEPT !.error = [kind |-> why(kind), code |-> code(kind)]]
      /\ copy' \in [Mirrors -> Row \cup {NoRow}] /\ copy'[m] \in Row
      /\ \A n \in Mirrors \ {m} : copy'[n] = copy[n]
  BY <1>1, <1>6, <1>7 DEF TypeOK, Row
<1>9. /\ copy'[m].tries = copy[m].tries
      /\ copy'[m].error.kind = why(kind) /\ copy'[m].error.code = code(kind)
  BY <1>6, <1>8 DEF Row
<1>10. waiting \subseteq Mirrors
  BY DEF Waiting
<1>11. /\ next' \in [Mirrors -> Mirrors \cup {0}]
       /\ \A n \in Mirrors \ {m} : next'[n] = next[n]
       /\ code(kind) = "handover" => next'[m] \in waiting
  BY <1>1, <1>10 DEF TypeOK
<1> HIDE DEF waiting
<1>12. why(kind) = kind \/ code(kind) = "exhausted"
  BY <1>5
<1>13. code(kind) = "own" => Retries(m, why(kind)) \/ why(kind) = "local"
  BY <1>2, <1>3, <1>12
<1> QED
  BY <1>2, <1>5, <1>8, <1>9, <1>11, <1>13 DEF Fail, At, waiting

\* What the record of a failure writes.
LEMMA RecordCases ==
    ASSUME NEW m \in Mirrors, Record(m)
    PROVE  /\ worker[m] = "failing"
           /\ worker' = [worker EXCEPT ![m] = IF copy[m].error.code = "handover"
                                              THEN "given_up" ELSE "tail"]
           /\ \E s \in {"retry_wait", "blocked", "failed"} : state' = [state EXCEPT ![m] = s]
           /\ due' = due \ {m}
           /\ error' = [error EXCEPT ![m] = [kind |-> copy[m].error.kind,
                                            code |-> copy[m].error.code]]
           /\ LET why   == copy[m].error
                  retry == why.code = "own" /\ Retries(m, why.kind) IN
              /\ retry => state' = [state EXCEPT ![m] = "retry_wait"]
              /\ ~retry /\ why.kind # "refused" => state' = [state EXCEPT ![m] = "failed"]
              /\ ~retry => \E s \in {"blocked", "failed"} : state' = [state EXCEPT ![m] = s]
           /\ UNCHANGED <<passVars, copy, next, cancelled, request, life, boundVars, cut>>
<1> DEFINE why   == copy[m].error
           retry == why.code = "own" /\ Retries(m, why.kind)
           s     == CASE retry                -> "retry_wait"
                      [] why.kind = "refused" -> "blocked"
                      [] OTHER                -> "failed"
<1>1. retry => why.kind # "refused"
  BY DEF Retries
<1>2. /\ s \in {"retry_wait", "blocked", "failed"}
      /\ ~retry => s \in {"blocked", "failed"}
      /\ ~retry /\ why.kind # "refused" => s = "failed"
      /\ retry => s = "retry_wait"
  BY <1>1
<1>3. state' = [state EXCEPT ![m] = s]
  BY DEF Record, RecordFailure
<1> HIDE DEF s
<1> QED
  BY <1>2, <1>3 DEF Record, RecordFailure, At

\* The request under way goes on to a step.
Goes(step) == /\ request'.at = step
              /\ request'.op = request.op /\ request'.on = request.on

LEMMA RequestFields ==
    ASSUME TypeOK
    PROVE  /\ NoRequest.op = None /\ NoRequest.on = 0 /\ NoRequest.at = "idle"
           /\ NoRequest.left = {} /\ NoRequest.to = 0
           /\ \A op \in Ops, m \in Mirrors : Ask(op, m) =>
                 /\ request = NoRequest
                 /\ request'.op = op /\ request'.on = m /\ request'.at = "read"
           /\ CancelToken =>
                 \/ worker[request.on] # "idle" /\ Goes("wake")
                 \/ worker[request.on] = "idle" /\ Goes("write")
           /\ CancelRow => Goes("wake") \/ request' = NoRequest
           /\ WakeMirror =>
                 \/ Waiting(rows, request.on) = {} /\ request' = NoRequest
                 \/ Goes("promote") /\ request'.to \in Waiting(rows, request.on)
           /\ ResumeRead =>
                 \/ state[request.on] # "skipped" /\ Goes("queue")
                 \/ state[request.on] = "skipped" /\ request' = NoRequest
                 \/ /\ state[request.on] = "skipped" /\ Goes("stand")
                    /\ \A n \in request'.left :
                          n \in Mirrors \ {request.on} /\ is_contending(state[n])
           /\ ResumeStand =>
                 \/ request.left = {} /\ Goes("queue") /\ UNCHANGED rowVars
                 \/ \E n \in request.left : /\ Transition(n, "skipped") /\ Goes("stand")
                                             /\ request'.left = request.left \ {n}
                 \/ \E n \in request.left : /\ ~can_transition_to(state[n], "skipped")
                                             /\ request' = NoRequest /\ UNCHANGED rowVars
<1> USE DEF TypeOK, Goes, Proceed
<1>1. /\ NoRequest.op = None /\ NoRequest.on = 0 /\ NoRequest.at = "idle"
      /\ NoRequest.left = {} /\ NoRequest.to = 0
  BY DEF NoRequest
<1>2. ASSUME NEW op \in Ops, NEW m \in Mirrors, Ask(op, m)
      PROVE  /\ request = NoRequest
             /\ request'.op = op /\ request'.on = m /\ request'.at = "read"
  BY <1>2 DEF Ask, NoRequest
<1>3. CancelToken => \/ worker[request.on] # "idle" /\ Goes("wake")
                     \/ worker[request.on] = "idle" /\ Goes("write")
  BY DEF CancelToken
<1>4. CancelRow => Goes("wake") \/ request' = NoRequest
  BY DEF CancelRow
<1>5. WakeMirror => \/ Waiting(rows, request.on) = {} /\ request' = NoRequest
                    \/ Goes("promote") /\ request'.to \in Waiting(rows, request.on)
  BY DEF WakeMirror
<1>6. ASSUME ResumeRead
      PROVE  \/ state[request.on] # "skipped" /\ Goes("queue")
             \/ state[request.on] = "skipped" /\ request' = NoRequest
             \/ /\ state[request.on] = "skipped" /\ Goes("stand")
                /\ \A n \in request'.left :
                      n \in Mirrors \ {request.on} /\ is_contending(state[n])
  <2> DEFINE left == {n \in Mirrors \ {request.on} : is_contending(state[n])}
  <2>1. \A n \in left : n \in Mirrors \ {request.on} /\ is_contending(state[n])
    OBVIOUS
  <2>2. \/ state[request.on] # "skipped" /\ Proceed("queue")
        \/ state[request.on] = "skipped" /\ request' = NoRequest
        \/ /\ state[request.on] = "skipped"
           /\ request' = [request EXCEPT !.at = "stand", !.left = left]
    BY <1>6 DEF ResumeRead
  <2> HIDE DEF left
  <2>3. ASSUME request' = [request EXCEPT !.at = "stand", !.left = left]
        PROVE  Goes("stand") /\ request'.left = left
    BY <2>3
  <2> QED
    BY <2>1, <2>2, <2>3
<1>7. ASSUME ResumeStand
      PROVE  \/ request.left = {} /\ Goes("queue") /\ UNCHANGED rowVars
             \/ \E n \in request.left : /\ Transition(n, "skipped") /\ Goes("stand")
                                         /\ request'.left = request.left \ {n}
             \/ \E n \in request.left : /\ ~can_transition_to(state[n], "skipped")
                                         /\ request' = NoRequest /\ UNCHANGED rowVars
  <2>1. request.at = "stand"
    BY <1>7 DEF ResumeStand
  <2>2. CASE request.left = {}
    BY <1>7, <2>2 DEF ResumeStand
  <2>3. CASE request.left # {}
    <3>1. PICK n \in request.left :
             \/ Transition(n, "skipped") /\ request' = [request EXCEPT !.left = request.left \ {n}]
             \/ /\ ~can_transition_to(state[n], "skipped")
                /\ request' = NoRequest /\ UNCHANGED rowVars
      BY <1>7, <2>3 DEF ResumeStand
    <3>2. ASSUME request' = [request EXCEPT !.left = request.left \ {n}]
          PROVE  Goes("stand") /\ request'.left = request.left \ {n}
      BY <2>1, <3>2
    <3> QED
      BY <3>1, <3>2
  <2> QED
    BY <2>2, <2>3
<1> QED
  BY <1>1, <1>2, <1>3, <1>4, <1>5, <1>6, <1>7

Step == {"idle", "read", "write", "wake", "promote", "stand", "queue"}

LEMMA RequestTyped ==
    ASSUME TypeOK
    PROVE  LET R == [op : Ops \cup {None}, on : Mirrors \cup {0}, at : Step,
                     left : SUBSET Mirrors, to : Mirrors \cup {0}] IN
           /\ request \in R /\ NoRequest \in R
           /\ \A step \in Step : [request EXCEPT !.at = step] \in R
           /\ \A step \in Step, n \in Mirrors : [request EXCEPT !.at = step, !.to = n] \in R
           /\ \A step \in Step, left \in SUBSET Mirrors :
                 [request EXCEPT !.at = step, !.left = left] \in R
           /\ \A left \in SUBSET Mirrors : [request EXCEPT !.left = left] \in R
           /\ \A op \in Ops, m \in Mirrors :
                 [NoRequest EXCEPT !.op = op, !.on = m, !.at = "read"] \in R
  BY DEF TypeOK, NoRequest, Step

LEMMA RowTyped ==
    ASSUME TypeOK
    PROVE  /\ rows \in [Mirrors -> Row] /\ \A m \in Mirrors : row(m) \in Row
           /\ NoRow \notin Row
           /\ \A m \in Mirrors : /\ rows[m] = row(m)
                                 /\ row(m).state = state[m] /\ row(m).error = error[m]
<1>1. \A m \in Mirrors : row(m) \in Row
  BY DEF TypeOK, row, Row
<1>2. NoRow \notin Row
  BY DEF NoRow, Row, None, DownloadState
<1> QED
  BY <1>1, <1>2 DEF rows, row

LEMMA InitInv == Init => MInv
<1> SUFFICES ASSUME Init PROVE MInv
  OBVIOUS
<1> USE MirrorGroupAssumption DEF Init
<1>1. TypeOK
  <2>1. state \in [Mirrors -> DownloadState] /\ error \in [Mirrors -> Error]
    BY DEF Error, DownloadState
  <2>2. request \in [op : Ops \cup {None}, on : Mirrors \cup {0},
                     at : {"idle", "read", "write", "wake", "promote", "stand", "queue"},
                     left : SUBSET Mirrors, to : Mirrors \cup {0}]
    BY DEF NoRequest
  <2>3. pass \in [Mirrors -> Row \cup {NoRow}] /\ copy \in [Mirrors -> Row \cup {NoRow}]
    BY DEF NoGroup
  <2>4. rounds \in 0 .. MaxRounds /\ requests \in 0 .. MaxRequests /\ crashes \in 0 .. MaxCrashes
    OBVIOUS
  <2> QED
    BY <2>1, <2>2, <2>3, <2>4 DEF TypeOK
<1>2. WorkInv
  BY DEF WorkInv, MirrorState
<1>3. OrderInv
  BY DEF OrderInv, NoRequest, Idle, None
<1>4. TurnInv
  BY DEF TurnInv, OneAtATime, Starting, has_taken_the_turn, holds_the_file, is_working
<1>5. PassInv
  BY DEF PassInv, InPass, NoGroup
<1> QED
  BY <1>1, <1>2, <1>3, <1>4, <1>5 DEF MInv

\* The parts of the type invariant, as the actions touch them.
RowTypes  == /\ state \in [Mirrors -> DownloadState] /\ error \in [Mirrors -> Error]
             /\ tries \in [Mirrors -> Nat] /\ due \subseteq Mirrors
PassTypes == /\ pass \in [Mirrors -> Row \cup {NoRow}]
             /\ group \in [Mirrors -> Row] \cup {NoGroup}
             /\ retrying \in Mirrors \cup {0}
WorkTypes == /\ worker \in [Mirrors -> {"idle", "claimed", "begin", "working", "failing",
                                        "given_up", "tail"}]
             /\ copy \in [Mirrors -> Row \cup {NoRow}]
             /\ next \in [Mirrors -> Mirrors \cup {0}]
             /\ cancelled \subseteq {m \in Mirrors : worker[m] # "idle"}

LEMMA QueuedTypes ==
    ASSUME TypeOK, NEW m \in Mirrors, Queued(m) PROVE RowTypes'
  BY DEF TypeOK, Queued, RowTypes, Error, DownloadState

LEMMA TransitionTypes ==
    ASSUME TypeOK, NEW m \in Mirrors, NEW s \in MirrorState, Transition(m, s) PROVE RowTypes'
  BY Moves DEF TypeOK, Transition, RowTypes, Error

\* A worker's own row typed after each of its steps.
LEMMA NextRowTypes ==
    ASSUME TypeOK, WorkInv, OrderInv, [Next]_vars
    PROVE  RowTypes'
<1> USE DEF rowVars, passVars, workVars, boundVars
<1>u. UNCHANGED rowVars => RowTypes'
  BY DEF TypeOK, RowTypes
<1>1. CASE BeginPass
  BY <1>1, <1>u DEF BeginPass
<1>2. CASE AutoRetry
  <2>1. retrying \in Mirrors /\ Requeued(retrying)
    BY <1>2 DEF AutoRetry, TypeOK
  <2> QED
    BY <2>1, <1>u, QueuedBy, QueuedTypes
<1>3. ASSUME NEW m \in Mirrors,
             ReadGroup(m) \/ Claim(m) \/ SeeFailed(m) \/ Fail(m) \/ GiveBack(m)
      PROVE  RowTypes'
  BY <1>3, <1>u DEF ReadGroup, Claim, SeeFailed, Fail, GiveBack
<1>4. ASSUME NEW m \in Mirrors, StandDown(m) PROVE RowTypes'
  BY <1>4, <1>u, TransitionTypes DEF StandDown, MirrorState
<1>5. ASSUME NEW m \in Mirrors, TimePasses(m) PROVE RowTypes'
  BY <1>5 DEF TimePasses, TypeOK, RowTypes
<1>6. ASSUME NEW m \in Mirrors, Begin(m) \/ Stopped(m) PROVE RowTypes'
  BY <1>6, <1>u, TransitionTypes DEF Begin, Stopped, Advance, MirrorState
<1>7. ASSUME NEW m \in Mirrors, Completed(m) PROVE RowTypes'
  BY <1>7 DEF Completed, TypeOK, RowTypes, DownloadState
<1>8. ASSUME NEW m \in Mirrors, Record(m) PROVE RowTypes'
  <2>1. copy[m] \in Row
    BY <1>8 DEF Record, WorkInv
  <2> DEFINE why == copy[m].error
  <2>2. why \in Error
    BY <2>1 DEF Row
  <2>3. [kind |-> why.kind, code |-> why.code] \in Error
    BY <2>2 DEF Error, NoError
  <2>4. RecordFailure(m, why.kind, why.code, why.code = "own" /\ Retries(m, why.kind))
    BY <1>8 DEF Record
  <2>5. state' \in [Mirrors -> DownloadState]
    BY <2>4 DEF RecordFailure, TypeOK, DownloadState
  <2> QED
    BY <2>3, <2>4, <2>5 DEF RecordFailure, TypeOK, RowTypes
<1>9. ASSUME NEW m \in Mirrors, Promote(m) PROVE RowTypes'
  <2>1. next[m] \in Mirrors
    BY <1>9 DEF Promote, WorkInv, TypeOK
  <2> QED
    BY <1>9, <1>u, <2>1, TransitionTypes DEF Promote, MirrorState
<1>10. ASSUME NEW op \in Ops, NEW m \in Mirrors, Ask(op, m) PROVE RowTypes'
  BY <1>10, <1>u DEF Ask
<1>11. CASE CancelToken \/ WakeMirror \/ ResumeRead
  BY <1>11, <1>u DEF CancelToken, WakeMirror, ResumeRead
<1>12. CASE CancelRow
  <2>1. request.on \in Mirrors
    BY <1>12 DEF CancelRow, OrderInv, TypeOK
  <2> QED
    BY <1>12, <1>u, <2>1, TransitionTypes DEF CancelRow, MirrorState
<1>13. CASE WakePromote
  <2>1. request.to \in Mirrors
    BY <1>13 DEF WakePromote, OrderInv, TypeOK
  <2> QED
    BY <1>13, <1>u, <2>1, TransitionTypes DEF WakePromote, MirrorState
<1>14. CASE ResumeStand
  <2>1. request.left \subseteq Mirrors
    BY DEF TypeOK
  <2> QED
    BY <1>14, <1>u, <2>1, TransitionTypes DEF ResumeStand, MirrorState
<1>15. CASE ResumeQueue
  <2>1. request.on \in Mirrors
    BY <1>15 DEF ResumeQueue, OrderInv, TypeOK
  <2> QED
    BY <1>15, <1>u, <2>1, QueuedBy, QueuedTypes DEF ResumeQueue
<1>16. CASE Crash
  BY <1>16, <1>u DEF Crash
<1>17. CASE Recover
  BY <1>17 DEF Recover, TypeOK, RowTypes, DownloadState
<1>18. CASE Sweep
  <2>1. Waiting(rows, 0) \subseteq Mirrors
    BY DEF Waiting
  <2> QED
    BY <1>18, <1>u, <2>1, TransitionTypes DEF Sweep, MirrorState
<1>19. CASE UNCHANGED vars
  BY <1>19, <1>u DEF vars
<1> QED
  BY <1>1, <1>2, <1>3, <1>4, <1>5, <1>6, <1>7, <1>8, <1>9, <1>10, <1>11, <1>12, <1>13, <1>14,
     <1>15, <1>16, <1>17, <1>18, <1>19 DEF Next, Supervise, Handler, Worker

LEMMA NextTypes ==
    ASSUME TypeOK, WorkInv, OrderInv, [Next]_vars
    PROVE  TypeOK'
<1> USE DEF rowVars, passVars, workVars, boundVars
<1>r. RowTypes'
  BY NextRowTypes
<1> DEFINE R == [op : Ops \cup {None}, on : Mirrors \cup {0}, at : Step,
                 left : SUBSET Mirrors, to : Mirrors \cup {0}]
           Bounds == /\ rounds \in 0 .. MaxRounds /\ requests \in 0 .. MaxRequests
                     /\ crashes \in 0 .. MaxCrashes
           Lives == life \in {"up", "down", "recovered"} /\ cut \in BOOLEAN
<1>t. /\ PassTypes' /\ WorkTypes' /\ request' \in R /\ Bounds' /\ Lives'
      => TypeOK'
  BY <1>r DEF RowTypes, PassTypes, WorkTypes, TypeOK, Step
<1>a. PassTypes /\ WorkTypes /\ request \in R /\ Bounds /\ Lives
  BY DEF TypeOK, PassTypes, WorkTypes, Step
<1>p. UNCHANGED <<pass, group, retrying>> => PassTypes'
  BY <1>a DEF PassTypes
<1>w. UNCHANGED <<worker, copy, next, cancelled>> => WorkTypes'
  BY <1>a DEF WorkTypes
<1>b. UNCHANGED <<rounds, requests, crashes>> => Bounds'
  BY <1>a
<1>l. UNCHANGED <<life, cut>> => Lives'
  BY <1>a
<1>q. UNCHANGED request => request' \in R
  BY <1>a
<1>c. /\ NoRequest \in R
      /\ \A step \in Step : [request EXCEPT !.at = step] \in R
      /\ \A step \in Step, n \in Mirrors : [request EXCEPT !.at = step, !.to = n] \in R
      /\ \A step \in Step, left \in SUBSET Mirrors :
            [request EXCEPT !.at = step, !.left = left] \in R
      /\ \A left \in SUBSET Mirrors : [request EXCEPT !.left = left] \in R
  BY RequestTyped
<1>d. {"wake", "write", "promote", "queue", "stand"} \subseteq Step
  BY DEF Step
<1> HIDE DEF Bounds, Lives, R
<1>1. CASE BeginPass
  <2>1. PassTypes'
    BY <1>1, <1>a, RowTyped DEF BeginPass, PassTypes
  <2> QED
    BY <1>1, <2>1, <1>t, <1>w, <1>b, <1>l, <1>q DEF BeginPass
<1>2. CASE AutoRetry
  <2>1. PassTypes'
    BY <1>2, <1>a DEF AutoRetry, PassTypes
  <2> QED
    BY <1>2, <2>1, <1>t, <1>w, <1>b, <1>l, <1>q DEF AutoRetry
<1>3. ASSUME NEW m \in Mirrors, ReadGroup(m) PROVE TypeOK'
  <2>1. PassTypes'
    BY <1>3, <1>a, RowTyped DEF ReadGroup, PassTypes
  <2> QED
    BY <1>3, <2>1, <1>t, <1>w, <1>b, <1>l, <1>q DEF ReadGroup
<1>4. ASSUME NEW m \in Mirrors, StandDown(m) PROVE TypeOK'
  <2>1. PassTypes'
    BY <1>4, <1>a DEF StandDown, PassedOver, PassTypes, NoGroup
  <2> QED
    BY <1>4, <2>1, <1>t, <1>w, <1>b, <1>l, <1>q DEF StandDown
<1>5. ASSUME NEW m \in Mirrors, Claim(m) PROVE TypeOK'
  <2>1. PassTypes'
    BY <1>5, <1>a DEF Claim, PassedOver, PassTypes
  <2>2. WorkTypes'
    BY <1>5, <1>a DEF Claim, untouchable, PassTypes, WorkTypes
  <2> QED
    BY <1>5, <2>1, <2>2, <1>t, <1>b, <1>l, <1>q DEF Claim
<1>6. ASSUME NEW m \in Mirrors, SeeFailed(m) PROVE TypeOK'
  <2>1. PassTypes'
    BY <1>6, <1>a DEF SeeFailed, PassTypes
  <2>2. Bounds'
    BY <1>6, <1>a, MirrorGroupAssumption DEF SeeFailed, Bounds
  <2> QED
    BY <1>6, <2>1, <2>2, <1>t, <1>w, <1>l, <1>q DEF SeeFailed
<1>7. ASSUME NEW m \in Mirrors, TimePasses(m) PROVE TypeOK'
  BY <1>7, <1>t, <1>p, <1>w, <1>b, <1>l, <1>q DEF TimePasses
<1>8. ASSUME NEW m \in Mirrors,
             Begin(m) \/ Stopped(m) \/ Completed(m) \/ Record(m) \/ Promote(m)
      PROVE  TypeOK'
  <2>1. /\ \E step \in {"begin", "working", "tail", "given_up"} : At(m, step)
        /\ UNCHANGED <<copy, next, cancelled, passVars, request, life, boundVars, cut>>
    BY <1>8 DEF Begin, Stopped, Advance, Completed, Record, Promote
  <2>2. WorkTypes'
    BY <2>1, <1>a DEF At, WorkTypes
  <2> QED
    BY <2>1, <2>2, <1>t, <1>p, <1>b, <1>l, <1>q
<1>9. ASSUME NEW m \in Mirrors, Fail(m) PROVE TypeOK'
  <2>1. WorkTypes'
    BY <1>9, <1>a, FailCases DEF WorkTypes
  <2> QED
    BY <1>9, <2>1, FailCases, <1>t, <1>p, <1>b, <1>l, <1>q
<1>10. ASSUME NEW m \in Mirrors, GiveBack(m) PROVE TypeOK'
  <2>1. WorkTypes'
    BY <1>10, <1>a DEF GiveBack, At, WorkTypes
  <2> QED
    BY <1>10, <2>1, <1>t, <1>p, <1>b, <1>l, <1>q DEF GiveBack
<1>11. ASSUME NEW op \in Ops, NEW m \in Mirrors, Ask(op, m) PROVE TypeOK'
  <2>1. request' \in R
    BY <1>11, RequestTyped DEF Ask, R
  <2>2. Bounds'
    BY <1>11, <1>a, MirrorGroupAssumption DEF Ask, Bounds
  <2> QED
    BY <1>11, <2>1, <2>2, <1>t, <1>p, <1>w, <1>l DEF Ask
<1>12. CASE CancelToken
  <2>1. request' \in R
    BY <1>12, RequestTyped DEF CancelToken, Proceed, R, Step
  <2>2. request.on \in Mirrors
    BY <1>12 DEF CancelToken, OrderInv, TypeOK
  <2>3. WorkTypes'
    BY <1>12, <1>a, <2>2 DEF CancelToken, WorkTypes
  <2> QED
    BY <1>12, <2>1, <2>3, <1>t, <1>p, <1>b, <1>l DEF CancelToken
<1>13. CASE CancelRow \/ WakePromote \/ ResumeQueue
  <2>1. request' \in R
    <3>1. request' = NoRequest \/ request' = [request EXCEPT !.at = "wake"]
      BY <1>13 DEF CancelRow, WakePromote, ResumeQueue, Proceed
    <3> QED
      BY <3>1, <1>c, <1>d
  <2> QED
    BY <1>13, <2>1, <1>t, <1>p, <1>w, <1>b, <1>l DEF CancelRow, WakePromote, ResumeQueue
<1>14. CASE WakeMirror
  <2>1. Waiting(rows, request.on) \subseteq Mirrors
    BY DEF Waiting
  <2>2. request' \in R
    <3>1. \/ request' = NoRequest
          \/ \E n \in Mirrors : request' = [request EXCEPT !.at = "promote", !.to = n]
      BY <1>14, <2>1 DEF WakeMirror
    <3> QED
      BY <3>1, <1>c, <1>d
  <2> QED
    BY <1>14, <2>2, <1>t, <1>p, <1>w, <1>b, <1>l DEF WakeMirror
<1>15. CASE ResumeRead
  <2>1. request' \in R
    <3>1. \/ request' = NoRequest
          \/ request' = [request EXCEPT !.at = "queue"]
          \/ \E left \in SUBSET Mirrors : request' = [request EXCEPT !.at = "stand", !.left = left]
      BY <1>15 DEF ResumeRead, Proceed
    <3> QED
      BY <3>1, <1>c, <1>d
  <2> QED
    BY <1>15, <2>1, <1>t, <1>p, <1>w, <1>b, <1>l DEF ResumeRead
<1>16. CASE ResumeStand
  <2>1. \A n : request.left \ {n} \in SUBSET Mirrors
    BY DEF TypeOK
  <2>2. request' \in R
    <3>1. \/ request' = NoRequest
          \/ request' = [request EXCEPT !.at = "queue"]
          \/ \E left \in SUBSET Mirrors : request' = [request EXCEPT !.left = left]
      BY <1>16, <2>1 DEF ResumeStand, Proceed
    <3> QED
      BY <3>1, <1>c, <1>d
  <2> QED
    BY <1>16, <2>2, <1>t, <1>p, <1>w, <1>b, <1>l DEF ResumeStand
<1>17. CASE Crash
  <2>1. PassTypes' /\ WorkTypes'
    BY <1>17, <1>a DEF Crash, PassTypes, WorkTypes, NoGroup
  <2>2. request' \in R /\ life' = "down"
    BY <1>17, RequestTyped DEF Crash, R
  <2>3. cut' \in BOOLEAN
    BY <1>17, Zenon DEF Crash
  <2>4. Bounds'
    BY <1>17, <1>a, MirrorGroupAssumption DEF Crash, Bounds
  <2> QED
    BY <2>1, <2>2, <2>3, <2>4, <1>t DEF Lives
<1>18. CASE Recover \/ Sweep
  <2>1. Lives'
    BY <1>18, <1>a DEF Recover, Sweep, Lives
  <2> QED
    BY <1>18, <2>1, <1>t, <1>p, <1>w, <1>b, <1>q DEF Recover, Sweep
<1>19. CASE UNCHANGED vars
  BY <1>19, <1>t, <1>p, <1>w, <1>b, <1>l, <1>q DEF vars
<1> QED
  BY <1>1, <1>2, <1>3, <1>4, <1>5, <1>6, <1>7, <1>8, <1>9, <1>10, <1>11, <1>12, <1>13, <1>14,
     <1>15, <1>16, <1>17, <1>18, <1>19 DEF Next, Supervise, Handler, Worker

\* The loop, the requests and the process keep out of each other's way.
LEMMA NextOrder ==
    ASSUME Separate, TypeOK, WorkInv, OrderInv, [Next]_vars
    PROVE  OrderInv'
<1> USE RequestFields DEF rowVars, passVars, workVars, boundVars, None
<1>s. "request" \notin Races
  BY DEF Separate
<1>1. CASE BeginPass
  <2>1. /\ Idle /\ request = NoRequest /\ cancelled = {} /\ life = "up"
        /\ UNCHANGED <<group, retrying, worker, cancelled, request, life>>
    BY <1>1, <1>s DEF BeginPass, NoRequestMet
  <2>2. group = NoGroup
    BY <2>1 DEF OrderInv, Idle
  <2> QED
    BY <2>1, <2>2 DEF OrderInv, Idle
<1>2. CASE AutoRetry
  <2>1. ~Idle /\ request.at = "idle" /\ life = "up" /\ pass = NoGroup
    BY <1>2 DEF AutoRetry, OrderInv, Idle, TypeOK
  <2> QED
    BY <1>2, <2>1 DEF AutoRetry, OrderInv, Idle
<1>3. ASSUME NEW m \in Mirrors, ReadGroup(m) PROVE OrderInv'
  <2>1. pass # NoGroup
    BY <1>3 DEF ReadGroup, NextInPass, NoGroup
  <2> QED
    BY <1>3, <2>1 DEF ReadGroup, OrderInv, Idle
<1>4. ASSUME NEW m \in Mirrors, StandDown(m) \/ Claim(m) PROVE OrderInv'
  <2>1. pass # NoGroup /\ ~Idle
    BY <1>4 DEF StandDown, Claim, NextInPass, NoGroup, Idle
  <2>2. request.at = "idle" /\ life = "up" /\ retrying = 0 /\ cancelled = {}
    BY <2>1 DEF OrderInv, TypeOK
  <2>3. group' # NoGroup => pass' # NoGroup
    <3>1. CASE StandDown(m)
      BY <3>1 DEF StandDown
    <3>2. CASE Claim(m)
      <4>1. ASSUME ~LastInPass(m) PROVE pass' # NoGroup
        <5>1. PICK n \in Mirrors \ {m} : pass[n] # NoRow
          BY <4>1 DEF LastInPass
        <5>2. pass'[n] # NoRow
          BY <3>2, <5>1 DEF Claim, PassedOver, TypeOK
        <5> QED
          BY <5>2 DEF NoGroup
      <4> QED
        BY <3>2, <4>1 DEF Claim
    <3> QED
      BY <1>4, <3>1, <3>2
  <2>4. UNCHANGED <<request, retrying, cancelled, life>>
    BY <1>4 DEF StandDown, Claim
  <2> QED
    BY <2>2, <2>3, <2>4 DEF OrderInv, Idle
<1>5. ASSUME NEW m \in Mirrors, SeeFailed(m) PROVE OrderInv'
  <2>1. /\ Idle /\ request = NoRequest /\ cancelled = {} /\ life = "up"
        /\ UNCHANGED <<pass, group, worker, cancelled, request, life>>
    BY <1>5, <1>s DEF SeeFailed, NoRequestMet
  <2> QED
    BY <2>1 DEF OrderInv, Idle
<1>6. ASSUME NEW m \in Mirrors, TimePasses(m) PROVE OrderInv'
  BY <1>6 DEF TimePasses, OrderInv, Idle
<1>7. ASSUME NEW m \in Mirrors, Worker(m) PROVE OrderInv'
  <2>1. /\ worker[m] # "idle" /\ UNCHANGED <<pass, group, retrying, request, life>>
        /\ cancelled' \subseteq cancelled
        /\ \A n \in Mirrors \ {m} : worker'[n] = worker[n]
    BY <1>7 DEF Worker, Begin, Stopped, Advance, Completed, Fail, Record, Promote, GiveBack,
       At, TypeOK
  <2>2. life = "up" /\ (request.at = "write" => request.on # m)
    BY <2>1 DEF OrderInv
  <2>3. request.at = "write" => worker'[request.on] = "idle"
    BY <2>1, <2>2 DEF OrderInv, TypeOK
  <2> QED
    BY <2>1, <2>2, <2>3 DEF OrderInv, Idle
<1>8. ASSUME NEW op \in Ops, NEW m \in Mirrors, Ask(op, m) PROVE OrderInv'
  <2>1. Idle /\ life = "up" /\ UNCHANGED <<pass, group, retrying, worker, cancelled, life>>
    BY <1>8, <1>s DEF Ask
  <2>2. request'.at = "read" /\ request'.op = op /\ request'.on = m
    BY <1>8
  <2>3. op # "none" /\ m # 0
    BY MirrorGroupAssumption DEF Mirrors
  <2> QED
    BY <2>1, <2>2, <2>3 DEF OrderInv, Idle
<1>9. CASE CancelToken
  <2>1. /\ request.at = "read" /\ request.op = "cancel"
        /\ UNCHANGED <<pass, group, retrying, worker, life>>
    BY <1>9 DEF CancelToken
  <2>2. Idle /\ life = "up" /\ request.on # 0
    BY <2>1 DEF OrderInv
  <2>3. /\ request'.op = "cancel" /\ request'.on = request.on /\ request'.at \in {"wake", "write"}
        /\ request'.at = "write" => worker[request.on] = "idle"
    BY <1>9, <2>1 DEF Goes
  <2> QED
    BY <2>1, <2>2, <2>3 DEF OrderInv, Idle
<1>10. CASE CancelRow \/ WakeMirror \/ WakePromote \/ ResumeRead \/ ResumeStand \/ ResumeQueue
  <2>1. request.at # "idle" /\ UNCHANGED <<pass, group, retrying, worker, cancelled, life>>
    BY <1>10 DEF CancelRow, WakeMirror, WakePromote, ResumeRead, ResumeStand, ResumeQueue
  <2>2. Idle /\ life = "up" /\ request.on # 0
    BY <2>1 DEF OrderInv
  <2>3. \A n \in Mirrors : n # 0
    BY MirrorGroupAssumption DEF Mirrors
  <2>4. \/ request' = NoRequest
        \/ /\ request'.on = request.on /\ request'.op = request.op
           /\ \/ request.op = "cancel" /\ request'.at = "wake"
              \/ request.op = "cancel" /\ request'.at = "promote" /\ request'.to # 0
              \/ request.op = "resume" /\ request'.at \in {"queue", "stand"}
    <3>1. CASE CancelRow
      BY <3>1 DEF Goes, CancelRow
    <3>2. CASE WakeMirror
      BY <3>2, <2>3 DEF Goes, WakeMirror, Waiting
    <3>3. CASE WakePromote \/ ResumeQueue
      BY <3>3 DEF WakePromote, ResumeQueue
    <3>4. CASE ResumeRead
      BY <3>4 DEF Goes, ResumeRead
    <3>5. CASE ResumeStand
      BY <3>5 DEF Goes, ResumeStand, OrderInv
    <3> QED
      BY <1>10, <3>1, <3>2, <3>3, <3>4, <3>5
  <2> QED
    BY <2>1, <2>2, <2>4 DEF OrderInv, Idle
<1>11. CASE Crash
  BY <1>11 DEF Crash, OrderInv, Idle
<1>12. CASE Recover \/ Sweep
  BY <1>12 DEF Recover, Sweep, OrderInv, Idle
<1>13. CASE UNCHANGED vars
  BY <1>13 DEF vars, OrderInv, Idle
<1> QED
  BY <1>1, <1>2, <1>3, <1>4, <1>5, <1>6, <1>7, <1>8, <1>9, <1>10, <1>11, <1>12, <1>13
     DEF Next, Supervise, Handler

\* A queued row disturbs no attempt.
LEMMA QueuedWork ==
    ASSUME TypeOK, WorkInv, NEW n \in Mirrors, Queued(n), UNCHANGED <<copy, next>>,
           \/ UNCHANGED worker
           \/ \E m \in Mirrors : worker' = [worker EXCEPT ![m] = "tail"] /\ worker[m] # "idle"
    PROVE  WorkInv'
  BY DEF TypeOK, WorkInv, Queued, MirrorState

\* The same for a member that stands down or is cancelled where no attempt works.
LEMMA SetWork ==
    ASSUME TypeOK, WorkInv, NEW n \in Mirrors, NEW s \in {"skipped", "cancelled"},
           Transition(n, s), worker[n] \notin {"working", "failing"},
           UNCHANGED <<worker, copy, next>>
    PROVE  WorkInv'
  BY DEF TypeOK, WorkInv, Transition, MirrorState

LEMMA NextWork ==
    ASSUME MInv, [Next]_vars
    PROVE  WorkInv'
<1> TypeOK /\ WorkInv /\ OrderInv /\ TurnInv /\ PassInv
  BY DEF MInv
<1> USE DEF rowVars, passVars, workVars, boundVars
<1>u. UNCHANGED <<state, due, worker, copy, next>> => WorkInv'
  BY DEF WorkInv
<1>1. CASE BeginPass
  BY <1>1, <1>u DEF BeginPass
<1>2. CASE AutoRetry
  <2>1. retrying \in Mirrors /\ Requeued(retrying) /\ UNCHANGED <<worker, copy, next>>
    BY <1>2 DEF AutoRetry, TypeOK
  <2> QED
    BY <2>1, <1>u, QueuedBy, QueuedWork
<1>3. ASSUME NEW m \in Mirrors, ReadGroup(m) \/ SeeFailed(m) PROVE WorkInv'
  BY <1>3, <1>u DEF ReadGroup, SeeFailed
<1>4. ASSUME NEW m \in Mirrors, StandDown(m) PROVE WorkInv'
  <2>1. InPass(m) /\ is_startable(state[m])
    BY <1>4 DEF StandDown, NextInPass, InPass, PassInv
  <2>2. worker[m] \notin {"working", "failing"}
    BY <2>1 DEF WorkInv, is_startable
  <2> QED
    BY <1>4, <1>u, <2>2, SetWork DEF StandDown
<1>5. ASSUME NEW m \in Mirrors, Claim(m) PROVE WorkInv'
  <2>1. pass[m] \in Row /\ is_startable(pass[m].state)
    BY <1>5 DEF Claim, NextInPass, InPass, PassInv, TypeOK
  <2> QED
    BY <1>5, <2>1 DEF Claim, untouchable, WorkInv, TypeOK
<1>6. ASSUME NEW m \in Mirrors, TimePasses(m) PROVE WorkInv'
  BY <1>6 DEF TimePasses, WorkInv
<1>7. ASSUME NEW m \in Mirrors, Begin(m) PROVE WorkInv'
  <2>1. CASE Transition(m, "queued") /\ At(m, "begin") /\ UNCHANGED <<copy, next>>
    BY <1>7, <2>1 DEF Begin, Transition, At, WorkInv, TypeOK, MirrorState
  <2>2. CASE Transition(m, "resolving") /\ At(m, "working") /\ UNCHANGED <<copy, next>>
    BY <1>7, <2>2 DEF Begin, Transition, At, WorkInv, TypeOK, MirrorState
  <2>3. CASE At(m, "tail") /\ UNCHANGED <<state, due, copy, next>>
    BY <1>7, <2>3 DEF Begin, At, WorkInv, TypeOK
  <2> QED
    BY <1>7, <2>1, <2>2, <2>3 DEF Begin, Advance
<1>8. ASSUME NEW m \in Mirrors, Stopped(m) PROVE WorkInv'
  BY <1>8 DEF Stopped, Advance, Transition, At, WorkInv, TypeOK, MirrorState
<1>9. ASSUME NEW m \in Mirrors, Completed(m) PROVE WorkInv'
  BY <1>9 DEF Completed, At, WorkInv, TypeOK, MirrorState
<1>10. ASSUME NEW m \in Mirrors, Fail(m) PROVE WorkInv'
  <2>1. copy'[m].error.code = "handover" => next'[m] # 0
    BY <1>10, FailCases, MirrorGroupAssumption DEF Waiting, Mirrors
  <2>2. UNCHANGED <<state, due>>
    BY <1>10, FailCases
  <2> QED
    BY <1>10, <2>1, <2>2, FailCases DEF WorkInv, TypeOK
<1>11. ASSUME NEW m \in Mirrors, Record(m) PROVE WorkInv'
  <2>1. PICK s \in {"retry_wait", "blocked", "failed"} : state' = [state EXCEPT ![m] = s]
    BY <1>11, RecordCases
  <2>2. /\ worker[m] = "failing" /\ UNCHANGED <<copy, next>> /\ due' = due \ {m}
        /\ worker' = [worker EXCEPT ![m] = IF copy[m].error.code = "handover"
                                           THEN "given_up" ELSE "tail"]
    BY <1>11, RecordCases
  <2> QED
    BY <2>1, <2>2 DEF WorkInv, TypeOK, MirrorState
<1>12. ASSUME NEW m \in Mirrors, Promote(m) PROVE WorkInv'
  <2>1. next[m] \in Mirrors /\ worker[m] # "idle" /\ At(m, "tail") /\ UNCHANGED <<copy, next>>
    BY <1>12 DEF Promote, WorkInv, TypeOK
  <2>2. Queued(next[m]) \/ UNCHANGED rowVars
    BY <1>12, <2>1, QueuedBy DEF Promote
  <2>3. ASSUME UNCHANGED rowVars PROVE WorkInv'
    BY <2>1, <2>3 DEF At, WorkInv, TypeOK
  <2> QED
    BY <2>1, <2>2, <2>3, QueuedWork DEF At
<1>13. ASSUME NEW m \in Mirrors, GiveBack(m) PROVE WorkInv'
  BY <1>13 DEF GiveBack, At, WorkInv, TypeOK
<1>14. ASSUME NEW op \in Ops, NEW m \in Mirrors, Ask(op, m) PROVE WorkInv'
  BY <1>14, <1>u DEF Ask
<1>15. CASE CancelToken \/ WakeMirror \/ ResumeRead
  BY <1>15, <1>u DEF CancelToken, WakeMirror, ResumeRead
<1>16. CASE CancelRow
  <2>1. request.on \in Mirrors /\ worker[request.on] = "idle"
    BY <1>16 DEF CancelRow, OrderInv, TypeOK
  <2> QED
    BY <1>16, <2>1, <1>u, SetWork DEF CancelRow
<1>17. CASE WakePromote
  <2>1. request.to \in Mirrors
    BY <1>17 DEF WakePromote, OrderInv, TypeOK
  <2> QED
    BY <1>17, <2>1, <1>u, QueuedBy, QueuedWork DEF WakePromote
<1>18. CASE ResumeStand
  <2>1. ASSUME NEW n \in request.left, Transition(n, "skipped") PROVE WorkInv'
    <3>1. n \in Mirrors /\ state[n] \in MirrorState
      BY DEF TypeOK, WorkInv
    <3>2. worker[n] \notin {"working", "failing"}
      BY <2>1, <3>1, Moves DEF WorkInv, Transition
    <3> QED
      BY <1>18, <2>1, <3>1, <3>2, SetWork DEF ResumeStand
  <2> QED
    BY <1>18, <1>u, <2>1 DEF ResumeStand
<1>19. CASE ResumeQueue
  <2>1. request.on \in Mirrors
    BY <1>19 DEF ResumeQueue, OrderInv, TypeOK
  <2> QED
    BY <1>19, <2>1, <1>u, QueuedBy, QueuedWork DEF ResumeQueue
<1>20. CASE Crash
  BY <1>20 DEF Crash, WorkInv
<1>21. CASE Recover
  <2>1. \A m \in Mirrors : worker[m] = "idle"
    BY <1>21 DEF Recover, OrderInv
  <2> QED
    BY <1>21, <2>1, Moves DEF Recover, WorkInv, TypeOK, MirrorState
<1>22. CASE Sweep
  <2>1. Waiting(rows, 0) \subseteq Mirrors
    BY DEF Waiting
  <2> QED
    BY <1>22, <1>u, <2>1, QueuedBy, QueuedWork DEF Sweep
<1>23. CASE UNCHANGED vars
  BY <1>23, <1>u DEF vars
<1> QED
  BY <1>1, <1>2, <1>3, <1>4, <1>5, <1>6, <1>7, <1>8, <1>9, <1>10, <1>11, <1>12, <1>13, <1>14,
     <1>15, <1>16, <1>17, <1>18, <1>19, <1>20, <1>21, <1>22, <1>23
     DEF Next, Supervise, Handler, Worker

-----------------------------------------------------------------------------
(* One member has the turn.                                                *)

\* StandsDown, of a group as read and a row as read.
Stands(g, r, m) ==
    LET siblings   == Mirrors \ {m}
        contenders == {n \in siblings : is_contending(g[n].state)} \cup {m}
        read       == [g EXCEPT ![m] = r]
    IN  \/ \E n \in siblings : has_taken_the_turn(g[n].state)
        \/ ~IsBest(read, m, contenders)

LEMMA StandsIs == \A m \in Mirrors : /\ StandsDown(m) <=> Stands(group, pass[m], m)
                                     /\ StandsDown(m)' <=> Stands(group', pass'[m], m)
  BY DEF StandsDown, Stands

LEMMA AheadGrows ==
    ASSUME NEW n \in Mirrors, NEW m \in Mirrors,
           NEW a \in BOOLEAN, NEW b \in BOOLEAN, NEW c \in BOOLEAN, NEW d \in BOOLEAN,
           Ahead(n, a, m, b), a => c, d => b
    PROVE  Ahead(n, c, m, d)
  BY Zenon DEF Ahead

LEMMA BeforeIsAhead ==
    ASSUME NEW g \in [Mirrors -> Row], NEW r \in Row, NEW m \in Mirrors, NEW n \in Mirrors \ {m}
    PROVE  LET read == [g EXCEPT ![m] = r] IN
           /\ Before(read, m, n) <=> Ahead(m, r.error = NoError, n, g[n].error = NoError)
           /\ Before(read, n, m) <=> Ahead(n, g[n].error = NoError, m, r.error = NoError)
<1> DEFINE read == [g EXCEPT ![m] = r]
<1>1. read[m] = r /\ read[n] = g[n]
  OBVIOUS
<1> HIDE DEF read
<1>2. /\ Before(read, m, n) <=> Ahead(m, read[m].error = NoError, n, read[n].error = NoError)
      /\ Before(read, n, m) <=> Ahead(n, read[n].error = NoError, m, read[m].error = NoError)
  BY DEF Before, Ahead
<1> QED
  BY <1>1, <1>2 DEF read

\* A member that does not stand down goes before every other contender, ...
LEMMA BestIsAhead ==
    ASSUME NEW g \in [Mirrors -> Row], NEW r \in Row, NEW n \in Mirrors, NEW m \in Mirrors \ {n},
           ~Stands(g, r, n), is_contending(g[m].state)
    PROVE  Ahead(n, r.error = NoError, m, g[m].error = NoError)
<1> DEFINE read == [g EXCEPT ![n] = r]
           contenders == {k \in Mirrors \ {n} : is_contending(g[k].state)} \cup {n}
<1>1. IsBest(read, n, contenders) /\ m \in contenders \ {n}
  BY DEF Stands
<1>2. Before(read, n, m)
  BY <1>1 DEF IsBest
<1> QED
  BY <1>2, BeforeIsAhead

\* ... and one that another contender goes before stands down.
LEMMA BehindStands ==
    ASSUME NEW g \in [Mirrors -> Row], NEW r \in Row, NEW m \in Mirrors, NEW n \in Mirrors \ {m},
           is_contending(g[n].state), Ahead(n, g[n].error = NoError, m, r.error = NoError)
    PROVE  Stands(g, r, m)
<1> DEFINE read == [g EXCEPT ![m] = r]
           contenders == {k \in Mirrors \ {m} : is_contending(g[k].state)} \cup {m}
<1>1. m \in Int /\ n \in Int
  BY MirrorGroupAssumption DEF Mirrors
<1>2. ~Ahead(m, r.error = NoError, n, g[n].error = NoError)
  BY <1>1 DEF Ahead
<1>3. ~Before(read, m, n)
  BY <1>2, BeforeIsAhead
<1>4. n \in contenders \ {m}
  OBVIOUS
<1>5. ~IsBest(read, m, contenders)
  BY <1>3, <1>4 DEF IsBest
<1> QED
  BY <1>5 DEF Stands

\* Where nobody new takes the turn or is about to.
LEMMA TurnKept ==
    ASSUME TurnInv, \A m \in Mirrors : Taken(m)' => Taken(m),
           \A m \in Mirrors : Starting(m)' => Starting(m)
    PROVE  TurnInv'
  BY DEF TurnInv, OneAtATime, Taken

\* Where the pass goes on with its rows as they are, and whoever takes the turn
\* was about to.
LEMMA PassKept ==
    ASSUME PassInv, UNCHANGED <<pass, group>>,
           \A m \in Mirrors : Starting(m)' => Starting(m),
           \A m \in Mirrors : Taken(m)' => Taken(m) \/ Starting(m),
           \A m \in Mirrors : (InPass(m) \/ Starting(m)') /\ is_startable(state[m]) =>
              /\ is_startable(state'[m])
              /\ error[m] = NoError => error'[m] = NoError
    PROVE  PassInv'
<1> SUFFICES ASSUME NEW m \in Mirrors, InPass(m)
             PROVE  /\ is_startable(state'[m]) /\ is_startable(pass[m].state) /\ ~Starting(m)'
                    /\ pass[m].error = NoError => error'[m] = NoError
                    /\ \A n \in Mirrors \ {m} : Starting(n)' =>
                          /\ is_startable(state'[n])
                          /\ Ahead(n, error'[n] = NoError, m, pass[m].error = NoError)
                    /\ group # NoGroup =>
                          /\ is_startable(group[m].state)
                          /\ pass[m].error = NoError => group[m].error = NoError
                          /\ \A n \in Mirrors \ {m} : Taken(n)' \/ Starting(n)' => StandsDown(m)
  BY StandsIs DEF PassInv, InPass
<1>1. ASSUME NEW n \in Mirrors \ {m}, Starting(n)'
      PROVE  /\ is_startable(state'[n])
             /\ Ahead(n, error'[n] = NoError, m, pass[m].error = NoError)
  <2>1. Starting(n) /\ is_startable(state[n])
        /\ Ahead(n, error[n] = NoError, m, pass[m].error = NoError)
    BY <1>1 DEF PassInv
  <2>2. is_startable(state'[n]) /\ (error[n] = NoError => error'[n] = NoError)
    BY <1>1, <2>1
  <2> QED
    BY <2>1, <2>2, AheadGrows
<1> QED
  BY <1>1 DEF PassInv

LEMMA NoPass ==
    ASSUME pass' = NoGroup PROVE PassInv'
  BY DEF PassInv, InPass, NoGroup

\* A queued row takes no turn and stays startable.
LEMMA QueuedKeeps ==
    ASSUME TypeOK, WorkInv, NEW n \in Mirrors, Queued(n) \/ UNCHANGED rowVars
    PROVE  /\ \A m \in Mirrors : Taken(m)' => Taken(m)
           /\ \A m \in Mirrors : is_startable(state[m]) =>
                 /\ is_startable(state'[m])
                 /\ error[m] = NoError => error'[m] = NoError
<1>1. CASE UNCHANGED rowVars
  BY <1>1 DEF rowVars, Taken
<1>2. CASE Queued(n)
  BY <1>2 DEF Queued, TypeOK, Taken, has_taken_the_turn, holds_the_file, is_working,
     is_startable
<1> QED
  BY <1>1, <1>2

\* Nor does a row that stands down or is cancelled.
LEMMA SetKeeps ==
    ASSUME TypeOK, WorkInv, NEW n \in Mirrors, NEW s \in {"skipped", "cancelled"},
           Transition(n, s) \/ UNCHANGED rowVars
    PROVE  \A m \in Mirrors : Taken(m)' => Taken(m)
  BY DEF Transition, rowVars, TypeOK, Taken, has_taken_the_turn, holds_the_file, is_working

\* The attempt's own steps, from what it knows of its row.
LEMMA BeginCases ==
    ASSUME MInv, NEW m \in Mirrors, Begin(m)
    PROVE  /\ Starting(m)
           /\ UNCHANGED <<passVars, copy, next, cancelled, request, life, boundVars, cut>>
           /\ \/ Queued(m) /\ At(m, "begin")
              \/ /\ is_startable(state[m]) \/ state[m] = "blocked"
                 /\ state' = [state EXCEPT ![m] = "resolving"] /\ UNCHANGED error
                 /\ due' = due \ {m} /\ At(m, "working")
              \/ UNCHANGED rowVars /\ At(m, "tail")
<1> TypeOK /\ WorkInv /\ TurnInv
  BY DEF MInv
<1>1. Starting(m)
  BY DEF Begin, Starting
<1>2. state[m] \in MirrorState /\ state[m] # "resolving"
  BY <1>1, Moves DEF TurnInv, Taken, WorkInv
<1>3. Transition(m, "resolving") =>
         /\ is_startable(state[m]) \/ state[m] = "blocked"
         /\ state' = [state EXCEPT ![m] = "resolving"] /\ UNCHANGED error /\ due' = due \ {m}
  BY <1>2, Moves DEF Transition
<1> QED
  BY <1>1, <1>3, QueuedBy DEF Begin, Advance

LEMMA StartingKept ==
    ASSUME TypeOK, NEW m \in Mirrors, NEW step, step \notin {"claimed", "begin"}, At(m, step)
    PROVE  \A n \in Mirrors : Starting(n)' => Starting(n)
  BY DEF At, Starting, TypeOK

\* A claim is made only where no other member has the turn or is about to take it.
LEMMA ClaimedAlone ==
    ASSUME MInv, NEW m \in Mirrors, Claim(m)
    PROVE  /\ InPass(m) /\ is_startable(state[m]) /\ group # NoGroup
           /\ \A n \in Mirrors : ~Taken(n) /\ ~Starting(n)
<1> TypeOK /\ WorkInv /\ PassInv
  BY DEF MInv
<1>1. InPass(m) /\ group # NoGroup /\ ~StandsDown(m)
  BY DEF Claim, NextInPass, InPass
<1>2. is_startable(state[m]) /\ ~Starting(m)
  BY <1>1 DEF PassInv
<1>3. ~Taken(m)
  BY <1>2, Moves DEF WorkInv, Taken, MirrorState
<1>4. \A n \in Mirrors \ {m} : ~Taken(n) /\ ~Starting(n)
  BY <1>1 DEF PassInv
<1> QED
  BY <1>1, <1>2, <1>3, <1>4

LEMMA NextKeeps ==
    ASSUME MInv, [Next]_vars, \A m \in Mirrors : ~Claim(m) /\ ~Begin(m)
    PROVE  /\ \A m \in Mirrors : Taken(m)' => Taken(m)
           /\ \A m \in Mirrors : Starting(m)' => Starting(m)
<1> TypeOK /\ WorkInv /\ OrderInv
  BY DEF MInv
<1> USE DEF rowVars, passVars, workVars, boundVars
<1> DEFINE Goal == /\ \A m \in Mirrors : Taken(m)' => Taken(m)
                   /\ \A m \in Mirrors : Starting(m)' => Starting(m)
<1>r. UNCHANGED state => \A m \in Mirrors : Taken(m)' => Taken(m)
  BY DEF Taken
<1>w. UNCHANGED worker => \A m \in Mirrors : Starting(m)' => Starting(m)
  BY DEF Starting
<1>1. CASE BeginPass \/ CancelToken \/ WakeMirror \/ ResumeRead
  BY <1>1, <1>r, <1>w DEF BeginPass, CancelToken, WakeMirror, ResumeRead
<1>2. ASSUME NEW m \in Mirrors, ReadGroup(m) \/ SeeFailed(m) \/ TimePasses(m) PROVE Goal
  BY <1>2, <1>r, <1>w DEF ReadGroup, SeeFailed, TimePasses
<1>3. ASSUME NEW op \in Ops, NEW m \in Mirrors, Ask(op, m) PROVE Goal
  BY <1>3, <1>r, <1>w DEF Ask
<1>4. CASE AutoRetry
  <2>1. retrying \in Mirrors /\ Requeued(retrying) /\ UNCHANGED worker
    BY <1>4 DEF AutoRetry, TypeOK
  <2> QED
    BY <2>1, <1>w, QueuedBy, QueuedKeeps
<1>5. ASSUME NEW m \in Mirrors, Promote(m) PROVE Goal
  <2>1. next[m] \in Mirrors /\ At(m, "tail")
    BY <1>5 DEF Promote, WorkInv, TypeOK
  <2>2. Queued(next[m]) \/ UNCHANGED rowVars
    BY <1>5, <2>1, QueuedBy DEF Promote
  <2> QED
    BY <2>1, <2>2, QueuedKeeps, StartingKept
<1>6. CASE WakePromote
  <2>1. request.to \in Mirrors /\ UNCHANGED worker
    BY <1>6 DEF WakePromote, OrderInv, TypeOK
  <2>2. Queued(request.to) \/ UNCHANGED rowVars
    BY <1>6, <2>1, QueuedBy DEF WakePromote
  <2> QED
    BY <2>1, <2>2, QueuedKeeps, <1>w
<1>7. CASE ResumeQueue
  <2>1. request.on \in Mirrors /\ UNCHANGED worker
    BY <1>7 DEF ResumeQueue, OrderInv, TypeOK
  <2>2. Queued(request.on) \/ UNCHANGED rowVars
    BY <1>7, <2>1, QueuedBy DEF ResumeQueue
  <2> QED
    BY <2>1, <2>2, QueuedKeeps, <1>w
<1>8. CASE Sweep
  <2>1. Waiting(rows, 0) \subseteq Mirrors /\ UNCHANGED worker
    BY <1>8 DEF Waiting, Sweep
  <2>2. (\E n \in Mirrors : Queued(n)) \/ UNCHANGED rowVars
    BY <1>8, <2>1, QueuedBy DEF Sweep
  <2> QED
    BY <2>1, <2>2, QueuedKeeps, <1>r, <1>w
<1>9. ASSUME NEW m \in Mirrors, StandDown(m) PROVE Goal
  <2>1. Transition(m, "skipped") \/ UNCHANGED rowVars
    BY <1>9 DEF StandDown
  <2> QED
    BY <1>9, <2>1, <1>w, SetKeeps DEF StandDown
<1>10. CASE CancelRow
  <2>1. request.on \in Mirrors /\ UNCHANGED worker
    BY <1>10 DEF CancelRow, OrderInv, TypeOK
  <2>2. Transition(request.on, "cancelled") \/ UNCHANGED rowVars
    BY <1>10 DEF CancelRow
  <2> QED
    BY <2>1, <2>2, <1>w, SetKeeps
<1>11. CASE ResumeStand
  <2>1. request.left \subseteq Mirrors /\ UNCHANGED worker
    BY <1>11 DEF ResumeStand, TypeOK
  <2>2. (\E n \in Mirrors : Transition(n, "skipped")) \/ UNCHANGED rowVars
    BY <1>11, <2>1 DEF ResumeStand
  <2> QED
    BY <2>1, <2>2, <1>r, <1>w, SetKeeps
<1>12. ASSUME NEW m \in Mirrors, Stopped(m) PROVE Goal
  <2>1. (Transition(m, "cancelled") \/ UNCHANGED rowVars) /\ At(m, "tail")
    BY <1>12 DEF Stopped, Advance
  <2> QED
    BY <2>1, SetKeeps, StartingKept
<1>13. ASSUME NEW m \in Mirrors, Completed(m) PROVE Goal
  <2>1. state[m] = "resolving" /\ state' = [state EXCEPT ![m] = "completed"] /\ At(m, "tail")
    BY <1>13 DEF Completed, WorkInv
  <2>2. \A n \in Mirrors : Taken(n)' => Taken(n)
    BY <2>1 DEF Taken, has_taken_the_turn, holds_the_file, is_working, TypeOK
  <2> QED
    BY <2>1, <2>2, StartingKept
<1>14. ASSUME NEW m \in Mirrors, Fail(m) PROVE Goal
  <2>1. UNCHANGED state /\ At(m, "failing")
    BY <1>14, FailCases DEF At
  <2> QED
    BY <2>1, <1>r, StartingKept
<1>15. ASSUME NEW m \in Mirrors, Record(m) PROVE Goal
  <2>1. PICK s \in {"retry_wait", "blocked", "failed"} : state' = [state EXCEPT ![m] = s]
    BY <1>15, RecordCases
  <2>2. At(m, "given_up") \/ At(m, "tail")
    BY <1>15, RecordCases DEF At
  <2>3. \A n \in Mirrors : Taken(n)' => Taken(n)
    BY <2>1 DEF Taken, has_taken_the_turn, holds_the_file, is_working, TypeOK
  <2> QED
    BY <2>2, <2>3, StartingKept
<1>16. ASSUME NEW m \in Mirrors, GiveBack(m) PROVE Goal
  <2>1. UNCHANGED state /\ At(m, "idle")
    BY <1>16 DEF GiveBack
  <2> QED
    BY <2>1, <1>r, StartingKept
<1>17. CASE Crash
  BY <1>17, <1>r DEF Crash, Starting
<1>18. CASE Recover
  <2>1. \A n \in Mirrors : Taken(n)' => Taken(n)
    BY <1>18, Moves DEF Recover, Taken, WorkInv, TypeOK, MirrorState
  <2> QED
    BY <1>18, <2>1, <1>w DEF Recover
<1>19. CASE UNCHANGED vars
  BY <1>19, <1>r, <1>w DEF vars
<1> QED
  BY <1>1, <1>2, <1>3, <1>4, <1>5, <1>6, <1>7, <1>8, <1>9, <1>10, <1>11, <1>12, <1>13, <1>14,
     <1>15, <1>16, <1>17, <1>18, <1>19 DEF Next, Supervise, Handler, Worker

LEMMA NextTurn ==
    ASSUME MInv, [Next]_vars
    PROVE  TurnInv'
<1> TypeOK /\ WorkInv /\ TurnInv
  BY DEF MInv
<1>1. CASE \A m \in Mirrors : ~Claim(m) /\ ~Begin(m)
  BY <1>1, NextKeeps, TurnKept
<1>2. ASSUME NEW m \in Mirrors, Claim(m) PROVE TurnInv'
  <2>1. \A n \in Mirrors : ~Taken(n) /\ ~Starting(n)
    BY <1>2, ClaimedAlone
  <2>2. /\ UNCHANGED state
        /\ worker' = worker \/ worker' = [worker EXCEPT ![m] = "claimed"]
    BY <1>2 DEF Claim, rowVars
  <2>3. \A n \in Mirrors : Starting(n)' => n = m
    BY <2>1, <2>2 DEF Starting, TypeOK
  <2>4. \A n \in Mirrors : ~Taken(n)'
    BY <2>1, <2>2 DEF Taken
  <2> QED
    BY <2>3, <2>4 DEF TurnInv, OneAtATime, Taken
<1>3. ASSUME NEW m \in Mirrors, Begin(m) PROVE TurnInv'
  <2>1. /\ Starting(m) /\ \A n \in Mirrors : ~Taken(n) /\ (Starting(n) => n = m)
    BY <1>3, BeginCases DEF TurnInv
  <2>2. CASE Queued(m) /\ At(m, "begin")
    <3>1. \A n \in Mirrors : ~Taken(n)'
      BY <2>1, <2>2, QueuedKeeps
    <3>2. \A n \in Mirrors : Starting(n)' => n = m
      BY <2>1, <2>2 DEF At, Starting, TypeOK
    <3> QED
      BY <3>1, <3>2 DEF TurnInv, OneAtATime, Taken
  <2>3. CASE state' = [state EXCEPT ![m] = "resolving"] /\ At(m, "working")
    <3>1. \A n \in Mirrors : Taken(n)' => n = m
      BY <2>1, <2>3 DEF Taken, TypeOK
    <3>2. \A n \in Mirrors : ~Starting(n)'
      BY <2>1, <2>3 DEF At, Starting, TypeOK
    <3> QED
      BY <3>1, <3>2 DEF TurnInv, OneAtATime, Taken
  <2>4. CASE UNCHANGED rowVars /\ At(m, "tail")
    BY <2>4, TurnKept, StartingKept DEF Taken, rowVars
  <2> QED
    BY <1>3, <2>2, <2>3, <2>4, BeginCases
<1> QED
  BY <1>1, <1>2, <1>3

\* An attempt's own row is not one the pass has still to look at, unless it only
\* gives its place back or hands over.
LEMMA WorkerPass ==
    ASSUME MInv, NEW m \in Mirrors, Worker(m), ~Begin(m),
           \A n \in Mirrors : Taken(n)' => Taken(n),
           \A n \in Mirrors : Starting(n)' => Starting(n)
    PROVE  PassInv'
<1> TypeOK /\ WorkInv /\ PassInv
  BY DEF MInv
<1> DEFINE Kept1 == \A n \in Mirrors : is_startable(state[n]) =>
                       /\ is_startable(state'[n])
                       /\ error[n] = NoError => error'[n] = NoError
<1>1. UNCHANGED <<pass, group>>
  BY DEF Worker, Stopped, Advance, Completed, Fail, Record, Promote, GiveBack, passVars
<1>2. UNCHANGED <<state, error>> => Kept1
  OBVIOUS
<1>3. ASSUME state[m] = "resolving", \A n \in Mirrors \ {m} : state'[n] = state[n] /\ error'[n] = error[n]
      PROVE  Kept1
  BY <1>3 DEF is_startable
<1>4. ASSUME Stopped(m) PROVE Kept1
  BY <1>3, <1>4 DEF Stopped, Advance, Transition, WorkInv, TypeOK, rowVars
<1>5. ASSUME Completed(m) PROVE Kept1
  BY <1>3, <1>5 DEF Completed, WorkInv, TypeOK
<1>6. ASSUME Fail(m) \/ GiveBack(m) PROVE Kept1
  BY <1>2, <1>6 DEF Fail, GiveBack, rowVars
<1>7. ASSUME Record(m) PROVE Kept1
  <2>1. PICK s \in {"retry_wait", "blocked", "failed"} : state' = [state EXCEPT ![m] = s]
    BY <1>7, RecordCases
  <2>2. PICK e : error' = [error EXCEPT ![m] = e]
    BY <1>7, RecordCases
  <2>3. state[m] = "resolving"
    BY <1>7 DEF Record, WorkInv
  <2> QED
    BY <1>3, <2>1, <2>2, <2>3 DEF TypeOK
<1>8. ASSUME Promote(m) PROVE Kept1
  <2>1. next[m] \in Mirrors
    BY <1>8 DEF Promote, WorkInv, TypeOK
  <2>2. Queued(next[m]) \/ UNCHANGED rowVars
    BY <1>8, <2>1, QueuedBy DEF Promote
  <2> QED
    BY <2>1, <2>2, QueuedKeeps
<1>9. Kept1
  BY <1>4, <1>5, <1>6, <1>7, <1>8 DEF Worker
<1> QED
  BY <1>1, <1>9, PassKept

LEMMA NextPass ==
    ASSUME Separate, MInv, [Next]_vars
    PROVE  PassInv'
<1> TypeOK /\ WorkInv /\ OrderInv /\ TurnInv /\ PassInv
  BY DEF MInv
<1> USE DEF rowVars, passVars, workVars, boundVars
<1>1. CASE BeginPass
  <2>1. /\ \A m \in Mirrors : ~Starting(m)
        /\ UNCHANGED <<state, error, due, group, worker>>
        /\ pass' = [m \in Mirrors |-> IF Startable(m) THEN row(m) ELSE NoRow]
        /\ pass = NoGroup
    BY <1>1 DEF BeginPass, Separate, Starting, Idle
  <2>2. group' = NoGroup
    BY <2>1 DEF OrderInv
  <2>3. ASSUME NEW m \in Mirrors, InPass(m)'
        PROVE  pass'[m] = row(m) /\ is_startable(state[m])
    BY <2>1, <2>3 DEF InPass, Startable, is_startable, WorkInv
  <2>4. ASSUME NEW m \in Mirrors, InPass(m)'
        PROVE  is_startable(pass'[m].state) /\ pass'[m].error = error[m]
    BY <2>3, <2>4, RowTyped
  <2>5. \A m \in Mirrors : ~Starting(m)'
    BY <2>1 DEF Starting
  <2> QED
    BY <2>1, <2>2, <2>3, <2>4, <2>5 DEF PassInv
<1>2. ASSUME NEW k \in Mirrors, ReadGroup(k) PROVE PassInv'
  <2>1. /\ UNCHANGED <<state, error, pass, worker>> /\ group' = rows /\ group' \in [Mirrors -> Row]
    BY <1>2, RowTyped DEF ReadGroup
  <2>2. ASSUME NEW m \in Mirrors, InPass(m)
        PROVE  /\ is_startable(group'[m].state)
               /\ pass[m].error = NoError => group'[m].error = NoError
    BY <2>1, <2>2, RowTyped DEF PassInv
  <2>3. ASSUME NEW m \in Mirrors, InPass(m), NEW n \in Mirrors \ {m}, Taken(n) \/ Starting(n)
        PROVE  StandsDown(m)'
    <3>1. pass[m] \in Row
      BY <2>3 DEF InPass, TypeOK
    <3>2. group'[n].state = state[n] /\ group'[n].error = error[n]
      BY <2>1, RowTyped
    <3>3. CASE Taken(n)
      BY <3>2, <3>3, <2>1, StandsIs DEF Taken, Stands
    <3>4. CASE Starting(n)
      <4>1. is_startable(state[n]) /\ Ahead(n, error[n] = NoError, m, pass[m].error = NoError)
        BY <2>3, <3>4 DEF PassInv
      <4>2. is_contending(group'[n].state)
        BY <3>2, <4>1, Moves DEF WorkInv
      <4>3. Stands(group', pass[m], m)
        BY <2>1, <3>1, <3>2, <4>1, <4>2, BehindStands
      <4> QED
        BY <4>3, <2>1, StandsIs
    <3> QED
      BY <2>3, <3>3, <3>4
  <2>4. \A m \in Mirrors : /\ InPass(m)' <=> InPass(m)
                           /\ Starting(m)' <=> Starting(m)
                           /\ Taken(m)' <=> Taken(m)
    BY <2>1 DEF InPass, Starting, Taken
  <2> QED
    BY <2>1, <2>2, <2>3, <2>4 DEF PassInv
<1>3. ASSUME NEW k \in Mirrors, StandDown(k) PROVE PassInv'
  <2>1. CASE pass' = NoGroup
    BY <2>1, NoPass
  <2>2. CASE Transition(k, "skipped") /\ PassedOver(k)
    <3>1. /\ group' = NoGroup /\ UNCHANGED worker /\ pass' = [pass EXCEPT ![k] = NoRow]
          /\ state' = [state EXCEPT ![k] = "skipped"] /\ UNCHANGED error
      BY <1>3, <2>2 DEF StandDown, Transition, PassedOver
    <3>2. ~Starting(k)
      BY <1>3 DEF StandDown, NextInPass, InPass, PassInv
    <3>3. \A m \in Mirrors : /\ Starting(m)' <=> Starting(m)
                             /\ InPass(m)' => m # k /\ InPass(m) /\ pass'[m] = pass[m]
                             /\ m # k => state'[m] = state[m]
      BY <3>1 DEF Starting, InPass, TypeOK
    <3> QED
      BY <3>1, <3>2, <3>3 DEF PassInv
  <2> QED
    BY <1>3, <2>1, <2>2 DEF StandDown
<1>4. ASSUME NEW k \in Mirrors, Claim(k) PROVE PassInv'
  <2>1. /\ InPass(k) /\ is_startable(state[k]) /\ group # NoGroup
        /\ \A n \in Mirrors : ~Taken(n) /\ ~Starting(n)
    BY <1>4, ClaimedAlone
  <2>2. /\ UNCHANGED <<state, error>> /\ pass' = [pass EXCEPT ![k] = NoRow]
        /\ group' \in {group, NoGroup}
        /\ worker' = worker \/ worker' = [worker EXCEPT ![k] = "claimed"]
        /\ ~StandsDown(k)
    BY <1>4 DEF Claim, PassedOver
  <2>3. \A m \in Mirrors : /\ Starting(m)' => m = k
                           /\ ~Taken(m)'
                           /\ InPass(m)' => m # k /\ InPass(m) /\ pass'[m] = pass[m]
    BY <2>1, <2>2 DEF Starting, Taken, InPass, TypeOK
  <2>4. group \in [Mirrors -> Row] /\ pass[k] \in Row /\ ~Stands(group, pass[k], k)
    BY <2>1, <2>2, StandsIs DEF TypeOK, InPass
  <2>5. ASSUME NEW m \in Mirrors \ {k}, InPass(m)
        PROVE  /\ Ahead(k, error[k] = NoError, m, pass[m].error = NoError)
               /\ Stands(group, pass[m], m)
    <3>1. pass[m] \in Row /\ is_startable(group[m].state) /\ is_startable(group[k].state)
      BY <2>1, <2>5 DEF PassInv, InPass, TypeOK
    <3>2. is_contending(group[m].state) /\ is_contending(group[k].state)
      BY <3>1 DEF is_startable, is_contending
    <3>3. Ahead(k, pass[k].error = NoError, m, group[m].error = NoError)
      BY <2>4, <3>2, BestIsAhead
    <3>4. /\ pass[k].error = NoError => error[k] = NoError /\ group[k].error = NoError
          /\ pass[m].error = NoError => group[m].error = NoError
      BY <2>1, <2>5 DEF PassInv
    <3>5. Ahead(k, error[k] = NoError, m, pass[m].error = NoError)
      BY <3>3, <3>4, AheadGrows
    <3>6. Ahead(k, group[k].error = NoError, m, pass[m].error = NoError)
      BY <3>3, <3>4, AheadGrows
    <3> QED
      BY <2>4, <3>1, <3>2, <3>5, <3>6, BehindStands
  <2>6. \A m \in Mirrors \ {k} : InPass(m) /\ group' # NoGroup => StandsDown(m)' \/ ~InPass(m)'
    BY <2>2, <2>3, <2>5, StandsIs
  <2> QED
    BY <2>1, <2>2, <2>3, <2>5, <2>6 DEF PassInv
<1>5. ASSUME NEW m \in Mirrors, Begin(m) PROVE PassInv'
  <2>1. Starting(m) /\ UNCHANGED <<pass, group>>
    BY <1>5, BeginCases
  <2>2. \A n \in Mirrors : Starting(n)' => Starting(n)
    BY <1>5, <2>1, BeginCases DEF At, Starting, TypeOK
  <2>3. \A n \in Mirrors : Taken(n)' => Taken(n) \/ Starting(n)
    BY <1>5, <2>1, BeginCases, QueuedKeeps DEF Taken, TypeOK
  <2>4. \A n \in Mirrors : (InPass(n) \/ Starting(n)') /\ is_startable(state[n]) =>
           /\ is_startable(state'[n])
           /\ error[n] = NoError => error'[n] = NoError
    <3>1. CASE Queued(m) \/ UNCHANGED rowVars
      BY <3>1, QueuedKeeps
    <3>2. CASE /\ state' = [state EXCEPT ![m] = "resolving"] /\ UNCHANGED error
               /\ At(m, "working")
      <4>1. ~Starting(m)' /\ ~InPass(m)
        BY <2>1, <3>2 DEF At, Starting, TypeOK, PassInv
      <4> QED
        BY <3>2, <4>1 DEF TypeOK
    <3> QED
      BY <1>5, <3>1, <3>2, BeginCases
  <2> QED
    BY <2>1, <2>2, <2>3, <2>4, PassKept
<1>6. ASSUME NEW m \in Mirrors, Worker(m), \A n \in Mirrors : ~Claim(n) /\ ~Begin(n)
      PROVE  PassInv'
  BY <1>6, NextKeeps, WorkerPass
<1>7. ASSUME NEW m \in Mirrors, SeeFailed(m) PROVE PassInv'
  BY <1>7, NoPass DEF SeeFailed, Idle
<1>8. ASSUME NEW m \in Mirrors, TimePasses(m) PROVE PassInv'
  BY <1>8, PassKept DEF TimePasses, Taken, Starting
<1>9. CASE AutoRetry
  BY <1>9, NoPass DEF AutoRetry, OrderInv
<1>10. ASSUME NEW op \in Ops, NEW m \in Mirrors, Ask(op, m) PROVE PassInv'
  BY <1>10, NoPass DEF Ask, Separate, Idle
<1>11. CASE Handler
  <2>1. request.at # "idle" /\ UNCHANGED pass
    BY <1>11 DEF Handler, CancelToken, CancelRow, WakeMirror, WakePromote, ResumeRead,
       ResumeStand, ResumeQueue
  <2> QED
    BY <2>1, NoPass DEF OrderInv, Idle
<1>12. CASE Crash
  BY <1>12, NoPass DEF Crash
<1>13. CASE Recover \/ Sweep
  BY <1>13, NoPass DEF Recover, Sweep, OrderInv, Idle
<1>14. CASE UNCHANGED vars
  BY <1>14, PassKept DEF vars, Taken, Starting
<1> QED
  BY <1>1, <1>2, <1>3, <1>4, <1>5, <1>6, <1>7, <1>8, <1>9, <1>10, <1>11, <1>12, <1>13, <1>14
     DEF Next, Supervise

LEMMA MirrorInvariant ==
    ASSUME Separate
    PROVE  Spec => []MInv
<1>1. MInv /\ [Next]_vars => MInv'
  BY NextTypes, NextWork, NextOrder, NextTurn, NextPass DEF MInv
<1> QED
  BY InitInv, <1>1, PTL DEF Spec

\* The types, for every group (TypeOK).
THEOREM TypesAreRight ==
    ASSUME Separate
    PROVE  Spec => []TypeOK
<1>1. MInv => TypeOK
  BY DEF MInv
<1> QED
  BY <1>1, MirrorInvariant, PTL

\* One copy of the file is downloaded: whatever fails, hands over, is cancelled,
\* resumed or interrupted, no two members are at work or finished together, also
\* where an attempt fails while a pass looks at the group or the loop comes
\* between the two writes of a hand-over (`mirror_stands_down`, `hand_over`).
THEOREM OneMemberAtATime ==
    ASSUME Separate
    PROVE  Spec => []OneAtATime
<1>1. MInv => OneAtATime
  BY DEF MInv, TurnInv
<1> QED
  BY <1>1, MirrorInvariant, PTL

=============================================================================

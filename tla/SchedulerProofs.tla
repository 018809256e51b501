--------------------------- MODULE SchedulerProofs ---------------------------
(***************************************************************************)
(* What TLAPS proves of Scheduler for every number of files and handlers,  *)
(* every limit and every number of requests and process ends.              *)
(***************************************************************************)
EXTENDS Scheduler, FiniteSetTheorems, TLAPS

\* A request under way names a file and an operation.
RequestOK ==
    \A r \in Requests :
        at[r] # "idle" => target[r] \in Files /\ op[r] \in Operation

TypeInv == TypeOK /\ RequestOK

\* The state machine leads from a row's state only to a state of the machine:
\* no transition deletes a row.
LEMMA TransitionTyped ==
    ASSUME NEW s \in RowState, NEW n, can_transition_to(s, n)
    PROVE  n \in DownloadState
BY DEF can_transition_to, Successors, DownloadState, RowState, Gone

\* Every variable starts in its type, with no request under way.
LEMMA InitType == Init => TypeInv
BY SchedulerAssumption
   DEF Init, TypeInv, TypeOK, RequestOK, RetryCap, RowState, DownloadState, Wait,
       StopReason, WorkerStep, RequestStep, Gate, Life, Operation, None, NoFile

\* Every step keeps the types, and a request under way its file.
LEMMA NextType == TypeInv /\ [Next]_vars => TypeInv'
<1> SUFFICES ASSUME TypeInv, [Next]_vars PROVE TypeInv'
  OBVIOUS
<1> USE SchedulerAssumption
    DEF TypeInv, TypeOK, RequestOK, rowVars, activeVars, passVars, workerVars,
        reqVars, envVars, None, NoFile, StopReason, Wait, WorkerStep,
        Operation, RequestStep, Running
<1>1. CASE BeginPass
  BY <1>1 DEF BeginPass, is_startable, RetryCap
<1>2. ASSUME NEW f \in Files,
             NotOffered(f) \/ ClaimSlot(f) \/ ClaimRefused(f) \/ PassAbandoned(f)
      PROVE  TypeInv'
  BY <1>2 DEF NotOffered, ClaimSlot, ClaimRefused, PassAbandoned, PassedOver,
     Next_in_pass, RetryCap
<1>3. ASSUME NEW f \in Files, NEW from, NEW next, NEW to \in WorkerStep,
             Advance(f, from, next, to)
      PROVE  TypeInv'
  <2>1. CASE can_transition_to(state[f], next)
    <3>1. next \in RowState
      BY <2>1, TransitionTyped DEF RowState
    <3> QED
      BY <1>3, <2>1, <3>1 DEF Advance, Transition, Write
  <2>2. CASE ~can_transition_to(state[f], next)
    BY <1>3, <2>2 DEF Advance, Transition
  <2> QED
    BY <2>1, <2>2
<1>4. ASSUME NEW f \in Files,
             Fail(f) \/ ReadStopReason(f) \/ Panic(f) \/ InspectRow(f)
             \/ RecordAttempt(f) \/ GiveBack(f)
      PROVE  TypeInv'
  <2>1. CASE Fail(f) \/ RecordAttempt(f)
    BY <1>4, <2>1 DEF Fail, RecordAttempt, RecordError, Write, Saturated, RetryCap,
       RowState, DownloadState
  <2>2. CASE ReadStopReason(f) \/ Panic(f) \/ InspectRow(f)
    BY <1>4, <2>2 DEF ReadStopReason, Panic, InspectRow
  <2>3. CASE GiveBack(f)
    BY <1>4, <2>3 DEF GiveBack, RetryCap
  <2> QED
    BY <1>4, <2>1, <2>2, <2>3
<1>5. ASSUME NEW r \in Requests, Issue(r)
      PROVE  TypeInv'
  BY <1>5 DEF Issue, NeedsHold
<1>6. ASSUME NEW r \in Requests, AskToStop(r)
      PROVE  TypeInv'
  BY <1>6 DEF AskToStop, ReasonOf, Proceed, Answer
<1>7. ASSUME NEW r \in Requests,
             WriteStop(r) \/ RequeueFailed(r) \/ WriteResume(r) \/ WorkHeld(r)
      PROVE  TypeInv'
  <2>1. "queued" \in RowState /\ "paused" \in RowState /\ "cancelled" \in RowState
        /\ Gone \in RowState
    BY DEF RowState, DownloadState
  <2> QED
    BY <1>7, <2>1 DEF WriteStop, RequeueFailed, WriteResume, WorkHeld, Discarded, Deleted,
       Transition, Write, ReasonOf, Proceed, Answer, RetryCap
<1>8. ASSUME NEW r \in Requests,
             ReadToStop(r) \/ release_stop_guard(r) \/ AskToResume(r) \/ ReadToResume(r)
             \/ ReadToHold(r) \/ HoldRefused(r) \/ WorkFailed(r)
      PROVE  TypeInv'
  BY <1>8 DEF ReadToStop, release_stop_guard, AskToResume, ReadToResume, ReadToHold,
     HoldRefused, WorkFailed, Proceed, Answer
<1>9. ASSUME NEW r \in Requests, Hold(r) \/ LetGo(r)
      PROVE  TypeInv'
  BY <1>9 DEF Hold, LetGo, Proceed
<1>10. ASSUME NEW f \in Files,
              TimePasses(f) \/ GateMoves(f) \/ StorageBlock(f) \/ SeedingEnds(f)
       PROVE  TypeInv'
  BY <1>10 DEF TimePasses, GateMoves, StorageBlock, SeedingEnds, Transition, Write,
     RowState, DownloadState
<1>11. CASE ShutdownSignal \/ ShutdownCollect
  BY <1>11 DEF ShutdownSignal, ShutdownCollect, Life
<1>12. CASE ProcessExit \/ Crash
  BY <1>12 DEF ProcessExit, Crash, LoseMemory, Life, RetryCap
<1>13. CASE Start
  BY <1>13 DEF Start, recovered, Life, RowState, DownloadState, Gone
<1>14. CASE UNCHANGED vars
  BY <1>14 DEF vars
<1> QED
  BY <1>1, <1>2, <1>3, <1>4, <1>5, <1>6, <1>7, <1>8, <1>9, <1>10, <1>11, <1>12, <1>13,
     <1>14
     DEF Next, Dispatch, Worker, Handler, Process, Requeue, Resolve,
         BlockBeforeTransfer, BlockAfterTransfer, StartTransfer, Detach, Verify, Complete, WriteStopped

\* Every variable keeps its type, for every instance of the constants.
THEOREM TypeCorrect == Spec => []TypeOK
<1>1. Spec => []TypeInv
  BY InitType, NextType, PTL DEF Spec
<1>2. TypeInv => TypeOK
  BY DEF TypeInv
<1> QED
  BY <1>1, <1>2, PTL

-----------------------------------------------------------------------------
(* Rows and workers.                                                       *)

\* A file runs exactly as long as its worker is under way.
RunningHasStep == \A f \in Files : Running(f) <=> pc[f] # "idle"

\* While the service is up, the worker of a working row still has to write it.
WorkingRowIsWatched ==
    life = "up" =>
        \A f \in Files : is_working(state[f]) => pc[f] \notin {"idle", "tail", "ended"}

WorkerInv == RunningHasStep /\ WorkingRowIsWatched

\* A failed attempt leaves the row out of the working states.
LEMMA RecordErrorRests ==
    ASSUME TypeInv, NEW f \in Files, NEW kind, NEW spent, RecordError(f, kind, spent)
    PROVE  /\ ~is_working(state'[f])
           /\ state'[f] \notin {"paused", "completed", "seeding"}
           /\ \A g \in Files : g # f => state'[g] = state[g]
BY DEF RecordError, Write, TypeInv, TypeOK, is_working

\* A worker's transition either takes the row to `next` or is an error.
LEMMA AdvanceEffect ==
    ASSUME TypeInv, NEW f \in Files, NEW from, NEW next, NEW to,
           Advance(f, from, next, to)
    PROVE  /\ pc[f] = from
           /\ \/ /\ can_transition_to(state[f], next)
                 /\ state' = [state EXCEPT ![f] = next]
                 /\ pc' = [pc EXCEPT ![f] = to]
              \/ /\ state' = state
                 /\ pc' = [pc EXCEPT ![f] = "error"]
           /\ UNCHANGED <<activeVars, passVars, wState, wRetries, why, reqVars, envVars,
                          asked>>
BY DEF Advance, Transition, Write, rowVars

\* Every step keeps a worker behind each working row and a step for each
\* running worker.
LEMMA NextWorker == TypeInv /\ WorkerInv /\ [Next]_vars => WorkerInv'
<1> SUFFICES ASSUME TypeInv, WorkerInv, [Next]_vars PROVE WorkerInv'
  OBVIOUS
<1> USE DEF WorkerInv, RunningHasStep, WorkingRowIsWatched, Running, activeVars,
            workerVars, envVars, rowVars
<1>t. TypeOK
  BY DEF TypeInv
<1>1. CASE BeginPass
  BY <1>1 DEF BeginPass
<1>2. ASSUME NEW f \in Files,
             NotOffered(f) \/ ClaimSlot(f) \/ ClaimRefused(f) \/ PassAbandoned(f)
      PROVE  WorkerInv'
  BY <1>2, <1>t DEF NotOffered, ClaimSlot, ClaimRefused, PassAbandoned, Startable,
     untouchable, TypeOK
<1>3. ASSUME NEW f \in Files, NEW from \in WorkerStep \ {"idle"}, NEW next,
             NEW to \in WorkerStep \ {"idle", "ended"}, Advance(f, from, next, to),
             to = "tail" => ~is_working(next)
      PROVE  WorkerInv'
  <2>1. CASE state' = [state EXCEPT ![f] = next] /\ pc' = [pc EXCEPT ![f] = to]
    BY <1>3, <1>t, <2>1, AdvanceEffect DEF TypeOK
  <2>2. CASE state' = state /\ pc' = [pc EXCEPT ![f] = "error"]
    BY <1>3, <1>t, <2>2, AdvanceEffect DEF TypeOK
  <2> QED
    BY <1>3, <2>1, <2>2, AdvanceEffect
<1>4. ASSUME NEW f \in Files, Fail(f) \/ RecordAttempt(f)
      PROVE  WorkerInv'
  <2>1. /\ ~is_working(state'[f])
        /\ \A g \in Files : g # f => state'[g] = state[g]
    BY <1>4, RecordErrorRests DEF Fail, RecordAttempt
  <2> QED
    BY <1>4, <1>t, <2>1 DEF Fail, RecordAttempt, TypeOK
<1>5. ASSUME NEW f \in Files,
             ReadStopReason(f) \/ Panic(f) \/ InspectRow(f) \/ GiveBack(f)
      PROVE  WorkerInv'
  BY <1>5, <1>t DEF ReadStopReason, Panic, InspectRow, GiveBack, TypeOK, is_working,
     is_startable
<1>6. ASSUME NEW r \in Requests,
             WriteStop(r) \/ RequeueFailed(r) \/ WriteResume(r) \/ WorkHeld(r)
      PROVE  WorkerInv'
  BY <1>6, <1>t DEF WriteStop, RequeueFailed, WriteResume, WorkHeld, Discarded, Deleted,
     Transition, Write, ReasonOf, Gone, is_working, TypeOK
<1>7. ASSUME NEW r \in Requests,
             Issue(r) \/ AskToStop(r) \/ ReadToStop(r) \/ release_stop_guard(r)
             \/ AskToResume(r) \/ ReadToResume(r) \/ ReadToHold(r) \/ Hold(r)
             \/ HoldRefused(r) \/ WorkFailed(r) \/ LetGo(r)
      PROVE  WorkerInv'
  BY <1>7 DEF Issue, AskToStop, ReadToStop, release_stop_guard, AskToResume,
     ReadToResume, ReadToHold, Hold, HoldRefused, WorkFailed, LetGo
<1>8. ASSUME NEW f \in Files,
             TimePasses(f) \/ GateMoves(f) \/ StorageBlock(f) \/ SeedingEnds(f)
      PROVE  WorkerInv'
  BY <1>8, <1>t DEF TimePasses, GateMoves, StorageBlock, SeedingEnds, Transition, Write,
     is_working, TypeOK
<1>9. CASE ShutdownSignal \/ ShutdownCollect \/ ProcessExit \/ Crash
  BY <1>9 DEF ShutdownSignal, ShutdownCollect, ProcessExit, Crash, LoseMemory
<1>10. CASE Start
  BY <1>10, <1>t DEF Start, recovered, is_working, TypeOK
<1>11. CASE UNCHANGED vars
  BY <1>11 DEF vars
<1>12. ASSUME NEW f \in Files,
              \/ Requeue(f) \/ Resolve(f) \/ BlockBeforeTransfer(f) \/ BlockAfterTransfer(f)
              \/ StartTransfer(f)
              \/ Detach(f) \/ Verify(f) \/ Complete(f) \/ WriteStopped(f)
       PROVE  WorkerInv'
  <2>1. ~is_working(why[f])
    BY <1>t DEF TypeOK, is_working, StopReason, None
  <2>2. ~is_working("blocked") /\ ~is_working("seeding") /\ ~is_working("completed")
    BY DEF is_working
  <2> QED
    BY <1>3, <1>12, <2>1, <2>2 DEF Requeue, Resolve, BlockBeforeTransfer, BlockAfterTransfer, StartTransfer,
       Detach, Verify, Complete, WriteStopped, WorkerStep
<1> QED
  BY <1>1, <1>2, <1>4, <1>5, <1>6, <1>7, <1>8, <1>9, <1>10, <1>11, <1>12
     DEF Next, Dispatch, Worker, Handler, Process

\* No attempt, however it ends, leaves a row working without a worker: the
\* recording after an error or a panic and the recovery at the start cover
\* every case but a stop of the service.
THEOREM WorkingRowsAreWatched == Spec => []WorkingRowHasWorker
<1>1. Init => WorkerInv
  BY DEF Init, WorkerInv, RunningHasStep, WorkingRowIsWatched, Running, is_working
<1>2. Spec => []TypeInv
  BY InitType, NextType, PTL DEF Spec
<1>3. Spec => []WorkerInv
  BY <1>1, <1>2, NextWorker, PTL DEF Spec
<1>4. WorkerInv => WorkingRowHasWorker
  BY DEF WorkerInv, RunningHasStep, WorkingRowIsWatched, WorkingRowHasWorker
<1> QED
  BY <1>3, <1>4, PTL

-----------------------------------------------------------------------------
(* Holds.                                                                  *)

\* A file that is held is not running.
HeldIsIdle == \A f \in Files : held[f] > 0 => ~Running(f)

HoldInv == HeldIsIdle /\ HoldsAccounted

\* Finitely many handlers hold a file, so their number is a natural number.
LEMMA HoldersFinite == \A f : IsFiniteSet(Holders(f))
BY SchedulerAssumption, FS_Subset DEF Holders

\* Steps that leave `held` alone and the holders of every file as they are.
LEMMA HoldersKept ==
    ASSUME held' = held,
           \A r \in Requests : (at[r] \in {"work", "let_go"} \/ at'[r] \in {"work", "let_go"})
                => target'[r] = target[r] /\ (at[r] \in {"work", "let_go"}
                                                <=> at'[r] \in {"work", "let_go"}),
           HoldsAccounted
    PROVE  HoldsAccounted'
<1>1. ASSUME NEW f \in Files PROVE Holders(f)' = Holders(f)
  BY DEF Holders
<1> QED
  BY <1>1 DEF HoldsAccounted

\* Every step keeps the holds counted and the held files idle.
LEMMA NextHold == TypeInv /\ HoldInv /\ [Next]_vars => HoldInv'
<1> SUFFICES ASSUME TypeInv, HoldInv, [Next]_vars PROVE HoldInv'
  OBVIOUS
<1>t. TypeOK /\ RequestOK
  BY DEF TypeInv
<1> USE DEF HoldInv, HeldIsIdle, Running, activeVars, reqVars
<1>1. ASSUME held' = held, reqVars' = reqVars, tokens' \subseteq tokens
      PROVE  HoldInv'
  <2>1. HoldsAccounted'
    BY <1>1, HoldersKept
  <2> QED
    BY <1>1, <2>1
<1>2. ASSUME NEW f \in Files, ClaimSlot(f)
      PROVE  HoldInv'
  <2>1. HoldsAccounted'
    BY <1>2, HoldersKept DEF ClaimSlot
  <2> QED
    BY <1>2, <1>t, <2>1 DEF ClaimSlot, Startable, untouchable, TypeOK
<1>3. ASSUME NEW r \in Requests,
             \/ Issue(r) \/ AskToStop(r) \/ ReadToStop(r) \/ WriteStop(r)
             \/ release_stop_guard(r) \/ AskToResume(r) \/ ReadToResume(r)
             \/ RequeueFailed(r) \/ WriteResume(r) \/ ReadToHold(r) \/ HoldRefused(r)
             \/ WorkHeld(r) \/ WorkFailed(r)
      PROVE  HoldInv'
  <2>1. held' = held /\ tokens' = tokens
    BY <1>3 DEF Issue, AskToStop, ReadToStop, WriteStop, release_stop_guard, AskToResume,
       ReadToResume, RequeueFailed, WriteResume, ReadToHold, HoldRefused, WorkHeld,
       WorkFailed
  <2>2. \A q \in Requests :
            (at[q] \in {"work", "let_go"} \/ at'[q] \in {"work", "let_go"})
                => target'[q] = target[q] /\ (at[q] \in {"work", "let_go"}
                                                <=> at'[q] \in {"work", "let_go"})
    BY <1>3, <1>t DEF TypeOK, RequestOK, Issue, AskToStop, ReadToStop, WriteStop,
       release_stop_guard, AskToResume, ReadToResume, RequeueFailed, WriteResume,
       ReadToHold, HoldRefused, WorkHeld, WorkFailed, Proceed, Answer, NeedsHold,
       Operation, None
  <2>3. HoldsAccounted'
    BY <2>1, <2>2, HoldersKept
  <2> QED
    BY <2>1, <2>3
<1>4. ASSUME NEW r \in Requests, Hold(r)
      PROVE  HoldInv'
  <2>0. PICK g \in Files : g = target[r]
    BY <1>4, <1>t DEF Hold, RequestOK
  <2>1. r \notin Holders(g)
    BY <1>4, <1>t, <2>0 DEF Hold, Holders
  <2>2. Holders(g)' = Holders(g) \cup {r}
    BY <1>4, <1>t, <2>0 DEF Hold, Proceed, Holders, TypeOK
  <2>3. \A f \in Files : f # g => Holders(f)' = Holders(f)
    BY <1>4, <1>t, <2>0 DEF Hold, Proceed, Holders, TypeOK
  <2>4. Cardinality(Holders(g) \cup {r}) = Cardinality(Holders(g)) + 1
    BY <2>1, HoldersFinite, FS_AddElement
  <2>5. HoldsAccounted'
    BY <1>4, <1>t, <2>0, <2>1, <2>2, <2>3, <2>4 DEF HoldsAccounted, Hold, TypeOK
  <2> QED
    BY <1>4, <1>t, <2>0, <2>5 DEF Hold, TypeOK
<1>5. ASSUME NEW r \in Requests, LetGo(r)
      PROVE  HoldInv'
  <2>0. PICK g \in Files : g = target[r]
    BY <1>5, <1>t DEF LetGo, RequestOK
  <2>1. r \in Holders(g)
    BY <1>5, <1>t, <2>0 DEF LetGo, Holders
  <2>2. Holders(g)' = Holders(g) \ {r}
    BY <1>5, <1>t, <2>0 DEF LetGo, Proceed, Holders, TypeOK
  <2>3. \A f \in Files : f # g => Holders(f)' = Holders(f)
    BY <1>5, <1>t, <2>0 DEF LetGo, Proceed, Holders, TypeOK
  <2>4. /\ Cardinality(Holders(g) \ {r}) = Cardinality(Holders(g)) - 1
        /\ Cardinality(Holders(g)) \in Nat
        /\ Cardinality(Holders(g) \ {r}) \in Nat
    BY <2>1, HoldersFinite, FS_RemoveElement, FS_CardinalityType
  <2>5. held[g] = Cardinality(Holders(g)) /\ held[g] > 0
    BY <2>4 DEF HoldsAccounted
  <2>6. held' = [held EXCEPT ![g] = Cardinality(Holders(g)) - 1]
    BY <1>5, <1>t, <2>0, <2>5 DEF LetGo, TypeOK
  <2>7. HoldsAccounted'
    BY <1>t, <2>2, <2>3, <2>4, <2>6 DEF HoldsAccounted, TypeOK
  <2> QED
    BY <1>5, <1>t, <2>0, <2>7 DEF LetGo, TypeOK
<1>6. CASE ProcessExit \/ Crash
  <2>1. \A f \in Files : Holders(f)' = {}
    BY <1>6 DEF ProcessExit, Crash, LoseMemory, Holders
  <2>2. \A f \in Files : held'[f] = 0
    BY <1>6 DEF ProcessExit, Crash, LoseMemory
  <2>3. HoldsAccounted'
    BY <2>1, <2>2, FS_EmptySet DEF HoldsAccounted
  <2> QED
    BY <2>2, <2>3
<1>7. ASSUME NEW f \in Files, Worker(f)
      PROVE  HoldInv'
  <2>1. held' = held /\ reqVars' = reqVars /\ tokens' \subseteq tokens
    BY <1>7 DEF Worker, Requeue, Resolve, BlockBeforeTransfer, BlockAfterTransfer, StartTransfer, Detach,
       Verify, Complete, WriteStopped, Advance, Fail, ReadStopReason, Panic, InspectRow,
       RecordAttempt, GiveBack
  <2> QED
    BY <1>1, <2>1
<1>8. CASE BeginPass \/ ShutdownSignal \/ ShutdownCollect \/ Start \/ UNCHANGED vars
  BY <1>1, <1>8 DEF BeginPass, ShutdownSignal, ShutdownCollect, Start, vars
<1>9. ASSUME NEW f \in Files,
             \/ NotOffered(f) \/ ClaimRefused(f) \/ PassAbandoned(f)
             \/ TimePasses(f) \/ GateMoves(f) \/ StorageBlock(f) \/ SeedingEnds(f)
      PROVE  HoldInv'
  BY <1>1, <1>9 DEF NotOffered, ClaimRefused, PassAbandoned, TimePasses, GateMoves,
     StorageBlock, SeedingEnds
<1> QED
  BY <1>2, <1>3, <1>4, <1>5, <1>6, <1>7, <1>8, <1>9 DEF Next, Dispatch, Handler, Process

LEMMA InitHold == Init => HoldInv
<1> SUFFICES ASSUME Init PROVE HoldInv
  OBVIOUS
<1>1. \A f \in Files : Holders(f) = {}
  BY DEF Init, Holders
<1>2. Cardinality({}) = 0
  BY FS_EmptySet
<1>3. \A f \in Files : held[f] = 0
  BY DEF Init
<1>4. HoldsAccounted
  BY <1>1, <1>2, <1>3 DEF HoldsAccounted
<1>5. HeldIsIdle
  BY <1>3 DEF HeldIsIdle
<1> QED
  BY <1>4, <1>5 DEF HoldInv

LEMMA HoldInvariant == Spec => []HoldInv
<1>1. Spec => []TypeInv
  BY InitType, NextType, PTL DEF Spec
<1> QED
  BY <1>1, InitHold, NextHold, PTL DEF Spec

\* The number kept for a held file is the number of resets and removals that
\* have it (`ActiveState::held`), whichever of them ends first or fails.
THEOREM HoldsAreCounted == Spec => []HoldsAccounted
<1>1. HoldInv => HoldsAccounted
  BY DEF HoldInv
<1> QED
  BY <1>1, HoldInvariant, PTL

\* Whatever resets, removals, passes and workers do in between, a reset or a
\* removal deletes a file's data with no worker on the file.
THEOREM HeldWorkIsAlone == Spec => []WorkIsAlone
<1>1. Spec => []TypeInv
  BY InitType, NextType, PTL DEF Spec
<1>2. TypeInv /\ HoldInv => WorkIsAlone
  <2> SUFFICES ASSUME TypeInv, HoldInv, NEW r \in Requests, at[r] = "work"
               PROVE  ~Running(target[r])
    BY DEF WorkIsAlone
  <2>1. target[r] \in Files /\ r \in Holders(target[r])
    BY DEF TypeInv, RequestOK, Holders
  <2>2. /\ Cardinality(Holders(target[r])) \in Nat
        /\ Cardinality(Holders(target[r])) # 0
    BY <2>1, HoldersFinite, FS_CardinalityType, FS_EmptySet
  <2> QED
    BY <2>1, <2>2 DEF HoldInv, HeldIsIdle, HoldsAccounted
<1> QED
  BY <1>1, <1>2, HoldInvariant, PTL

-----------------------------------------------------------------------------
(* Places.                                                                 *)

\* `counted` is a number, and fewer running files never count for more.
LEMMA CountedMonotone ==
    ASSUME NEW S, NEW T, S \subseteq T, IsFiniteSet(T)
    PROVE  counted(S) \in Nat /\ counted(T) \in Nat /\ counted(S) <= counted(T)
<1> DEFINE U == Exempt \cup Pooled
<1>1. S \ U \subseteq T \ U /\ IsFiniteSet(T \ U)
  BY FS_Subset
<1>2. /\ Cardinality(S \ U) \in Nat
      /\ Cardinality(T \ U) \in Nat
      /\ Cardinality(S \ U) <= Cardinality(T \ U)
  BY <1>1, FS_Subset, FS_CardinalityType
<1>3. S \cap Pooled # {} => T \cap Pooled # {}
  OBVIOUS
<1> QED
  BY <1>2, <1>3 DEF counted

\* One more file counts for at most one more place, and for none when it is
\* exempt or joins a pooled kind that runs already.
LEMMA CountedOneMore ==
    ASSUME NEW T, NEW f, IsFiniteSet(T)
    PROVE  /\ counted(T) \in Nat
           /\ counted(T \cup {f}) \in Nat
           /\ counted(T \cup {f}) <= counted(T) + 1
           /\ f \in Exempt \cup Pooled /\ (f \in Pooled => T \cap Pooled # {})
                => counted(T \cup {f}) = counted(T)
<1> DEFINE U == Exempt \cup Pooled
<1>1. IsFiniteSet(T \ U) /\ Cardinality(T \ U) \in Nat
  BY FS_Subset, FS_CardinalityType
<1>2. CASE f \in U
  <2>1. (T \cup {f}) \ U = T \ U
    BY <1>2
  <2>2. Cardinality((T \cup {f}) \ U) = Cardinality(T \ U)
    BY <2>1
  <2>3. f \notin Pooled => ((T \cup {f}) \cap Pooled = {} <=> T \cap Pooled = {})
    OBVIOUS
  <2>4. T \cap Pooled # {} => (T \cup {f}) \cap Pooled # {}
    OBVIOUS
  <2> QED
    BY <1>1, <2>2, <2>3, <2>4 DEF counted
<1>3. CASE f \notin U
  <2>1. (T \cup {f}) \ U = (T \ U) \cup {f}
    BY <1>3
  <2>2. /\ Cardinality((T \cup {f}) \ U) <= Cardinality(T \ U) + 1
        /\ Cardinality((T \cup {f}) \ U) \in Nat
    <3>1. Cardinality((T \ U) \cup {f}) = IF f \in T \ U THEN Cardinality(T \ U)
                                          ELSE Cardinality(T \ U) + 1
      BY <1>1, FS_AddElement
    <3> QED
      BY <1>1, <2>1, <3>1
  <2>3. (T \cup {f}) \cap Pooled = {} <=> T \cap Pooled = {}
    BY <1>3
  <2> QED
    BY <1>1, <1>3, <2>2, <2>3 DEF counted
<1> QED
  BY <1>2, <1>3

\* The places a pass keeps for retries seconds away only lower the limit it
\* claims under.
LEMMA PlacesLeftBounded == TypeOK => PlacesLeft \in Nat /\ PlacesLeft <= Limit
BY SchedulerAssumption DEF TypeOK, PlacesLeft

\* Every step keeps the counted files within the limit: only a claim adds one.
LEMMA NextLimit == TypeInv /\ LimitRespected /\ [Next]_vars => LimitRespected'
<1> SUFFICES ASSUME TypeInv, LimitRespected, [Next]_vars PROVE LimitRespected'
  OBVIOUS
<1>t. TypeOK
  BY DEF TypeInv
<1>f. IsFiniteSet(tokens)
  <2>1. IsFiniteSet(1 .. N)
    BY SchedulerAssumption, FS_Interval
  <2> QED
    BY <1>t, <2>1, FS_Subset DEF TypeOK, Files
<1>1. ASSUME tokens' \subseteq tokens
      PROVE  LimitRespected'
  <2>1. PICK T : T = tokens'
    OBVIOUS
  <2>2. counted(T) \in Nat /\ counted(tokens) \in Nat /\ counted(T) <= counted(tokens)
    BY <1>1, <1>f, <2>1, CountedMonotone
  <2> QED
    BY <2>1, <2>2, SchedulerAssumption DEF LimitRespected, counted
<1>2. ASSUME NEW f \in Files, ClaimSlot(f)
      PROVE  LimitRespected'
  <2>1. tokens' = tokens \cup {f} /\ admits(f, PlacesLeft)
    BY <1>2 DEF ClaimSlot, Startable
  <2>2. counted(tokens \cup {f}) <= Limit
    <3>1. CASE counted(tokens) < PlacesLeft
      <4>1. PlacesLeft \in Nat /\ PlacesLeft <= Limit
        BY <1>t, PlacesLeftBounded
      <4>2. /\ counted(tokens) \in Nat
            /\ counted(tokens \cup {f}) \in Nat
            /\ counted(tokens \cup {f}) <= counted(tokens) + 1
        BY <1>f, CountedOneMore
      <4> QED
        BY <3>1, <4>1, <4>2, SchedulerAssumption
    <3>2. CASE ~(counted(tokens) < PlacesLeft)
      <4>1. f \in Exempt \cup Pooled /\ (f \in Pooled => tokens \cap Pooled # {})
        BY <2>1, <3>2, SchedulerAssumption DEF admits
      <4> QED
        BY <1>f, <4>1, CountedOneMore DEF LimitRespected
    <3> QED
      BY <3>1, <3>2
  <2> QED
    BY <2>1, <2>2 DEF LimitRespected, counted
<1>3. tokens' \subseteq tokens \/ \E f \in Files : ClaimSlot(f)
  <2>1. CASE \E f \in Files : Worker(f)
    BY <2>1 DEF Worker, Requeue, Resolve, BlockBeforeTransfer, BlockAfterTransfer, StartTransfer, Detach,
       Verify, Complete, WriteStopped, Advance, Fail, ReadStopReason, Panic, InspectRow,
       RecordAttempt, GiveBack, activeVars
  <2>2. CASE \E r \in Requests : Issue(r) \/ Handler(r)
    BY <2>2 DEF Issue, Handler, AskToStop, ReadToStop, WriteStop, release_stop_guard,
       AskToResume, ReadToResume, RequeueFailed, WriteResume, ReadToHold, Hold,
       HoldRefused, WorkHeld, WorkFailed, LetGo, activeVars
  <2>3. CASE Dispatch \/ Process \/ UNCHANGED vars
    BY <2>3 DEF Dispatch, BeginPass, NotOffered, ClaimRefused, PassAbandoned, Process,
       ShutdownSignal, ShutdownCollect, ProcessExit, Crash, LoseMemory, Start,
       activeVars, vars
  <2>4. CASE \E f \in Files : TimePasses(f) \/ GateMoves(f) \/ StorageBlock(f)
                              \/ SeedingEnds(f)
    BY <2>4 DEF TimePasses, GateMoves, StorageBlock, SeedingEnds, activeVars
  <2> QED
    BY <2>1, <2>2, <2>3, <2>4 DEF Next
<1> QED
  BY <1>1, <1>2, <1>3

\* The limit holds for every mix of ordinary, exempt and pooled files, whatever
\* the passes read and keep.
THEOREM LimitHolds == Spec => []LimitRespected
<1>1. Init => LimitRespected
  <2>1. counted({}) = 0
    <3>1. {} \ (Exempt \cup Pooled) = {} /\ {} \cap Pooled = {}
      OBVIOUS
    <3> QED
      BY <3>1, FS_EmptySet DEF counted
  <2> QED
    BY <2>1, SchedulerAssumption DEF Init, LimitRespected
<1>2. Spec => []TypeInv
  BY InitType, NextType, PTL DEF Spec
<1> QED
  BY <1>1, <1>2, NextLimit, PTL DEF Spec

-----------------------------------------------------------------------------
(* Stops.                                                                  *)

\* A pause that is under way anywhere was asked for: the row, the reason, the
\* reason a worker has read, and the request between its check and its write.
PauseWasAsked ==
    /\ OnlyAskedPauses
    /\ \A f \in Files : reasons[f] = "paused" \/ why[f] = "paused" => f \in asked
    /\ \A r \in Requests : op[r] = "pause" /\ at[r] # "ask" => target[r] \in asked

\* While the service is up, a cancelled token has its reason; while it is
\* down, nothing runs.
CancelHasReason ==
    /\ life = "up" => \A f \in cancelled : reasons[f] # None
    /\ life = "down" => tokens = {}

StopInv == PauseWasAsked /\ CancelHasReason /\ ShutdownReachesAll

\* Every step keeps the stop bookkeeping: what a pause needs, what a cancelled
\* token means, and whom a shutdown has told.
LEMMA NextStop == TypeInv /\ StopInv /\ [Next]_vars => StopInv'
<1> SUFFICES ASSUME TypeInv, StopInv, [Next]_vars PROVE StopInv'
  OBVIOUS
<1>t. TypeOK /\ RequestOK
  BY DEF TypeInv
<1> USE DEF StopInv, PauseWasAsked, OnlyAskedPauses, CancelHasReason,
            ShutdownReachesAll, Running, rowVars, activeVars, workerVars, reqVars,
            envVars, None
<1>1. CASE BeginPass \/ UNCHANGED vars
  BY <1>1 DEF BeginPass, vars
<1>2. ASSUME NEW f \in Files,
             NotOffered(f) \/ ClaimSlot(f) \/ ClaimRefused(f) \/ PassAbandoned(f)
      PROVE  StopInv'
  BY <1>2, <1>t DEF NotOffered, ClaimSlot, ClaimRefused, PassAbandoned, TypeOK
<1>3. ASSUME NEW f \in Files, NEW from, NEW next, NEW to, Advance(f, from, next, to),
             next = "paused" => f \in asked
      PROVE  StopInv'
  BY <1>3, <1>t, AdvanceEffect DEF TypeOK
<1>4. ASSUME NEW f \in Files, Fail(f) \/ RecordAttempt(f)
      PROVE  StopInv'
  <2>1. /\ state'[f] # "paused"
        /\ \A g \in Files : g # f => state'[g] = state[g]
    BY <1>4, RecordErrorRests DEF Fail, RecordAttempt
  <2> QED
    BY <1>4, <2>1 DEF Fail, RecordAttempt
<1>5. ASSUME NEW f \in Files, ReadStopReason(f)
      PROVE  StopInv'
  BY <1>5, <1>t DEF ReadStopReason, TypeOK, Life
<1>6. ASSUME NEW f \in Files, Panic(f) \/ InspectRow(f) \/ GiveBack(f)
      PROVE  StopInv'
  BY <1>6, <1>t DEF Panic, InspectRow, GiveBack, TypeOK
<1>7. ASSUME NEW r \in Requests, Issue(r)
      PROVE  StopInv'
  BY <1>7, <1>t DEF Issue, NeedsHold, TypeOK
<1>8. ASSUME NEW r \in Requests, AskToStop(r)
      PROVE  StopInv'
  <2>1. PICK f \in Files : f = target[r]
    BY <1>8, <1>t DEF AskToStop, RequestOK
  <2>2. /\ reasons' = [reasons EXCEPT ![f] = ReasonOf(op[r])]
        /\ asked \subseteq asked'
        /\ op[r] = "pause" => f \in asked'
        /\ UNCHANGED <<state, tokens, why, life>>
    BY <1>8, <2>1 DEF AskToStop
  <2>3. \/ cancelled' = cancelled
        \/ cancelled' = cancelled \cup {f}
    BY <1>8, <2>1 DEF AskToStop
  <2>4. PauseWasAsked'
    <3>1. \A q \in Requests : op'[q] = "pause" /\ at'[q] # "ask" => target'[q] \in asked'
      BY <1>8, <1>t, <2>1, <2>2 DEF AskToStop, Proceed, Answer, TypeOK
    <3> QED
      BY <1>8, <1>t, <2>1, <2>2, <3>1 DEF AskToStop, ReasonOf, TypeOK
  <2>5. CancelHasReason'
    <3>1. ReasonOf(op[r]) # None
      BY DEF ReasonOf
    <3> QED
      BY <1>t, <2>1, <2>2, <2>3, <3>1 DEF TypeOK
  <2>6. ShutdownReachesAll'
    BY <2>2, <2>3
  <2> QED
    BY <2>4, <2>5, <2>6
<1>9. ASSUME NEW r \in Requests,
             ReadToStop(r) \/ release_stop_guard(r) \/ AskToResume(r) \/ ReadToResume(r)
             \/ ReadToHold(r) \/ Hold(r) \/ HoldRefused(r) \/ WorkFailed(r) \/ LetGo(r)
      PROVE  StopInv'
  BY <1>9, <1>t DEF ReadToStop, release_stop_guard, AskToResume, ReadToResume,
     ReadToHold, Hold, HoldRefused, WorkFailed, LetGo, NeedsHold, Proceed, Answer, TypeOK
<1>10. ASSUME NEW r \in Requests,
              WriteStop(r) \/ RequeueFailed(r) \/ WriteResume(r) \/ WorkHeld(r)
       PROVE  StopInv'
  BY <1>10, <1>t DEF WriteStop, RequeueFailed, WriteResume, WorkHeld, Discarded, Deleted,
     Gone, Transition, Write, ReasonOf, Proceed, Answer, TypeOK
<1>11. ASSUME NEW f \in Files,
              TimePasses(f) \/ GateMoves(f) \/ StorageBlock(f) \/ SeedingEnds(f)
       PROVE  StopInv'
  BY <1>11, <1>t DEF TimePasses, GateMoves, StorageBlock, SeedingEnds, Transition, Write,
     TypeOK
<1>12. CASE ShutdownSignal \/ ShutdownCollect \/ ProcessExit \/ Crash \/ Start
  <2>1. CASE ShutdownSignal \/ ShutdownCollect
    BY <2>1, <1>t DEF ShutdownSignal, ShutdownCollect, TypeOK
  <2>2. CASE ProcessExit \/ Crash
    BY <2>2, <1>t DEF ProcessExit, Crash, LoseMemory, TypeOK
  <2>3. CASE Start
    BY <2>3, <1>t DEF Start, recovered, TypeOK
  <2> QED
    BY <1>12, <2>1, <2>2, <2>3
<1>13. ASSUME NEW f \in Files,
              \/ Requeue(f) \/ Resolve(f) \/ BlockBeforeTransfer(f) \/ BlockAfterTransfer(f)
              \/ StartTransfer(f)
              \/ Detach(f) \/ Verify(f) \/ Complete(f) \/ WriteStopped(f)
       PROVE  StopInv'
  BY <1>3, <1>13 DEF Requeue, Resolve, BlockBeforeTransfer, BlockAfterTransfer,
     StartTransfer, Detach, Verify, Complete, WriteStopped
<1> QED
  BY <1>1, <1>2, <1>4, <1>5, <1>6, <1>7, <1>8, <1>9, <1>10, <1>11, <1>12, <1>13
     DEF Next, Dispatch, Worker, Handler, Process

\* The stop bookkeeping holds throughout.
LEMMA StopsHold == Spec => []StopInv
<1>1. Init => StopInv
  BY DEF Init, StopInv, PauseWasAsked, OnlyAskedPauses, CancelHasReason,
     ShutdownReachesAll, None
<1>2. Spec => []TypeInv
  BY InitType, NextType, PTL DEF Spec
<1> QED
  BY <1>1, <1>2, NextStop, PTL DEF Spec

\* Only somebody's pause pauses a row; an update or a full disk never does.
THEOREM PausesAreAsked == Spec => []OnlyAskedPauses
<1>1. StopInv => OnlyAskedPauses
  BY DEF StopInv, PauseWasAsked
<1> QED
  BY <1>1, StopsHold, PTL

\* A pass that was already running when the shutdown began adds no worker that
\* the shutdown does not reach.
THEOREM ShutdownReachesEveryWorker == Spec => []ShutdownReachesAll
<1>1. StopInv => ShutdownReachesAll
  BY DEF StopInv
<1> QED
  BY <1>1, StopsHold, PTL

-----------------------------------------------------------------------------
(* Finished rows.                                                          *)

\* The steps a worker can be at while its row is finished: before it has looked
\* at the row, or with nothing left to write.
DoneStep == {"idle", "claimed", "tail", "error", "panicked", "ended"}

FinishedIsLeftAlone ==
    \A f \in Files : /\ state[f] \in {"completed", "seeding"} => pc[f] \in DoneStep
                     /\ life = "down" => pc[f] = "idle"

\* The state machine has no way back from a finished row to the queue.
LEMMA NoWayBack ==
    /\ \A n \in {"queued", "resolving", "downloading", "verifying", "seeding", "blocked",
                 "paused", "cancelled"} : ~can_transition_to("completed", n)
    /\ \A n \in {"queued", "resolving", "downloading", "verifying", "blocked", "paused"} :
            ~can_transition_to("seeding", n)
BY DEF can_transition_to, Successors, Gone

\* Every step leaves a finished row to the resets and removals.
LEMMA NextFinished ==
    TypeInv /\ FinishedIsLeftAlone /\ [Next]_vars
        => /\ FinishedIsLeftAlone'
           /\ \A f \in Files : state[f] = "completed" /\ state'[f] # "completed"
                => \E r \in Requests : target[r] = f /\ at[r] = "work"
<1> DEFINE Kept == \A f \in Files : state[f] = "completed" /\ state'[f] # "completed"
                        => \E r \in Requests : target[r] = f /\ at[r] = "work"
<1> SUFFICES ASSUME TypeInv, FinishedIsLeftAlone, [Next]_vars
             PROVE  FinishedIsLeftAlone' /\ Kept
  OBVIOUS
<1>t. TypeOK /\ RequestOK
  BY DEF TypeInv
<1> USE DEF FinishedIsLeftAlone, DoneStep, rowVars, workerVars, envVars
<1>1. ASSUME NEW f \in Files, NEW from \in WorkerStep \ {"idle", "tail", "ended"},
             NEW next, NEW to \in WorkerStep, Advance(f, from, next, to),
             can_transition_to("completed", next) => next = "completed",
             can_transition_to("seeding", next) => next \in {"completed", "cancelled", "seeding"},
             next \in {"completed", "seeding", "cancelled"} => to = "tail"
      PROVE  FinishedIsLeftAlone' /\ Kept
  BY <1>1, <1>t, AdvanceEffect DEF TypeOK
<1>2. ASSUME NEW f \in Files, Fail(f) \/ RecordAttempt(f)
      PROVE  FinishedIsLeftAlone' /\ Kept
  <2>1. /\ state'[f] \notin {"completed", "seeding"}
        /\ \A g \in Files : g # f => state'[g] = state[g]
    BY <1>2, RecordErrorRests DEF Fail, RecordAttempt
  <2> QED
    BY <1>2, <1>t, <2>1 DEF Fail, RecordAttempt, TypeOK
<1>3. ASSUME NEW f \in Files,
             ReadStopReason(f) \/ Panic(f) \/ InspectRow(f) \/ GiveBack(f)
      PROVE  FinishedIsLeftAlone' /\ Kept
  BY <1>3, <1>t DEF ReadStopReason, Panic, InspectRow, GiveBack, is_working,
     is_startable, TypeOK
<1>4. ASSUME NEW f \in Files,
             NotOffered(f) \/ ClaimSlot(f) \/ ClaimRefused(f) \/ PassAbandoned(f)
      PROVE  FinishedIsLeftAlone' /\ Kept
  BY <1>4, <1>t DEF NotOffered, ClaimSlot, ClaimRefused, PassAbandoned, TypeOK
<1>5. ASSUME NEW r \in Requests, WriteStop(r) \/ RequeueFailed(r) \/ WriteResume(r)
      PROVE  FinishedIsLeftAlone' /\ Kept
  <2>1. ReasonOf(op[r]) \in {"paused", "cancelled"}
    BY DEF ReasonOf
  <2> QED
    BY <1>5, <1>t, <2>1, NoWayBack DEF WriteStop, RequeueFailed, WriteResume, Transition,
       Write, TypeOK
<1>6. ASSUME NEW r \in Requests, WorkHeld(r)
      PROVE  FinishedIsLeftAlone' /\ Kept
  BY <1>6, <1>t DEF WorkHeld, Discarded, Deleted, Gone, Write, TypeOK
<1>7. ASSUME NEW r \in Requests,
             \/ Issue(r) \/ AskToStop(r) \/ ReadToStop(r) \/ release_stop_guard(r)
             \/ AskToResume(r) \/ ReadToResume(r) \/ ReadToHold(r) \/ Hold(r)
             \/ HoldRefused(r) \/ WorkFailed(r) \/ LetGo(r)
      PROVE  FinishedIsLeftAlone' /\ Kept
  BY <1>7 DEF Issue, AskToStop, ReadToStop, release_stop_guard, AskToResume,
     ReadToResume, ReadToHold, Hold, HoldRefused, WorkFailed, LetGo
<1>8. ASSUME NEW f \in Files,
             TimePasses(f) \/ GateMoves(f) \/ StorageBlock(f) \/ SeedingEnds(f)
      PROVE  FinishedIsLeftAlone' /\ Kept
  BY <1>8, <1>t DEF TimePasses, GateMoves, StorageBlock, SeedingEnds, Transition, Write,
     TypeOK
<1>9. CASE BeginPass \/ ShutdownSignal \/ ShutdownCollect \/ UNCHANGED vars
  BY <1>9 DEF BeginPass, ShutdownSignal, ShutdownCollect, vars
<1>10. CASE ProcessExit \/ Crash
  BY <1>10 DEF ProcessExit, Crash, LoseMemory
<1>11. CASE Start
  BY <1>11, <1>t DEF Start, recovered, TypeOK
<1>12. ASSUME NEW f \in Files,
              \/ Requeue(f) \/ Resolve(f) \/ BlockBeforeTransfer(f) \/ BlockAfterTransfer(f)
              \/ StartTransfer(f)
              \/ Detach(f) \/ Verify(f) \/ Complete(f) \/ WriteStopped(f)
       PROVE  FinishedIsLeftAlone' /\ Kept
  <2>1. why[f] \in {"paused", "cancelled", "blocked", "none"}
    BY <1>t DEF TypeOK, StopReason, None
  <2>2. ~can_transition_to("completed", "none") /\ ~can_transition_to("seeding", "none")
    BY DEF can_transition_to, Successors, Gone
  <2> QED
    BY <1>1, <1>12, <2>1, <2>2, NoWayBack DEF Requeue, Resolve, BlockBeforeTransfer, BlockAfterTransfer,
       StartTransfer, Detach, Verify, Complete, WriteStopped, WorkerStep
<1> QED
  BY <1>2, <1>3, <1>4, <1>5, <1>6, <1>7, <1>8, <1>9, <1>10, <1>11, <1>12
     DEF Next, Dispatch, Worker, Handler, Process

\* A finished download is taken back only by a reset or a removal: a late
\* failure, a panic after the completion, a pass that read the row before it
\* finished and a restart all leave it alone.
THEOREM FinishedRowsStay == Spec => FinishedStaysFinished
<1>1. Init => FinishedIsLeftAlone
  BY DEF Init, FinishedIsLeftAlone, DoneStep
<1>2. Spec => []TypeInv
  BY InitType, NextType, PTL DEF Spec
<1>3. Spec => []FinishedIsLeftAlone
  BY <1>1, <1>2, NextFinished, PTL DEF Spec
<1>4. TypeInv /\ FinishedIsLeftAlone /\ [Next]_vars
        => [\A f \in Files :
              state[f] = "completed" /\ state'[f] # "completed"
                  => \E r \in Requests : target[r] = f /\ at[r] = "work"]_vars
  BY NextFinished
<1> QED
  BY <1>2, <1>3, <1>4, PTL DEF Spec, FinishedStaysFinished

-----------------------------------------------------------------------------
(* Stop reasons.                                                           *)

\* A pause or cancel between its reason and the release of it.
Guarding(r, f) ==
    /\ target[r] = f
    /\ op[r] \in {"pause", "cancel"}
    /\ at[r] \in {"read", "write", "release"}

\* Every step leaves a stop reason only with a worker or a request under way.
LEMMA NextReason == TypeInv /\ ReasonAccounted /\ [Next]_vars => ReasonAccounted'
<1> SUFFICES ASSUME TypeInv, ReasonAccounted, [Next]_vars,
                    NEW f \in Files, reasons'[f] # None
             PROVE  f \in tokens' \/ \E r \in Requests : Guarding(r, f)'
  BY DEF ReasonAccounted, Guarding, Running
<1>t. TypeOK /\ RequestOK
  BY DEF TypeInv
<1>i. reasons[f] # None => f \in tokens \/ \E r \in Requests : Guarding(r, f)
  BY DEF ReasonAccounted, Guarding, Running
<1> USE DEF activeVars, reqVars
<1>1. CASE UNCHANGED <<reasons, reqVars>> /\ tokens \subseteq tokens'
  BY <1>1, <1>i DEF Guarding
<1>2. ASSUME NEW g \in Files, GiveBack(g)
      PROVE  f \in tokens' \/ \E r \in Requests : Guarding(r, f)'
  BY <1>2, <1>t, <1>i DEF GiveBack, Guarding, TypeOK
<1>3. ASSUME NEW q \in Requests, AskToStop(q)
      PROVE  f \in tokens' \/ \E r \in Requests : Guarding(r, f)'
  <2>1. CASE target[q] = f
    BY <1>3, <1>t, <2>1 DEF AskToStop, Running, Proceed, Guarding, TypeOK
  <2>2. CASE target[q] # f
    <3>1. reasons[f] # None
      BY <1>3, <1>t, <2>2 DEF AskToStop, TypeOK
    <3>2. \A r \in Requests : Guarding(r, f) => Guarding(r, f)'
      BY <1>3, <1>t, <2>2 DEF AskToStop, Proceed, Answer, Guarding, TypeOK
    <3> QED
      BY <1>3, <1>i, <3>1, <3>2 DEF AskToStop
  <2> QED
    BY <2>1, <2>2
<1>4. ASSUME NEW q \in Requests,
             \/ Issue(q) \/ ReadToStop(q) \/ WriteStop(q) \/ AskToResume(q)
             \/ ReadToResume(q) \/ RequeueFailed(q) \/ WriteResume(q) \/ ReadToHold(q)
             \/ Hold(q) \/ HoldRefused(q) \/ WorkHeld(q) \/ WorkFailed(q) \/ LetGo(q)
      PROVE  f \in tokens' \/ \E r \in Requests : Guarding(r, f)'
  <2>1. tokens' = tokens
    BY <1>4 DEF Issue, ReadToStop, WriteStop, AskToResume, ReadToResume, RequeueFailed,
       WriteResume, ReadToHold, Hold, HoldRefused, WorkHeld, WorkFailed, LetGo
  <2>2. reasons[f] # None
    BY <1>4, <1>t DEF Issue, ReadToStop, WriteStop, AskToResume, ReadToResume,
       RequeueFailed, WriteResume, ReadToHold, Hold, HoldRefused, WorkHeld, WorkFailed,
       LetGo, TypeOK
  <2>3. \A r \in Requests : Guarding(r, f) => Guarding(r, f)'
    BY <1>4, <1>t DEF Issue, ReadToStop, WriteStop, AskToResume, ReadToResume,
       RequeueFailed, WriteResume, ReadToHold, Hold, HoldRefused, WorkHeld, WorkFailed,
       LetGo, NeedsHold, Proceed, Answer, Guarding, TypeOK, None
  <2> QED
    BY <1>i, <2>1, <2>2, <2>3
<1>5. ASSUME NEW q \in Requests, release_stop_guard(q)
      PROVE  f \in tokens' \/ \E r \in Requests : Guarding(r, f)'
  <2>1. reasons[f] # None /\ tokens' = tokens
    BY <1>5, <1>t DEF release_stop_guard, TypeOK
  <2>2. f \in tokens \/ target[q] # f
    BY <1>5, <1>t DEF release_stop_guard, Running, TypeOK
  <2>3. \A r \in Requests : Guarding(r, f) /\ target[q] # f => Guarding(r, f)'
    BY <1>5, <1>t DEF release_stop_guard, Answer, Guarding, TypeOK
  <2> QED
    BY <1>i, <2>1, <2>2, <2>3
<1>6. ASSUME NEW g \in Files, StorageBlock(g)
      PROVE  f \in tokens' \/ \E r \in Requests : Guarding(r, f)'
  BY <1>6, <1>t, <1>i DEF StorageBlock, Running, Guarding, TypeOK
<1>7. CASE ProcessExit \/ Crash
  BY <1>7 DEF ProcessExit, Crash, LoseMemory
<1>8. ASSUME NEW g \in Files, Worker(g), ~GiveBack(g)
      PROVE  UNCHANGED <<reasons, reqVars>> /\ tokens \subseteq tokens'
  BY <1>8 DEF Worker, Requeue, Resolve, BlockBeforeTransfer, BlockAfterTransfer, StartTransfer, Detach,
     Verify, Complete, WriteStopped, Advance, Fail, ReadStopReason, Panic, InspectRow,
     RecordAttempt
<1>9. CASE Dispatch \/ ShutdownSignal \/ ShutdownCollect \/ Start \/ UNCHANGED vars
  <2>1. UNCHANGED <<reasons, reqVars>> /\ tokens \subseteq tokens'
    BY <1>9 DEF Dispatch, BeginPass, NotOffered, ClaimSlot, ClaimRefused, PassAbandoned,
       ShutdownSignal, ShutdownCollect, Start, vars
  <2> QED
    BY <1>1, <2>1
<1>10. ASSUME NEW g \in Files, TimePasses(g) \/ GateMoves(g) \/ SeedingEnds(g)
       PROVE  UNCHANGED <<reasons, reqVars>> /\ tokens \subseteq tokens'
  BY <1>10 DEF TimePasses, GateMoves, SeedingEnds
<1> QED
  BY <1>1, <1>2, <1>3, <1>4, <1>5, <1>6, <1>7, <1>8, <1>9, <1>10
     DEF Next, Handler, Process

\* No order of pauses, cancels, resumes, blocks and restarts leaves a stop
\* reason behind that nobody would take out again.
THEOREM NoReasonIsLeft == Spec => []ReasonAccounted
<1>1. Init => ReasonAccounted
  BY DEF Init, ReasonAccounted
<1>2. Spec => []TypeInv
  BY InitType, NextType, PTL DEF Spec
<1> QED
  BY <1>1, <1>2, NextReason, PTL DEF Spec
=============================================================================

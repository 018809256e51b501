------------------------------- MODULE Transfer -------------------------------
(***************************************************************************)
(* One HTTP download on its way to the disk: the chunk plan and its         *)
(* committed offsets in the store, the `.part` file the chunk workers of    *)
(* crates/rd-http write at their offsets, the checkpoint that records an    *)
(* offset after the file was synced, the promotion into the final place,    *)
(* and what a stop, a crash or a power failure between any two of these     *)
(* steps leaves behind for the next attempt.                                *)
(*                                                                         *)
(* A file is a sequence of blocks; a block holds the version of the remote  *)
(* file it was fetched from, or `Hole` where nothing was written.  `part`   *)
(* is the file as the process sees it, `disk` what a power failure is sure  *)
(* to leave of it.                                                          *)
(***************************************************************************)
EXTENDS Integers, Sequences, FiniteSets

CONSTANTS
    Length,         \* the length of every version of the remote file, in blocks
    Longest,        \* bound: no version is longer
    MaxChunks,      \* max_chunks_per_file
    Sizes,          \* whether the host states the length
    Changing,       \* whether a host that does, or does not, changes the file
    Ranges,         \* what the probe may learn about range requests
    Answers,        \* how the host answers a range whose validator still holds
    Policies,       \* the collision policies met
    Mirrored,       \* whether another mirror waits to take over
    Interruptions,  \* what may come between: "pause", "break", "crash", "power", "full"
    MaxStops,       \* bound: interruptions and resumes in a behaviour
    MaxDiscards     \* bound: resets and discards in a behaviour

Version == 1 .. Len(Length)
Hole    == 0
Absent  == << -1 >>                       \* no such file
NoEnd   == Longest + 1                    \* the end of a chunk of unknown length
Workers == 1 .. MaxChunks

ASSUME TransferAssumption ==
    /\ Length \in Seq(Nat \ {0})
    /\ Length # <<>>
    /\ Longest \in Nat /\ \A v \in Version : Length[v] <= Longest
    /\ MaxChunks \in Nat \ {0}
    /\ Sizes \subseteq BOOLEAN /\ Changing \subseteq BOOLEAN /\ Mirrored \in BOOLEAN
    /\ Ranges \subseteq BOOLEAN
    /\ Answers \subseteq {"partial", "whole"}
    /\ Policies \subseteq {"rename", "overwrite", "skip", "compare", "ask"}
    /\ Interruptions \subseteq {"pause", "break", "crash", "power", "full"}
    /\ MaxStops \in Nat /\ MaxDiscards \in Nat

VARIABLES
    row, chunks, etag,             \* the store
    part, disk, final,             \* the file system
    remote,                        \* the host: the version it serves
    at, probe, halt,               \* the attempt
    wpc, pos, body,                \* its chunk workers
    discarding,                    \* a reset or discard under its hold
    stops, discards,               \* bounds
    taken, promoted, verdict       \* history

storeVars   == <<row, chunks, etag>>
fileVars    == <<part, disk, final>>
workerVars  == <<wpc, pos, body>>
boundVars   == <<stops, discards>>
historyVars == <<taken, promoted, verdict>>
vars == <<storeVars, fileVars, remote, at, probe, halt, workerVars, discarding,
          boundVars, historyVars>>

None == "none"

RowState == {"queued", "resolving", "downloading", "verifying", "paused",
             "blocked", "failed", "completed"}
Working  == {"resolving", "downloading", "verifying"}
Step     == {"idle", "probe", "place", "open", "fetch", "verify", "promote",
             "complete", "giving_up"}
ChunkSpec == [start : 0 .. Longest, end : 0 .. NoEnd, committed : 0 .. Longest]
Content  == UNION {[1 .. n -> Version \cup {Hole}] : n \in 0 .. Longest}

TypeOK ==
    /\ row \in RowState
    /\ chunks \in Seq(ChunkSpec) /\ Len(chunks) <= MaxChunks
    /\ etag \in Version \cup {0}
    /\ part \in Content \cup {Absent}
    /\ disk \in Content \cup {Absent}
    /\ final \in Content \cup {Absent}
    /\ remote \in Version
    /\ at \in Step
    /\ probe \in [version : Version, ranges : BOOLEAN, sized : BOOLEAN]
    /\ halt \in {None, "paused", "transient", "remote_changed"}
    /\ wpc \in [Workers -> {"idle", "asking", "body", "synced", "done", "stopped"}]
    /\ pos \in [Workers -> 0 .. Longest]
    /\ body \in [Workers -> Version \cup {0}]
    /\ discarding \in BOOLEAN
    /\ stops \in 0 .. MaxStops
    /\ discards \in 0 .. MaxDiscards
    /\ taken \in BOOLEAN
    /\ promoted \in Nat
    /\ verdict \in {None, "remote_changed"}

-----------------------------------------------------------------------------
(* The chunk plan.                                                         *)

Least(m, n) == IF m < n THEN m ELSE n
div_ceil(m, n) == (m + n - 1) \div n

\* `plan_chunks`, with a block as the smallest chunk.  In blocks the last chunks
\* of a short file can be empty, where their start is cut off like their end (in
\* bytes a chunk is millions of times longer than the count, and no start is
\* behind the file).
plan_chunks(total, ranges, budget) ==
    LET count == IF ranges THEN Least(budget, total) ELSE 1
        size  == div_ceil(total, count)
        edge(i) == Least(i * size, total)
    IN  IF probe.sized
        THEN [i \in 1 .. count |-> [start     |-> edge(i - 1),
                                    end       |-> edge(i),
                                    committed |-> edge(i - 1)]]
        ELSE << [start |-> 0, end |-> NoEnd, committed |-> 0] >>

\* Mutant: off by one, the last block of a chunk is asked for again.
is_complete_past_the_end(chunk) == chunk.end # NoEnd /\ chunk.committed > chunk.end

is_complete(chunk) == chunk.end # NoEnd /\ chunk.committed >= chunk.end

HasCommitted == \E i \in DOMAIN chunks : chunks[i].committed > chunks[i].start

Confirmed == UNION {chunks[i].start + 1 .. chunks[i].committed : i \in DOMAIN chunks}

\* The sum over the chunks, which do not overlap.
committed_bytes == Cardinality(Confirmed)

Idle == [c \in Workers |-> "idle"]

NoWorkers ==
    /\ wpc' = Idle
    /\ pos' = [c \in Workers |-> 0]
    /\ body' = [c \in Workers |-> 0]

\* The attempt ends and leaves its row in `next`.
EndAttempt(next) ==
    /\ row' = next
    /\ at' = "idle"
    /\ halt' = None
    /\ NoWorkers

-----------------------------------------------------------------------------
(* Before the first byte.                                                  *)

Begin ==
    /\ row = "queued"
    /\ at = "idle"
    /\ ~discarding
    /\ row' = "resolving"
    /\ at' = "probe"
    /\ UNCHANGED <<chunks, etag, fileVars, remote, probe, halt, workerVars,
                   discarding, boundVars, historyVars>>

\* Mutant: the validators of a transfer under way are not compared.
PlanTransfer_unvalidated ==
    /\ at = "probe"
    /\ \E ranges \in Ranges :
          /\ probe' = [probe EXCEPT !.version = remote, !.ranges = ranges]
          /\ \/ /\ HasCommitted
                /\ ranges
                /\ at' = "place"
                /\ UNCHANGED <<storeVars, halt, workerVars>>
             \/ /\ ~HasCommitted
                /\ \E budget \in Workers :
                      chunks' = plan_chunks(Length[remote], ranges, budget)
                /\ etag' = remote
                /\ at' = "place"
                /\ UNCHANGED <<row, halt, workerVars>>
    /\ UNCHANGED <<fileVars, remote, discarding, boundVars, historyVars>>

\* Mutant: a transfer under way is planned anew at every attempt.
PlanTransfer_anew ==
    /\ at = "probe"
    /\ \E ranges \in Ranges, budget \in Workers :
          /\ probe' = [probe EXCEPT !.version = remote, !.ranges = ranges]
          /\ chunks' = plan_chunks(Length[remote], ranges, budget)
    /\ etag' = remote
    /\ at' = "place"
    /\ UNCHANGED <<row, halt, workerVars, fileVars, remote, discarding, boundVars,
                   historyVars>>

\* `plan_transfer`: a length that contradicts the recorded one fails the attempt
\* (beyond a tolerance, so it may also pass); a transfer with committed bytes is
\* continued only when the validators still match and ranges are served; without
\* any it is planned anew.
PlanTransfer ==
    /\ at = "probe"
    /\ \E ranges \in Ranges :
          /\ probe' = [probe EXCEPT !.version = remote, !.ranges = ranges]
          /\ \/ /\ probe.sized
                /\ etag # 0 /\ Length[etag] # Length[remote]
                /\ EndAttempt("failed")
                /\ UNCHANGED <<chunks, etag>>
             \/ /\ HasCommitted
                /\ etag # remote \/ ~ranges
                /\ EndAttempt("blocked")
                /\ UNCHANGED <<chunks, etag>>
             \/ /\ HasCommitted
                /\ etag = remote /\ ranges
                /\ at' = "place"
                /\ UNCHANGED <<storeVars, halt, workerVars>>
             \/ /\ ~HasCommitted
                /\ \E budget \in Workers :
                      chunks' = plan_chunks(Length[remote], ranges, budget)
                /\ etag' = remote
                /\ at' = "place"
                /\ UNCHANGED <<row, halt, workerVars>>
    /\ UNCHANGED <<fileVars, remote, discarding, boundVars, historyVars>>

\* Mutant: only a stated length counts as evidence.
is_finished_payload_stated(on_disk, committed) ==
    /\ committed > 0
    /\ on_disk = committed
    /\ probe.sized
    /\ Length[probe.version] = committed

is_finished_payload(on_disk, committed) ==
    /\ committed > 0
    /\ on_disk = committed
    /\ probe.sized => Length[probe.version] = committed

Adoptable ==
    /\ part = Absent
    /\ final # Absent
    /\ is_finished_payload(Len(final), committed_bytes)

\* `adopt_existing_final`: an earlier run renamed the payload and stopped
\* before the row said so.
Adopt ==
    /\ at = "place"
    /\ Adoptable
    /\ row' = "verifying"
    /\ at' = "complete"
    /\ UNCHANGED <<chunks, etag, fileVars, remote, probe, halt, workerVars,
                   discarding, boundVars, historyVars>>

RemovePart ==
    /\ part' = Absent
    /\ disk' = Absent
    /\ taken' = (taken \/ (part # Absent /\ HasCommitted))

\* The collision policy on a name that is taken: the attempt goes on to `step`
\* with its row in `next`, or ends.  A rename gives the row a name that is free;
\* a skip discards the part file and has the failure still to record.
Collision(policy, next, step) ==
    \/ /\ policy = "rename"
       /\ final' = Absent
       /\ row' = next /\ at' = step
       /\ UNCHANGED <<part, disk, taken>>
    \/ /\ policy = "overwrite"
       /\ row' = next /\ at' = step
       /\ UNCHANGED <<fileVars, taken>>
    \/ /\ policy = "skip"
       /\ RemovePart
       /\ at' = "giving_up"
       /\ UNCHANGED <<row, final>>
    \/ /\ policy = "ask"
       /\ row' = "blocked" /\ at' = "idle"
       /\ UNCHANGED <<fileVars, taken>>

SameLength == probe.sized => Len(final) = Length[probe.version]

\* `prepare_destination`: the name is settled (`before_transfer`), and the row
\* moves to `downloading` or is blocked where the disk is full.
PrepareDestination ==
    /\ at = "place"
    /\ ~Adoptable
    /\ \E fits \in IF "full" \in Interruptions THEN BOOLEAN ELSE {TRUE} :
          LET next == IF fits THEN "downloading" ELSE "blocked"
              step == IF fits THEN "open" ELSE "idle"
          IN  IF final = Absent
              THEN /\ row' = next /\ at' = step
                   /\ UNCHANGED <<fileVars, taken>>
              ELSE \E policy \in Policies :
                     Collision(IF policy = "compare"
                               THEN IF SameLength THEN "overwrite" ELSE "rename"
                               ELSE policy,
                               next, step)
    /\ UNCHANGED <<chunks, etag, remote, probe, halt, workerVars, discarding,
                   boundVars, promoted, verdict>>

-----------------------------------------------------------------------------
(* The transfer.                                                           *)

\* A file of `n` blocks: cut off, or extended by a hole.
SetLen(file, n) == [i \in 1 .. n |-> IF i <= Len(file) THEN file[i] ELSE Hole]

WriteAt(file, offset, block) ==
    [i \in 1 .. (IF offset < Len(file) THEN Len(file) ELSE offset + 1) |->
        IF i = offset + 1 THEN block ELSE IF i <= Len(file) THEN file[i] ELSE Hole]

Opened(file) ==
    LET there == IF file = Absent THEN <<>> ELSE file
    IN  IF probe.sized THEN SetLen(there, Length[probe.version]) ELSE there

\* `DownloadEngine::download`: the part file is created or opened, never
\* emptied, and every chunk that is not complete gets a worker.
OpenPart ==
    /\ at = "open"
    /\ part' = Opened(part)
    /\ disk' = Opened(disk)
    /\ wpc' = [c \in Workers |->
                  IF c \notin DOMAIN chunks THEN "idle"
                  ELSE IF is_complete(chunks[c]) THEN "done" ELSE "asking"]
    /\ at' = "fetch"
    /\ UNCHANGED <<storeVars, final, remote, probe, halt, pos, body, discarding,
                   boundVars, historyVars>>

\* A worker gives up; the others are wound down.
GiveUp(c, why) ==
    /\ wpc' = [wpc EXCEPT ![c] = "stopped"]
    /\ halt' = IF halt = None THEN why ELSE halt

StartBody(c, position) ==
    /\ wpc' = [wpc EXCEPT ![c] = "body"]
    /\ pos' = [pos EXCEPT ![c] = position]
    /\ body' = [body EXCEPT ![c] = remote]

\* Mutant: a whole body is taken from the start over bytes already committed.
Respond_over_committed(c) ==
    /\ wpc[c] = "asking"
    /\ halt = None
    /\ \/ /\ probe.ranges => remote = probe.version
          /\ chunks[c].committed < Length[remote]
          /\ StartBody(c, chunks[c].committed)
       \/ /\ probe.ranges
          /\ remote # probe.version
          /\ Len(chunks) = 1
          /\ StartBody(c, chunks[c].start)
    /\ UNCHANGED <<storeVars, fileVars, remote, at, probe, halt, discarding,
                   boundVars, historyVars>>

\* The host's answer, and `start_position`: where its body belongs.
Respond(c) ==
    /\ wpc[c] = "asking"
    /\ halt = None
    /\ LET chunk == chunks[c] IN
       \/ /\ ~probe.ranges
          /\ StartBody(c, chunk.committed)
          /\ UNCHANGED halt
       \/ /\ probe.ranges
          /\ remote = probe.version
          /\ "partial" \in Answers
          /\ chunk.committed < Length[remote]
          /\ StartBody(c, chunk.committed)
          /\ UNCHANGED halt
       \/ /\ probe.ranges
          /\ remote = probe.version
          /\ chunk.committed >= Length[remote]
          /\ GiveUp(c, "remote_changed")
          /\ UNCHANGED <<pos, body>>
       \/ /\ probe.ranges
          /\ remote # probe.version \/ "whole" \in Answers
          /\ \/ /\ chunk.committed > chunk.start
                /\ GiveUp(c, "remote_changed")
                /\ UNCHANGED <<pos, body>>
             \/ /\ chunk.committed = chunk.start
                /\ Len(chunks) = 1
                /\ StartBody(c, chunk.start)
                /\ UNCHANGED halt
             \/ /\ chunk.committed = chunk.start
                /\ Len(chunks) > 1
                /\ GiveUp(c, "transient")
                /\ UNCHANGED <<pos, body>>
    /\ UNCHANGED <<storeVars, fileVars, remote, at, probe, discarding, boundVars,
                   historyVars>>

\* The offset the body of a worker's answer ends at: a partial one ends with
\* its chunk.
BodyEnd(c) ==
    IF probe.ranges /\ Len(chunks) > 1 THEN chunks[c].end ELSE Length[body[c]]

\* `write_bytes`: one buffer at its offset, unless it reaches past the chunk.
WriteBytes(c) ==
    /\ wpc[c] = "body"
    /\ pos[c] < BodyEnd(c)
    /\ \/ /\ pos[c] < chunks[c].end
          /\ part' = WriteAt(part, pos[c], body[c])
          /\ pos' = [pos EXCEPT ![c] = @ + 1]
          /\ UNCHANGED <<wpc, halt>>
       \/ /\ pos[c] >= chunks[c].end
          /\ GiveUp(c, "remote_changed")
          /\ UNCHANGED <<part, pos>>
    /\ UNCHANGED <<storeVars, disk, final, remote, at, probe, body, discarding,
                   boundVars, historyVars>>

\* Mutant: the offset is recorded without a sync before it.
SyncPart_skipped(c) ==
    /\ wpc[c] = "body"
    /\ pos[c] > chunks[c].committed
    /\ wpc' = [wpc EXCEPT ![c] = "synced"]
    /\ UNCHANGED <<storeVars, fileVars, remote, at, probe, halt, pos, body,
                   discarding, boundVars, historyVars>>

\* `flush`, first half: the whole part file is synced.
SyncPart(c) ==
    /\ wpc[c] = "body"
    /\ pos[c] > chunks[c].committed
    /\ disk' = part
    /\ wpc' = [wpc EXCEPT ![c] = "synced"]
    /\ UNCHANGED <<storeVars, part, final, remote, at, probe, halt, pos, body,
                   discarding, boundVars, historyVars>>

\* Mutant: the recorded offset is one block ahead.
Checkpoint_ahead(c) ==
    /\ wpc[c] = "synced"
    /\ chunks' = [chunks EXCEPT ![c].committed = pos[c] + 1]
    /\ wpc' = [wpc EXCEPT ![c] = "body"]
    /\ UNCHANGED <<row, etag, fileVars, remote, at, probe, halt, pos, body,
                   discarding, boundVars, historyVars>>

\* Second half: `checkpoint_chunk` records the offset.
Checkpoint(c) ==
    /\ wpc[c] = "synced"
    /\ chunks' = [chunks EXCEPT ![c].committed = pos[c]]
    /\ wpc' = [wpc EXCEPT ![c] = "body"]
    /\ UNCHANGED <<row, etag, fileVars, remote, at, probe, halt, pos, body,
                   discarding, boundVars, historyVars>>

\* The body is through: the chunk is done when it was reached and recorded, and
\* a truncated answer otherwise.
BodyEnds(c) ==
    /\ wpc[c] = "body"
    /\ pos[c] >= BodyEnd(c)
    /\ \/ /\ chunks[c].end \in {NoEnd, pos[c]}
          /\ chunks[c].committed = pos[c]
          /\ wpc' = [wpc EXCEPT ![c] = "done"]
          /\ UNCHANGED halt
       \/ /\ chunks[c].end \notin {NoEnd, pos[c]}
          /\ GiveUp(c, "transient")
    /\ UNCHANGED <<storeVars, fileVars, remote, at, probe, pos, body, discarding,
                   boundVars, historyVars>>

\* `wind_down`: a worker that was told to stop does, with its checkpoint behind
\* it or, after the timeout, wherever it is.
WindDown(c) ==
    /\ wpc[c] \in {"asking", "body", "synced"}
    /\ halt # None
    /\ wpc' = [wpc EXCEPT ![c] = "stopped"]
    /\ UNCHANGED <<storeVars, fileVars, remote, at, probe, halt, pos, body,
                   discarding, boundVars, historyVars>>

Worker(c) == Respond(c) \/ WriteBytes(c) \/ SyncPart(c) \/ Checkpoint(c)
             \/ BodyEnds(c) \/ WindDown(c)

AllDone    == \A c \in DOMAIN chunks : wpc[c] = "done"
AllStopped == \A c \in DOMAIN chunks : wpc[c] \in {"done", "stopped"}

\* `settle` of a transfer that fetched everything.
SettleComplete ==
    /\ at = "fetch"
    /\ AllDone
    /\ disk' = part
    /\ row' = "verifying"
    /\ at' = "verify"
    /\ halt' = None
    /\ NoWorkers
    /\ UNCHANGED <<chunks, etag, part, final, remote, probe, discarding, boundVars,
                   historyVars>>

\* `settle` of a stopped or failed one: a transient failure waits for a retry
\* or has none left.
SettleStopped ==
    /\ at = "fetch"
    /\ AllStopped /\ ~AllDone
    /\ \/ halt = "paused" /\ EndAttempt("paused")
       \/ halt = "transient" /\ \E next \in {"queued", "failed"} : EndAttempt(next)
       \/ halt = "remote_changed" /\ EndAttempt("failed")
    /\ verdict' = IF halt = "remote_changed" THEN halt ELSE verdict
    /\ UNCHANGED <<chunks, etag, fileVars, remote, probe, discarding, boundVars,
                   taken, promoted>>

\* `hand_over` to the next mirror: the part file goes first ...
DiscardPartial ==
    /\ Mirrored
    /\ at = "fetch"
    /\ AllStopped /\ ~AllDone
    /\ halt \in {"transient", "remote_changed"}
    /\ RemovePart
    /\ at' = "giving_up"
    /\ UNCHANGED <<storeVars, final, remote, probe, halt, workerVars, discarding,
                   boundVars, promoted, verdict>>

\* ... then the failure is recorded, as it is for a skip.
GiveUpRecorded ==
    /\ at = "giving_up"
    /\ EndAttempt("failed")
    /\ UNCHANGED <<chunks, etag, fileVars, remote, probe, discarding, boundVars,
                   historyVars>>

-----------------------------------------------------------------------------
(* After the last byte.                                                    *)

\* `collision::after_transfer`: the name may have been taken meanwhile.
SettleName ==
    /\ at = "verify"
    /\ IF final = Absent
       THEN /\ at' = "promote"
            /\ UNCHANGED <<row, fileVars, taken>>
       ELSE \E policy \in Policies :
              IF policy = "compare" /\ final = part
              THEN /\ part' = Absent
                   /\ disk' = Absent
                   /\ at' = "complete"
                   /\ UNCHANGED <<row, final, taken>>
              ELSE Collision(IF policy = "compare" THEN "rename" ELSE policy,
                             "verifying", "promote")
    /\ UNCHANGED <<chunks, etag, remote, probe, halt, workerVars, discarding,
                   boundVars, promoted, verdict>>

\* `promote`: the rename, which replaces what is there ...
Promote ==
    /\ at = "promote"
    /\ final' = part
    /\ part' = Absent
    /\ disk' = Absent
    /\ promoted' = promoted + 1
    /\ at' = "complete"
    /\ UNCHANGED <<storeVars, remote, probe, halt, workerVars, discarding,
                   boundVars, taken, verdict>>

\* ... or a failure on this machine: of the checksum, of the rename, or of the
\* store with the payload in place already.
PromoteFails ==
    /\ at \in {"verify", "promote", "complete"}
    /\ "break" \in Interruptions /\ stops < MaxStops
    /\ stops' = stops + 1
    /\ EndAttempt("failed")
    /\ UNCHANGED <<chunks, etag, fileVars, remote, probe, discarding, discards,
                   historyVars>>

CompleteDownload ==
    /\ at = "complete"
    /\ EndAttempt("completed")
    /\ UNCHANGED <<chunks, etag, fileVars, remote, probe, discarding, boundVars,
                   historyVars>>

Attempt ==
    \/ Begin \/ PlanTransfer \/ Adopt \/ PrepareDestination \/ OpenPart
    \/ (\E c \in DOMAIN chunks : Worker(c))
    \/ SettleComplete \/ SettleStopped \/ DiscardPartial \/ GiveUpRecorded
    \/ SettleName \/ Promote \/ CompleteDownload

-----------------------------------------------------------------------------
(* What comes between.                                                     *)

Interrupt(kind) ==
    /\ kind \in Interruptions
    /\ stops < MaxStops
    /\ stops' = stops + 1

Pause ==
    /\ Interrupt("pause")
    /\ at = "fetch" /\ halt = None
    /\ halt' = "paused"
    /\ UNCHANGED <<storeVars, fileVars, remote, at, probe, workerVars, discarding,
                   discards, historyVars>>

\* The connection of a worker breaks.
Break(c) ==
    /\ Interrupt("break")
    /\ wpc[c] \in {"asking", "body"}
    /\ GiveUp(c, "transient")
    /\ UNCHANGED <<storeVars, fileVars, remote, at, probe, pos, body, discarding,
                   discards, historyVars>>

\* Mutant: a row that was being verified is not taken up again.
Restart_forgetting ==
    /\ EndAttempt(IF row \in {"resolving", "downloading"} THEN "queued" ELSE row)
    /\ discarding' = FALSE
    /\ UNCHANGED <<chunks, etag, final, remote, probe, discards, historyVars>>

\* The process is gone and started again: `recover_interrupted` queues the row
\* its worker was on.
Restart ==
    /\ EndAttempt(IF row \in Working THEN "queued" ELSE row)
    /\ discarding' = FALSE
    /\ UNCHANGED <<chunks, etag, final, remote, probe, discards, historyVars>>

Crash ==
    /\ Interrupt("crash")
    /\ Restart
    /\ UNCHANGED <<part, disk>>

\* Of what was written after the last sync, any part may be lost.
PowerLoss ==
    /\ Interrupt("power")
    /\ Restart
    /\ IF part = Absent
       THEN UNCHANGED part
       ELSE \E lost \in SUBSET DOMAIN part :
              part' = [i \in DOMAIN part |->
                          IF i \notin lost THEN part[i]
                          ELSE IF i <= Len(disk) THEN disk[i] ELSE Hole]
    /\ disk' = part'

RemoteMoves ==
    /\ probe.sized \in Changing
    /\ remote < Len(Length)
    /\ remote' = remote + 1
    /\ UNCHANGED <<storeVars, fileVars, at, probe, halt, workerVars, discarding,
                   boundVars, historyVars>>

Resume ==
    /\ row \in {"paused", "blocked", "failed"}
    /\ at = "idle" /\ ~discarding
    /\ stops < MaxStops
    /\ stops' = stops + 1
    /\ row' = "queued"
    /\ verdict' = None
    /\ UNCHANGED <<chunks, etag, fileVars, remote, at, probe, halt, workerVars,
                   discarding, discards, taken, promoted>>

\* `reset` or `discard_partial` under its hold: the part file first, which may
\* fail and is only logged, and the payload when that was asked for ...
DiscardUnfinished ==
    /\ row \notin Working
    /\ at = "idle" /\ ~discarding
    /\ discards < MaxDiscards
    /\ discards' = discards + 1
    /\ discarding' = TRUE
    /\ \E dropPart, dropPayload \in BOOLEAN :
          /\ part' = IF dropPart THEN Absent ELSE part
          /\ disk' = IF dropPart THEN Absent ELSE disk
          /\ final' = IF dropPayload THEN Absent ELSE final
          /\ taken' = \/ taken
                      \/ dropPart /\ part # Absent /\ HasCommitted
                      \/ dropPayload /\ final # Absent
    /\ UNCHANGED <<storeVars, remote, at, probe, halt, workerVars, stops, promoted,
                   verdict>>

\* ... then `reset_download` forgets the plan and queues the row.
ResetRow ==
    /\ discarding
    /\ discarding' = FALSE
    /\ row' = "queued"
    /\ chunks' = <<>>
    /\ etag' = 0
    /\ taken' = FALSE
    /\ promoted' = 0
    /\ verdict' = None
    /\ UNCHANGED <<fileVars, remote, at, probe, halt, workerVars, boundVars>>

\* A discard ends there: its row is to be removed next.
DiscardEnds ==
    /\ discarding
    /\ discarding' = FALSE
    /\ UNCHANGED <<storeVars, fileVars, remote, at, probe, halt, workerVars,
                   boundVars, historyVars>>

Between ==
    \/ Pause \/ (\E c \in DOMAIN chunks : Break(c)) \/ PromoteFails
    \/ Crash \/ PowerLoss \/ RemoteMoves \/ Resume
    \/ DiscardUnfinished \/ ResetRow \/ DiscardEnds

Init ==
    /\ row = "queued"
    /\ chunks = <<>>
    /\ etag = 0
    /\ part = Absent /\ disk = Absent /\ final = Absent
    /\ remote = 1
    /\ at = "idle"
    /\ probe \in [version : {1}, ranges : {FALSE}, sized : Sizes]
    /\ halt = None
    /\ wpc = Idle
    /\ pos = [c \in Workers |-> 0]
    /\ body = [c \in Workers |-> 0]
    /\ discarding = FALSE
    /\ stops = 0 /\ discards = 0
    /\ taken = FALSE
    /\ promoted = 0
    /\ verdict = None

Next == Attempt \/ Between

Spec == Init /\ [][Next]_vars

\* Tasks make progress; nothing that comes between has to.
FairSpec == Spec /\ WF_vars(Attempt)

-----------------------------------------------------------------------------
(* Properties.  The first three are the invariants of                      *)
(* crates/rd-core/recovery-matrix.md.                                      *)

\* No confirmed byte is invented: what a checkpoint says was fetched is on the
\* disk, in the part file or in the payload it became, whatever stopped the
\* transfer and however many workers share the file (`flush` syncs, then
\* commits).
ConfirmedIsDurable ==
    ~taken => LET file == IF part = Absent THEN final ELSE disk IN
              \A i \in Confirmed : i \in DOMAIN file /\ file[i] \in Version

\* No confirmed byte is overwritten with different content: a resume, a late
\* answer or a host that sends the whole file writes behind the checkpoint only
\* (`start_position`).
ConfirmedBytesStay ==
    [][\A i \in Confirmed :
          part # Absent /\ part' # Absent /\ i \in DOMAIN part
              => i \in DOMAIN part' /\ part'[i] = part[i]]_vars

Fill(v) == [i \in 1 .. Length[v] |-> v]

\* Resuming reaches the same bytes as an uninterrupted run: a completed payload
\* is one version of the remote file from its first byte to its last, unless
\* its part file was deleted under its checkpoint.
CompletedIsOneVersion ==
    row = "completed" /\ ~taken => \E v \in Version : final = Fill(v)

\* A payload that was put in place is not fetched again: a stop between the
\* rename and the row's completion is adopted by the next attempt, whether the
\* host states a length or not (`adopt_existing_final`), unless what was fetched
\* has been deleted since.
PlacedIsNotFetchedAgain == promoted > 0 /\ ~taken => at \notin {"open", "fetch"}

Fetched ==
    /\ part # Absent
    /\ etag # 0
    /\ part = Fill(etag)
    /\ Confirmed = 1 .. Length[etag]

\* A file that was fetched to its last byte and did not change on its host is
\* not failed as changed, where the host states its length.  (Without one the
\* next attempt asks for the bytes behind the last and takes the 416 for a
\* changed file.)
FetchedIsNotRefused ==
    verdict = "remote_changed" /\ probe.sized => ~(Fetched /\ remote = etag)

Contract == INSTANCE Download WITH
    confirmed <- IF taken THEN <<>>
                 ELSE [i \in Confirmed |-> IF part = Absent THEN final[i] ELSE part[i]],
    done      <- row = "completed",
    deleted   <- taken,
    dropping  <- discarding

\* The transfer implements the contract of a download: through stops, crashes,
\* power failures, hosts that change the file and resumes in any order, the
\* confirmed blocks only grow, keep their content, and make up one version of
\* the file when the row is completed.
ImplementsDownload == Contract!Spec

\* A crash or a power failure costs time and no data: the transfer completes.
CrashesOnlyCostTime == <>(row = "completed")
=============================================================================

------------------------ MODULE TransferPayloadProofs ------------------------
(***************************************************************************)
(* What TLAPS proves of Transfer where a host that states no length does    *)
(* not change the file (a part file without one is never cut, and keeps the *)
(* tail of a longer version): what is confirmed is on the disk, the         *)
(* finished file is one version of the remote one, and the transfer         *)
(* implements the contract of a download.                                   *)
(***************************************************************************)
EXTENDS TransferProofs

\* A file that is one version of the remote file, confirmed to its last block.
Payload(file) ==
    \E v \in Version :
        /\ file = Fill(v)
        /\ Confirmed = 1 .. Length[v]
        /\ probe.sized => Length[v] = Length[etag]

\* What was fetched comes from one version.
SourceInv ==
    /\ ~probe.sized => remote = 1
    /\ ~probe.sized /\ part # Absent => Len(part) <= Length[1]
    /\ ~taken /\ part # Absent =>
          \A i \in Confirmed :
             /\ i \in DOMAIN part
             /\ etag <= part[i] /\ part[i] <= remote
             /\ \A j \in Confirmed : part[j] = part[i]
             /\ at \in {"place", "open", "fetch"} =>
                   part[i] = etag \/ (at = "fetch" /\ Len(chunks) = 1 /\ part[i] = body[1])
             /\ \A c \in Workers : body[c] # 0 => part[i] = body[c]

\* And it is in one place.
PlaceInv ==
    /\ ~taken /\ part = Absent /\ HasCommitted =>
          at \notin {"open", "giving_up"} /\ Payload(final)
    /\ ~taken /\ at \in {"verify", "promote"} => Payload(part)
    /\ ~taken /\ (row = "completed" \/ at = "complete" \/ promoted > 0) =>
          part = Absent /\ HasCommitted

Payloads == Inv /\ SourceInv /\ PlaceInv

-----------------------------------------------------------------------------
(* What was fetched comes from one version.                                *)

\* Whether the host states a length is settled, and it changes the file only
\* where it does.
LEMMA HostFacts ==
    ASSUME FALSE \notin Changing, TypeOK, [Next]_vars
    PROVE  /\ probe'.sized = probe.sized
           /\ remote \in Version /\ remote' \in Nat /\ remote <= remote'
           /\ remote' # remote => RemoteMoves /\ probe.sized
<1>1. CASE PlanTransfer
  <2>1. PICK ranges \in Ranges : probe' = [probe EXCEPT !.version = remote, !.ranges = ranges]
    BY <1>1 DEF PlanTransfer
  <2>2. probe \in [version : Version, ranges : BOOLEAN, sized : BOOLEAN] /\ remote \in Version
    BY DEF TypeOK
  <2>3. probe'.sized = probe.sized
    BY <2>1, <2>2
  <2>4. remote' = remote
    BY <1>1 DEF PlanTransfer
  <2> QED
    BY <2>2, <2>3, <2>4, Versions
<1>2. CASE UNCHANGED <<remote, probe>>
  BY <1>2, Versions DEF TypeOK
<1>3. CASE RemoteMoves
  <2>1. probe.sized \in Changing /\ remote' = remote + 1 /\ UNCHANGED probe
    BY <1>3 DEF RemoteMoves
  <2>2. probe.sized
    BY <2>1, TypeFacts
  <2> QED
    BY <1>3, <2>1, <2>2, Versions DEF TypeOK
<1>4. CASE \E c \in DOMAIN chunks : Checkpoint(c)
  BY <1>2, <1>4 DEF Checkpoint
<1>5. CASE ResetRow
  BY <1>2, <1>5 DEF ResetRow
<1> QED
  BY <1>1, <1>2, <1>3, <1>4, <1>5, PlanMoves

\* A step that leaves something confirmed keeps the plan, or records an offset.
LEMMA PlanKept ==
    ASSUME Inv, [Next]_vars
    PROVE  \/ UNCHANGED <<chunks, etag>> /\ (taken => taken')
           \/ \E c \in DOMAIN chunks : Checkpoint(c) /\ UNCHANGED <<etag, taken>>
           \/ PlanTransfer /\ ~HasCommitted /\ ~HasCommitted' /\ Confirmed' = {}
           \/ ResetRow /\ ~HasCommitted' /\ Confirmed' = {}
<1> USE DEF storeVars, fileVars, workerVars, boundVars, historyVars
<1>1. CASE ResetRow
  <2>1. DOMAIN chunks' = {}
    BY <1>1 DEF ResetRow
  <2> QED
    BY <1>1, <2>1 DEF HasCommitted, Confirmed
<1>2. CASE PlanTransfer
  <2>1. CASE UNCHANGED <<chunks, etag>>
    BY <1>2, <2>1 DEF PlanTransfer
  <2>2. CASE ~UNCHANGED <<chunks, etag>>
    <3>1. /\ ~HasCommitted /\ etag' = remote /\ UNCHANGED remote
          /\ \E ranges \in Ranges, budget \in Workers :
                /\ chunks' = plan_chunks(Length[remote], ranges, budget)
                /\ probe' = [probe EXCEPT !.version = remote, !.ranges = ranges]
      BY <1>2, <2>2 DEF PlanTransfer
    <3>2. \A c \in DOMAIN chunks' : chunks'[c].committed = chunks'[c].start
      BY <3>1, Planned
    <3>3. \A c \in DOMAIN chunks' : chunks'[c].start \in Nat
      <4>1. \A c \in DOMAIN chunks' : chunks'[c] \in ChunkSpec
        BY TypeStep DEF TypeOK
      <4> QED
        BY <4>1, Lengths DEF ChunkSpec
    <3>4. \A c \in DOMAIN chunks' : chunks'[c].start + 1 .. chunks'[c].committed = {}
      BY <3>2, <3>3
    <3>5. Confirmed' = {}
      BY <3>4 DEF Confirmed
    <3>6. ~HasCommitted'
      BY <3>2, <3>3 DEF HasCommitted
    <3> QED
      BY <1>2, <3>1, <3>5, <3>6
  <2> QED
    BY <2>1, <2>2
<1>3. CASE \E c \in DOMAIN chunks : Checkpoint(c)
  BY <1>3 DEF Checkpoint
<1>4. CASE UNCHANGED <<chunks, etag>>
  <2>1. taken /\ ~taken' => ResetRow
    <3>1. CASE Attempt
      <4>1. ASSUME NEW c \in DOMAIN chunks, Worker(c) PROVE UNCHANGED taken
        BY <4>1 DEF Worker, Respond, WriteBytes, SyncPart, Checkpoint, BodyEnds, WindDown
      <4>2. taken \in BOOLEAN
        BY DEF Inv, TypeOK
      <4>3. CASE PrepareDestination \/ SettleName
        <5>1. CASE PrepareDestination
          BY <4>2, <5>1 DEF PrepareDestination, Collision, RemovePart
        <5>2. CASE SettleName
          BY <4>2, <5>2 DEF SettleName, Collision, RemovePart
        <5> QED
          BY <4>3, <5>1, <5>2
      <4> QED
        BY <3>1, <4>1, <4>2, <4>3
           DEF Attempt, Begin, PlanTransfer, Adopt, OpenPart, SettleComplete, SettleStopped,
               DiscardPartial, RemovePart, GiveUpRecorded, Promote, CompleteDownload
    <3>2. CASE Between
      BY <3>2 DEF Between, Pause, Break, PromoteFails, Crash, PowerLoss, Restart, RemoteMoves,
                  Resume, DiscardUnfinished, ResetRow, DiscardEnds
    <3>3. CASE UNCHANGED vars
      BY <3>3 DEF vars
    <3> QED
      BY <3>1, <3>2, <3>3 DEF Next
  <2> QED
    BY <1>1, <1>4, <2>1
<1>5. CASE RemoteMoves
  BY <1>5 DEF RemoteMoves
<1> QED
  BY <1>1, <1>2, <1>3, <1>4, <1>5, PlanMoves

\* Where something is confirmed, an answer that is taken is the recorded version.
LEMMA AnswerFacts ==
    ASSUME Inv, NEW c \in DOMAIN chunks, Respond(c), Confirmed # {}
    PROVE  /\ c \in Workers /\ wpc[c] = "asking" /\ body[c] = 0
           /\ body'[c] \in {0, etag}
           /\ body'[c] # 0 => remote = etag
<1>1. wpc[c] = "asking"
  BY DEF Respond
<1>2. /\ c \in Workers /\ etag = probe.version /\ etag \in Version /\ at = "fetch"
      /\ body[c] = 0
      /\ ~probe.ranges => chunks[c].committed = chunks[c].start
      /\ ~probe.ranges => Len(chunks) = 1
  BY <1>1, AtWork, Versions DEF Inv, WorkerInv, OneWorker, AttemptInv
<1>3. body \in [Workers -> Version \cup {0}]
  BY DEF Inv, TypeOK
<1>4. CASE UNCHANGED body
  BY <1>1, <1>2, <1>4
<1>5. CASE body' = [body EXCEPT ![c] = remote] /\ remote = probe.version
  BY <1>1, <1>2, <1>3, <1>5
<1>6. CASE Len(chunks) = 1 /\ chunks[c].committed = chunks[c].start
  <2>1. \A d \in DOMAIN chunks : d = c
    BY <1>6, TypeFacts DEF Inv
  <2>2. Confirmed = {}
    BY <1>6, <2>1, NothingConfirmed DEF Inv
  <2> QED
    BY <2>2
<1> QED
  BY <1>2, <1>4, <1>5, <1>6 DEF Respond, StartBody

\* The steps that start a body, or move the attempt towards one.
LEMMA BodyMoves ==
    ASSUME Inv, [Next]_vars
    PROVE  /\ \/ \E c \in DOMAIN chunks : Respond(c) /\ \A d \in Workers : d # c => body'[d] = body[d]
              \/ \A d \in Workers : body'[d] \in {0, body[d]}
           /\ at' = "place" => at = "place" \/ (PlanTransfer /\ (HasCommitted => etag = remote))
           /\ at' = "open" => at \in {"place", "open"}
           /\ at' = "fetch" => \/ at = "open"
                               \/ at = "fetch" /\ UNCHANGED body
                               \/ at = "fetch" /\ \E c \in DOMAIN chunks : Respond(c)
<1> USE DEF storeVars, fileVars, workerVars, boundVars, historyVars
<1>0. body \in [Workers -> Version \cup {0}]
  BY DEF Inv, TypeOK
<1>1. CASE Attempt
  <2>1. ASSUME NEW c \in DOMAIN chunks, Worker(c), ~Respond(c)
        PROVE  UNCHANGED <<body, at>>
    BY <2>1 DEF Worker, Checkpoint, WriteBytes, SyncPart, BodyEnds, WindDown
  <2>2. ASSUME NEW c \in DOMAIN chunks, Respond(c)
        PROVE  /\ UNCHANGED at /\ at = "fetch"
               /\ \A d \in Workers : d # c => body'[d] = body[d]
    <3>1. UNCHANGED at /\ wpc[c] = "asking"
      BY <2>2 DEF Respond
    <3>2. at = "fetch"
      BY <3>1, AtWork
    <3>3. \A d \in Workers : d # c => body'[d] = body[d]
      BY <1>0, <2>2 DEF Respond, StartBody
    <3> QED
      BY <3>1, <3>2, <3>3
  <2>3. CASE PrepareDestination
    <3>1. UNCHANGED body /\ at = "place" /\ at' \in {"open", "idle", "giving_up"}
      BY <2>3 DEF PrepareDestination, Collision
    <3> QED
      BY <3>1
  <2>4. CASE SettleName
    <3>1. UNCHANGED body /\ at = "verify" /\ at' \in {"promote", "complete", "idle", "giving_up"}
      BY <2>4 DEF SettleName, Collision
    <3> QED
      BY <3>1
  <2>5. CASE PlanTransfer
    <3>1. at = "probe" /\ at' \in {"idle", "place"}
      BY <2>5 DEF PlanTransfer, EndAttempt
    <3>2. \A d \in Workers : body'[d] \in {0, body[d]}
      BY <2>5 DEF PlanTransfer, EndAttempt, NoWorkers
    <3>3. at' = "place" /\ HasCommitted => etag = remote
      BY <2>5 DEF PlanTransfer, EndAttempt
    <3> QED
      BY <2>5, <3>1, <3>2, <3>3
  <2>6. CASE SettleComplete \/ SettleStopped \/ DiscardPartial \/ GiveUpRecorded
             \/ CompleteDownload
    <3>1. at' \in {"idle", "verify", "giving_up"}
      BY <2>6 DEF SettleComplete, SettleStopped, DiscardPartial, GiveUpRecorded,
                  CompleteDownload, EndAttempt
    <3>2. \A d \in Workers : body'[d] \in {0, body[d]}
      BY <2>6 DEF SettleComplete, SettleStopped, DiscardPartial, GiveUpRecorded,
                  CompleteDownload, EndAttempt, NoWorkers
    <3> QED
      BY <3>1, <3>2
  <2>7. CASE Begin \/ Adopt \/ OpenPart \/ Promote
    <3>1. UNCHANGED body /\ at' \in {"probe", "complete", "fetch"} /\ (at' = "fetch" => at = "open")
      BY <2>7 DEF Begin, Adopt, OpenPart, Promote
    <3> QED
      BY <3>1
  <2> QED
    BY <1>1, <2>1, <2>2, <2>3, <2>4, <2>5, <2>6, <2>7 DEF Attempt
<1>2. CASE Crash \/ PowerLoss \/ PromoteFails
  <2>1. at' = "idle" /\ \A d \in Workers : body'[d] \in {0, body[d]}
    BY <1>2 DEF Crash, PowerLoss, PromoteFails, Restart, EndAttempt, NoWorkers
  <2> QED
    BY <2>1
<1>3. CASE UNCHANGED <<at, body>>
  BY <1>3
<1>4. CASE Between
  BY <1>2, <1>3, <1>4 DEF Between, Pause, Break, RemoteMoves, Resume, DiscardUnfinished,
                          ResetRow, DiscardEnds
<1> QED
  BY <1>1, <1>3, <1>4 DEF Next, vars

LEMMA SourceStep ==
    ASSUME FALSE \notin Changing, Payloads, [Next]_vars
    PROVE  SourceInv'
<1>0. Inv /\ TypeOK /\ SourceInv /\ PlaceInv /\ PlanInv /\ FileInv /\ AttemptInv /\ WorkerInv
  BY DEF Payloads, Inv
<1>a. TypeOK' /\ AttemptInv' /\ PlanInv'
  BY <1>0, TypeStep, AttemptStep, PlanStep
<1>b. /\ probe'.sized = probe.sized
      /\ remote \in Nat /\ remote' \in Nat /\ remote <= remote'
      /\ remote' # remote => probe.sized
  BY <1>0, HostFacts, Versions
<1>1. ~probe'.sized => remote' = 1
  BY <1>0, <1>b DEF SourceInv
<1>2. ASSUME ~probe.sized, part' # Absent
      PROVE  Len(part') <= Length[1]
  <2>0. Length[1] \in Nat /\ 1 <= Length[1] /\ remote = 1
    BY <1>0, <1>2, Lengths DEF SourceInv
  <2>1. CASE UNCHANGED part
    BY <1>0, <1>2, <2>1 DEF SourceInv
  <2>2. CASE OpenPart
    <3>1. part' = Opened(part)
      BY <2>2 DEF OpenPart
    <3>2. Len(part') = Len(IF part = Absent THEN <<>> ELSE part)
      BY <1>0, <1>2, <3>1, OpenedFacts DEF TypeOK
    <3>3. CASE part = Absent
      BY <2>0, <3>2, <3>3, EmptyContent
    <3>4. CASE part # Absent
      BY <1>0, <1>2, <3>2, <3>4 DEF SourceInv
    <3> QED
      BY <3>3, <3>4
  <2>3. ASSUME NEW c \in DOMAIN chunks, WriteBytes(c), part' # part
        PROVE  Len(part') <= Length[1]
    <3>1. /\ part' = WriteAt(part, pos[c], body[c]) /\ c \in Workers /\ wpc[c] = "body"
          /\ pos[c] \in Nat /\ pos[c] < Longest /\ body[c] \in Version /\ part \in Content
          /\ pos[c] < BodyEnd(c)
      BY <1>0, <2>3, WriteFacts
    <3>2. BodyEnd(c) \in Nat /\ BodyEnd(c) <= Length[body[c]] /\ Length[body[c]] \in Nat
      BY <1>0, <3>1, BodyFacts
    <3>3. body[c] = 1
      <4>1. body[c] <= remote
        BY <1>0, <3>1, Versions DEF WorkerInv, OneWorker
      <4> QED
        BY <2>0, <3>1, <4>1, Versions
    <3>4. Len(part') = IF pos[c] < Len(part) THEN Len(part) ELSE pos[c] + 1
      BY <3>1, WriteAtFacts
    <3>5. Len(part) <= Length[1] /\ Len(part) \in Nat
      BY <1>0, <1>2, <3>1, Contents DEF SourceInv
    <3> QED
      BY <2>0, <3>1, <3>2, <3>3, <3>4, <3>5
  <2>4. CASE PowerLoss
    <3>1. CASE part = Absent
      BY <2>1, <2>4, <3>1 DEF PowerLoss
    <3>2. CASE part # Absent
      <4>1. Len(part') = Len(part)
        BY <1>0, <2>4, <3>2, PowerFacts
      <4> QED
        BY <1>0, <1>2, <3>2, <4>1 DEF SourceInv
    <3> QED
      BY <3>1, <3>2
  <2> QED
    BY <1>2, <2>1, <2>2, <2>3, <2>4, PartMoves
<1>3. ASSUME ~taken', part' # Absent, Confirmed' # {}
      PROVE  /\ ~taken /\ part # Absent /\ UNCHANGED etag
             /\ UNCHANGED chunks \/ \E c \in DOMAIN chunks : Checkpoint(c)
  <2>1. /\ UNCHANGED etag
        /\ UNCHANGED chunks \/ \E c \in DOMAIN chunks : Checkpoint(c)
        /\ ~taken
    BY <1>0, <1>3, PlanKept
  <2>2. part # Absent
    <3> SUFFICES ASSUME part = Absent PROVE FALSE
      OBVIOUS
    <3>1. at \notin {"fetch"}
      BY <1>0 DEF FileInv
    <3>2. ~ \E c \in DOMAIN chunks : Checkpoint(c)
      BY <1>0, <3>1, AtWork DEF Checkpoint
    <3>3. ~ \E c \in DOMAIN chunks : WriteBytes(c)
      BY <1>0, <3>1, AtWork DEF WriteBytes
    <3>4. OpenPart
      BY <1>3, <3>3, PartMoves DEF PowerLoss
    <3>5. at = "open" /\ Confirmed' = Confirmed
      BY <2>1, <3>2, <3>4 DEF OpenPart, Confirmed
    <3>6. HasCommitted
      BY <1>0, <1>3, <3>5, Committed
    <3> QED
      BY <1>0, <2>1, <3>5, <3>6 DEF PlaceInv
  <2> QED
    BY <2>1, <2>2
<1> DEFINE Claim(i) ==
      /\ i \in DOMAIN part'
      /\ etag' <= part'[i] /\ part'[i] <= remote'
      /\ \A j \in Confirmed' : part'[j] = part'[i]
      /\ at' \in {"place", "open", "fetch"} =>
            part'[i] = etag' \/ (at' = "fetch" /\ Len(chunks') = 1 /\ part'[i] = body'[1])
      /\ \A c \in Workers : body'[c] # 0 => part'[i] = body'[c]
<1>4. ASSUME ~taken', part' # Absent, NEW i \in Confirmed', UNCHANGED chunks
      PROVE  Claim(i)
  <2>1. ~taken /\ part # Absent /\ UNCHANGED etag
    BY <1>3, <1>4
  <2>2. Confirmed' = Confirmed
    BY <1>4 DEF Confirmed
  <2>3. \A j \in Confirmed :
           /\ j \in DOMAIN part
           /\ etag <= part[j] /\ part[j] <= remote
           /\ \A k \in Confirmed : part[k] = part[j]
           /\ at \in {"place", "open", "fetch"} =>
                 part[j] = etag \/ (at = "fetch" /\ Len(chunks) = 1 /\ part[j] = body[1])
           /\ \A c \in Workers : body[c] # 0 => part[j] = body[c]
    BY <1>0, <2>1 DEF SourceInv
  <2>4. \A j \in Confirmed : j \in DOMAIN part' /\ part'[j] = part[j]
    BY <1>0, <1>4, <2>1, <2>3, BytesStay
  <2>5. part[i] \in Nat /\ etag \in Nat /\ i \in Confirmed
    BY <1>0, <1>4, <2>1, <2>2, <2>3, FileFacts, TypeFacts
  <2>6. i \in DOMAIN part' /\ etag' <= part'[i] /\ part'[i] <= remote'
    BY <1>b, <2>1, <2>3, <2>4, <2>5
  <2>7. \A j \in Confirmed' : part'[j] = part'[i]
    BY <2>2, <2>3, <2>4, <2>5
  <2>8. HasCommitted
    BY <1>0, <2>5, Committed
  <2>9. etag # 0
    BY <1>0, <2>5, ConfirmedFact DEF PlanInv
  <2>10. ASSUME NEW c \in DOMAIN chunks, Respond(c)
         PROVE  /\ c \in Workers /\ at = "fetch" /\ part[i] = etag
                /\ body'[c] \in {0, etag}
    <3>1. c \in Workers /\ wpc[c] = "asking" /\ body[c] = 0 /\ body'[c] \in {0, etag}
      BY <1>0, <2>5, <2>10, AnswerFacts
    <3>2. at = "fetch"
      BY <1>0, <3>1, AtWork
    <3>3. Len(chunks) = 1 => c = 1
      BY <1>0, TypeFacts
    <3>4. part[i] # 0
      BY <2>3, <2>5, <2>9
    <3> QED
      BY <2>3, <2>5, <3>1, <3>2, <3>3, <3>4
  <2>11. \A c \in Workers : body'[c] # 0 => part'[i] = body'[c]
    <3>1. CASE \A c \in Workers : body'[c] \in {0, body[c]}
      BY <2>3, <2>4, <2>5, <3>1
    <3>2. ASSUME NEW c \in DOMAIN chunks, Respond(c),
                 \A d \in Workers : d # c => body'[d] = body[d]
          PROVE  \A d \in Workers : body'[d] # 0 => part'[i] = body'[d]
      BY <2>3, <2>4, <2>5, <2>10, <3>2
    <3> QED
      BY <1>0, <3>1, <3>2, BodyMoves
  <2>12. ASSUME at' \in {"place", "open", "fetch"}
         PROVE  part'[i] = etag' \/ (at' = "fetch" /\ Len(chunks') = 1 /\ part'[i] = body'[1])
    <3>1. CASE at' = "place"
      <4>1. CASE at = "place"
        BY <2>1, <2>3, <2>4, <2>5, <4>1
      <4>2. CASE PlanTransfer /\ etag = remote
        BY <1>b, <2>1, <2>3, <2>4, <2>5, <4>2
      <4> QED
        BY <1>0, <2>8, <3>1, <4>1, <4>2, BodyMoves
    <3>2. CASE at' = "open"
      BY <1>0, <2>1, <2>3, <2>4, <2>5, <3>2, BodyMoves
    <3>3. CASE at' = "fetch"
      <4>1. CASE at = "open"
        BY <2>1, <2>3, <2>4, <2>5, <4>1
      <4>2. CASE at = "fetch" /\ UNCHANGED body
        BY <1>4, <2>1, <2>3, <2>4, <2>5, <3>3, <4>2
      <4>3. CASE \E c \in DOMAIN chunks : Respond(c)
        BY <2>1, <2>4, <2>5, <2>10, <4>3
      <4> QED
        BY <1>0, <3>3, <4>1, <4>2, <4>3, BodyMoves
    <3> QED
      BY <2>12, <3>1, <3>2, <3>3
  <2> QED
    BY <2>6, <2>7, <2>11, <2>12
<1>5. ASSUME ~taken', part' # Absent, NEW i \in Confirmed',
             NEW c \in DOMAIN chunks, Checkpoint(c)
      PROVE  Claim(i)
  <2>1. ~taken /\ part # Absent /\ UNCHANGED etag
    BY <1>3, <1>5
  <2>2. /\ Confirmed' = Confirmed \cup (chunks[c].committed + 1 .. pos[c])
        /\ c \in Workers /\ wpc[c] = "synced"
        /\ UNCHANGED <<etag, part, remote, at, body>>
    BY <1>0, <1>5, NewlyConfirmed DEF fileVars
  <2>3. at = "fetch" /\ body[c] \in Version /\ Len(chunks') = Len(chunks)
    BY <1>0, <1>5, <2>2, AtWork, BodyFacts, CheckpointFacts
  <2>4. \A j \in Confirmed' : j \in DOMAIN part /\ part[j] = body[c]
    <3>1. \A j \in Confirmed : j \in DOMAIN part /\ part[j] = body[c]
      BY <1>0, <2>1, <2>2, <2>3, Versions DEF SourceInv
    <3>2. \A j \in chunks[c].committed + 1 .. pos[c] : j \in DOMAIN part /\ part[j] = body[c]
      BY <1>0, <2>2 DEF FileInv
    <3> QED
      BY <2>2, <3>1, <3>2
  <2>5. /\ body[c] <= remote /\ body[c] \in Nat /\ etag \in Nat
        /\ body[c] = etag \/ (body[c] > etag /\ Len(chunks) = 1)
    BY <1>0, <2>2, <2>3, Versions, TypeFacts DEF WorkerInv, OneWorker
  <2>6. Len(chunks) = 1 => c = 1
    BY <1>0, TypeFacts
  <2>7. ASSUME NEW d \in Workers, body[d] # 0, d # c
        PROVE  body[d] = body[c]
    <3>1. d \in DOMAIN chunks /\ (body[d] = etag \/ Len(chunks) = 1)
      BY <1>0, <2>7 DEF WorkerInv, OneWorker
    <3>2. Len(chunks) # 1
      BY <1>0, <2>7, <3>1, TypeFacts
    <3> QED
      BY <2>5, <3>1, <3>2
  <2> QED
    BY <1>5, <2>2, <2>3, <2>4, <2>5, <2>6, <2>7
<1>6. ASSUME ~taken', part' # Absent, NEW i \in Confirmed'
      PROVE  Claim(i)
  BY <1>3, <1>4, <1>5, <1>6
<1> QED
  BY <1>1, <1>2, <1>6, <1>b DEF SourceInv

-----------------------------------------------------------------------------
(* And it is in one place.                                                 *)

LEMMA FillFacts ==
    ASSUME NEW v \in Version
    PROVE  /\ Fill(v) \in Content /\ Fill(v) # Absent
           /\ Len(Fill(v)) = Length[v] /\ DOMAIN Fill(v) = 1 .. Length[v]
           /\ \A i \in 1 .. Length[v] : Fill(v)[i] = v
           /\ 1 .. Length[v] # {}
  <1>1. Length[v] \in Nat /\ 1 <= Length[v] /\ Length[v] <= Longest
    BY Lengths
  <1>2. Fill(v) \in [1 .. Length[v] -> Version \cup {Hole}]
    BY DEF Fill
  <1>3. Fill(v) \in Content /\ Len(Fill(v)) = Length[v]
    BY <1>1, <1>2, ContentOf
  <1>4. Fill(v) # Absent
    BY <1>3, Contents
  <1>5. 1 \in 1 .. Length[v]
    BY <1>1
  <1> QED
    BY <1>2, <1>3, <1>4, <1>5 DEF Fill

LEMMA PayloadFacts ==
    ASSUME Inv, NEW file, Payload(file)
    PROVE  file # Absent /\ HasCommitted
  <1>1. PICK v \in Version : file = Fill(v) /\ Confirmed = 1 .. Length[v]
    BY DEF Payload
  <1>2. file # Absent /\ Confirmed # {}
    BY <1>1, FillFacts
  <1> QED
    BY <1>2, Committed DEF Inv

\* The next attempt finds a payload that is in place, whether the host states a
\* length or not.
LEMMA PayloadIsAdoptable ==
    ASSUME Inv, at = "place", part = Absent, Payload(final)
    PROVE  Adoptable
  <1>1. PICK v \in Version :
           /\ final = Fill(v) /\ Confirmed = 1 .. Length[v]
           /\ probe.sized => Length[v] = Length[etag]
    BY DEF Payload
  <1>2. Length[v] \in Nat /\ 1 <= Length[v]
    BY Lengths
  <1>3. Cardinality(1 .. Length[v]) = Length[v]
    BY <1>2, FS_Interval
  <1>4. committed_bytes = Length[v]
    BY <1>1, <1>3 DEF committed_bytes
  <1>5. final # Absent /\ Len(final) = Length[v]
    BY <1>1, FillFacts
  <1>6. etag = probe.version
    BY DEF Inv, AttemptInv
  <1> QED
    BY <1>1, <1>2, <1>4, <1>5, <1>6 DEF Adoptable, is_finished_payload

\* Where every chunk is done the part file is a payload.
LEMMA DoneIsPayload ==
    ASSUME Inv, SourceInv, ~taken, at = "fetch", AllDone
    PROVE  Payload(part)
<1>0. TypeOK /\ PlanInv /\ AttemptInv /\ WorkerInv /\ FileInv
  BY DEF Inv
<1>1. /\ part # Absent /\ part \in Content /\ Len(part) \in Nat /\ DOMAIN part = 1 .. Len(part)
      /\ etag \in Version /\ etag # 0 /\ chunks # <<>>
      /\ Len(chunks) \in Nat /\ DOMAIN chunks = 1 .. Len(chunks)
  BY <1>0, FileFacts, TypeFacts DEF FileInv, AttemptInv, PlanInv
<1>2. \A c \in DOMAIN chunks :
         /\ c \in Workers /\ wpc[c] = "done"
         /\ chunks[c].start \in Nat /\ chunks[c].end \in Nat /\ chunks[c].committed \in Nat
  BY <1>0, TypeFacts DEF AllDone
<1>3. \A i \in Confirmed :
         /\ i \in DOMAIN part
         /\ etag <= part[i] /\ part[i] <= remote
         /\ \A j \in Confirmed : part[j] = part[i]
         /\ part[i] = etag \/ (Len(chunks) = 1 /\ part[i] = body[1])
  BY <1>1 DEF SourceInv
<1>4. CASE probe.sized
  <2>0. Length[etag] \in Nat /\ 1 <= Length[etag] /\ Length[etag] <= Longest
        /\ NoEnd = Longest + 1 /\ Longest \in Nat
    BY <1>1, Lengths
  <2>1. \A c \in DOMAIN chunks : chunks[c].committed = chunks[c].end
    <3> SUFFICES ASSUME NEW c \in DOMAIN chunks PROVE chunks[c].committed = chunks[c].end
      OBVIOUS
    <3>1. chunks[c].committed <= chunks[c].end /\ chunks[c].end <= Length[etag]
      BY <1>0, <1>4 DEF PlanInv
    <3>2. chunks[c].end # NoEnd
      BY <1>2, <2>0, <3>1
    <3>3. CASE body[c] = 0
      <4>1. is_complete(chunks[c])
        BY <1>0, <1>2, <3>3 DEF WorkerInv, OneWorker
      <4> QED
        BY <1>2, <3>1, <4>1 DEF is_complete
    <3>4. CASE body[c] # 0
      BY <1>0, <1>2, <3>2, <3>4 DEF WorkerInv, OneWorker
    <3> QED
      BY <3>3, <3>4
  <2>2. Confirmed = 1 .. Length[etag]
    <3>1. \A i \in Confirmed : i \in 1 .. Length[etag]
      BY <1>4, ConfirmedWithin
    <3>2. \A i \in 1 .. Length[etag] : i \in Confirmed
      <4>1. \A i \in 1 .. Length[etag] : \E c \in DOMAIN chunks :
               i \in chunks[c].start + 1 .. chunks[c].end
        BY <1>0, <1>1, <1>4 DEF PlanInv
      <4> QED
        BY <2>1, <4>1, ConfirmedFact
    <3> QED
      BY <3>1, <3>2
  <2> DEFINE v == part[1]
  <2>3. 1 \in Confirmed
    BY <2>0, <2>2
  <2>4. v \in Nat /\ v # 0 /\ v \in Version
    <3>1. v \in Nat /\ 1 \in DOMAIN part
      BY <1>0, <1>1, <1>3, <2>3, FileFacts
    <3>2. v \in Version \cup {Hole}
      BY <1>1, <3>1, Contents
    <3>3. v # 0
      BY <1>1, <1>3, <2>3, <3>1, Versions
    <3> QED
      BY <3>1, <3>2, <3>3 DEF Hole
  <2>5. Length[v] = Length[etag]
    <3>1. CASE v = etag
      BY <3>1
    <3>2. CASE Len(chunks) = 1 /\ v = body[1]
      <4>1. 1 \in DOMAIN chunks
        BY <1>1, <3>2
      <4>2. chunks[1].committed = Length[body[1]]
        BY <1>0, <1>2, <2>4, <3>2, <4>1 DEF WorkerInv, OneWorker
      <4>3. chunks[1].end = Length[etag]
        BY <1>1, <1>4, <3>2, OnlyChunk
      <4> QED
        BY <2>1, <3>2, <4>1, <4>2, <4>3
    <3> QED
      BY <1>3, <2>3, <3>1, <3>2
  <2>6. Len(part) = Length[etag]
    BY <1>0, <1>4 DEF FileInv
  <2>7. \A i \in 1 .. Length[etag] : part[i] = v
    BY <1>3, <2>2, <2>3
  <2>8. part = Fill(v)
    <3>1. part \in Seq(Version \cup {Hole})
      BY <1>1, Contents
    <3>2. part = [i \in 1 .. Len(part) |-> part[i]]
      BY <3>1
    <3> HIDE DEF v
    <3>3. [i \in 1 .. Len(part) |-> part[i]] = [i \in 1 .. Length[v] |-> v]
      BY <2>5, <2>6, <2>7
    <3> QED
      BY <3>2, <3>3 DEF Fill
  <2> HIDE DEF v
  <2> QED
    BY <2>2, <2>4, <2>5, <2>8 DEF Payload
<1>5. CASE ~probe.sized
  <2>0. /\ Length[1] \in Nat /\ 1 <= Length[1] /\ 1 \in Version /\ remote = 1
        /\ Len(part) <= Length[1]
    BY <1>1, <1>5, Lengths DEF SourceInv
  <2>1. Len(chunks) = 1 /\ 1 \in DOMAIN chunks /\ \A c \in DOMAIN chunks : c = 1
    <3>1. Len(chunks) <= 1 /\ Len(chunks) # 0
      BY <1>0, <1>1, <1>5, TypeFacts DEF PlanInv, TypeOK
    <3>2. \A n \in Nat : n <= 1 /\ n # 0 => n = 1
      OBVIOUS
    <3>3. Len(chunks) = 1
      BY <1>1, <3>1, <3>2
    <3> QED
      BY <1>1, <3>3
  <2>2. chunks[1].start = 0 /\ chunks[1].end = NoEnd
    BY <1>0, <1>5, <2>1 DEF PlanInv
  <2>3. body[1] # 0
    <3> SUFFICES ASSUME body[1] = 0 PROVE FALSE
      OBVIOUS
    <3>1. is_complete(chunks[1])
      BY <1>0, <1>2, <2>1 DEF WorkerInv, OneWorker
    <3> QED
      BY <2>2, <3>1 DEF is_complete
  <2>4. chunks[1].committed = Length[body[1]] /\ body[1] <= remote
    BY <1>0, <1>2, <2>1, <2>3 DEF WorkerInv, OneWorker
  <2>5. body[1] = 1
    BY <1>0, <1>2, <2>0, <2>1, <2>3, <2>4, TypeFacts
  <2>6. Confirmed = 1 .. Length[1]
    <3>1. \A i : i \in Confirmed <=> i \in 0 + 1 .. Length[1]
      BY <2>1, <2>2, <2>4, <2>5, ConfirmedFact
    <3>2. \A i : i \in Confirmed <=> i \in 1 .. Length[1]
      BY <2>0, <3>1
    <3> QED
      BY <3>2
  <2>7. Len(part) = Length[1]
    <3>1. Length[1] \in DOMAIN part
      BY <1>3, <2>0, <2>6
    <3> QED
      BY <1>1, <2>0, <3>1
  <2>8. \A i \in 1 .. Length[1] : part[i] = 1
    <3> SUFFICES ASSUME NEW i \in 1 .. Length[1] PROVE part[i] = 1
      OBVIOUS
    <3>1. etag <= part[i] /\ part[i] <= 1 /\ i \in DOMAIN part
      BY <1>3, <2>0, <2>6
    <3>2. part[i] \in Nat /\ etag \in Nat /\ 1 <= etag
      BY <1>0, <1>1, <3>1, FileFacts, Versions
    <3> QED
      BY <3>1, <3>2
  <2>9. part = Fill(1)
    <3>1. part \in Seq(Version \cup {Hole})
      BY <1>1, Contents
    <3>2. part = [i \in 1 .. Len(part) |-> part[i]]
      BY <3>1
    <3>3. [i \in 1 .. Len(part) |-> part[i]] = [i \in 1 .. Length[1] |-> 1]
      BY <2>7, <2>8
    <3> QED
      BY <3>2, <3>3 DEF Fill
  <2> QED
    BY <1>5, <2>0, <2>6, <2>9 DEF Payload
<1> QED
  BY <1>0, <1>4, <1>5, TypeFacts

\* A step that leaves the plan and the payload alone, and the part file where it is.
LEMMA PlaceKept ==
    ASSUME FALSE \notin Changing, Payloads, [Next]_vars,
           UNCHANGED <<chunks, etag, final, taken, promoted>>,
           \/ UNCHANGED part
           \/ part # Absent /\ part' # Absent /\ at' \notin {"verify", "promote"},
           part = Absent => at' \notin {"open", "giving_up"} \/ at' = at,
           at' \in {"verify", "promote"} => at \in {"verify", "promote"},
           row' = "completed" \/ at' = "complete" => row = "completed" \/ at = "complete"
    PROVE  PlaceInv'
  <1>1. TypeOK /\ PlaceInv
    BY DEF Payloads, Inv
  <1>2. /\ probe'.sized = probe.sized
        /\ Confirmed' = Confirmed
        /\ HasCommitted' <=> HasCommitted
    BY <1>1, HostFacts DEF Confirmed, HasCommitted
  <1>3. /\ Payload(final) => Payload(final)'
        /\ UNCHANGED part /\ Payload(part) => Payload(part)'
    BY <1>2 DEF Payload
  <1>4. part' = Absent <=> part = Absent
    OBVIOUS
  <1>5. ~taken' /\ part' = Absent /\ HasCommitted' =>
           at' \notin {"open", "giving_up"} /\ Payload(final)'
    BY <1>1, <1>2, <1>3, <1>4 DEF PlaceInv
  <1>6. ~taken' /\ at' \in {"verify", "promote"} => Payload(part)'
    BY <1>1, <1>3 DEF PlaceInv
  <1>7. ~taken' /\ (row' = "completed" \/ at' = "complete" \/ promoted' > 0) =>
           part' = Absent /\ HasCommitted'
    BY <1>1, <1>2, <1>4 DEF PlaceInv
  <1> QED
    BY <1>5, <1>6, <1>7 DEF PlaceInv

\* With a part file, or with nothing confirmed, nothing was put in place.
LEMMA NotPlaced ==
    ASSUME PlaceInv, ~taken, part # Absent \/ ~HasCommitted
    PROVE  ~(promoted > 0) /\ row # "completed" /\ at # "complete"
  BY DEF PlaceInv

LEMMA PlaceStep ==
    ASSUME FALSE \notin Changing, Payloads, [Next]_vars
    PROVE  PlaceInv'
<1> USE DEF storeVars, fileVars, workerVars, boundVars, historyVars
<1>0. Inv /\ TypeOK /\ SourceInv /\ PlaceInv /\ PlanInv /\ FileInv /\ AttemptInv
  BY DEF Payloads, Inv
<1>1. CASE Begin \/ SettleStopped \/ GiveUpRecorded \/ CompleteDownload \/ PromoteFails
  <2>1. /\ UNCHANGED <<chunks, etag, final, taken, promoted, part>>
        /\ at' \in {"idle", "probe"}
        /\ row' = "completed" => at = "complete"
    BY <1>1 DEF Begin, SettleStopped, GiveUpRecorded, CompleteDownload, PromoteFails, EndAttempt
  <2> QED
    BY <2>1, PlaceKept
<1>2. CASE Crash \/ PowerLoss
  <2>1. /\ UNCHANGED <<chunks, etag, final, taken, promoted>>
        /\ at' = "idle"
        /\ row' = "completed" => row = "completed"
    BY <1>2 DEF Crash, PowerLoss, Restart, EndAttempt
  <2>2. UNCHANGED part \/ (part # Absent /\ part' # Absent)
    <3>1. CASE part = Absent \/ Crash
      BY <1>2, <3>1 DEF Crash, PowerLoss
    <3>2. CASE part # Absent /\ PowerLoss
      BY <1>0, <3>2, PowerFacts, Contents
    <3> QED
      BY <1>2, <3>1, <3>2
  <2> QED
    BY <2>1, <2>2, PlaceKept
<1>3. CASE Pause \/ RemoteMoves \/ Resume \/ DiscardEnds \/ UNCHANGED vars
  <2>1. /\ UNCHANGED <<chunks, etag, final, taken, promoted, part, at>>
        /\ row' = "completed" => row = "completed"
    BY <1>3 DEF Pause, RemoteMoves, Resume, DiscardEnds, vars
  <2> QED
    BY <2>1, PlaceKept
<1>4. CASE PlanTransfer
  <2>1. /\ UNCHANGED <<final, taken, promoted, part>> /\ at' \in {"idle", "place"}
        /\ row' # "completed" \/ row' = row
    BY <1>4 DEF PlanTransfer, EndAttempt
  <2>2. CASE UNCHANGED <<chunks, etag>>
    BY <2>1, <2>2, PlaceKept
  <2>3. CASE ~HasCommitted /\ ~HasCommitted'
    <3>1. ~taken => ~(promoted > 0) /\ row # "completed"
      BY <1>0, <2>3, NotPlaced
    <3> QED
      BY <2>1, <2>3, <3>1 DEF PlaceInv
  <2>4. CASE \E c \in DOMAIN chunks : Checkpoint(c)
    BY <1>0, <1>4, <2>4, AtWork DEF PlanTransfer, Checkpoint
  <2>5. CASE ResetRow
    BY <1>0, <1>4, <2>5 DEF PlanTransfer, ResetRow, AttemptInv
  <2> QED
    BY <1>0, <2>2, <2>3, <2>4, <2>5, PlanKept
<1>5. CASE Adopt
  <2>1. /\ UNCHANGED <<chunks, etag, final, taken, promoted, part>>
        /\ part = Absent /\ committed_bytes > 0 /\ at' = "complete" /\ at = "place"
    BY <1>5 DEF Adopt, Adoptable, is_finished_payload
  <2>2. HasCommitted
    <3>1. Confirmed # {}
      BY <2>1, FS_EmptySet DEF committed_bytes
    <3> QED
      BY <1>0, <3>1, Committed
  <2>3. HasCommitted' /\ (Payload(final) => Payload(final)')
    <3>1. probe'.sized = probe.sized
      BY <1>5 DEF Adopt
    <3> QED
      BY <2>1, <2>2, <3>1 DEF HasCommitted, Payload, Confirmed
  <2> QED
    BY <1>0, <2>1, <2>2, <2>3 DEF PlaceInv
<1>6. CASE PrepareDestination
  <2>1. /\ at = "place" /\ ~Adoptable /\ UNCHANGED <<chunks, etag, promoted>>
        /\ at' \in {"open", "idle", "giving_up"}
        /\ row' # "completed" \/ row' = row
        /\ \/ UNCHANGED <<part, taken>> /\ at' # "giving_up"
           \/ part' = Absent /\ taken' = (taken \/ (part # Absent /\ HasCommitted))
    BY <1>6 DEF PrepareDestination, Collision, RemovePart
  <2>2. ~taken => part # Absent \/ ~HasCommitted
    BY <1>0, <2>1, PayloadIsAdoptable DEF PlaceInv
  <2>3. ~taken => ~(promoted > 0) /\ row # "completed"
    BY <1>0, <2>2, NotPlaced
  <2>4. HasCommitted' <=> HasCommitted
    BY <2>1 DEF HasCommitted
  <2>5. taken \in BOOLEAN
    BY <1>0 DEF TypeOK
  <2>6. ~taken' => ~taken /\ (part' # Absent \/ ~HasCommitted)
    <3>1. CASE UNCHANGED <<part, taken>>
      BY <2>2, <3>1
    <3>2. CASE taken' = (taken \/ (part # Absent /\ HasCommitted))
      BY <2>2, <2>5, <3>2
    <3> QED
      BY <2>1, <3>1, <3>2
  <2> QED
    BY <2>1, <2>3, <2>4, <2>6 DEF PlaceInv
<1>7. CASE OpenPart
  <2>1. /\ UNCHANGED <<chunks, etag, final, taken, promoted, row>> /\ at = "open"
        /\ at' = "fetch" /\ part' = Opened(part)
    BY <1>7 DEF OpenPart
  <2>2. part' # Absent
    BY <1>0, <2>1, OpenedFacts, Contents DEF TypeOK
  <2>3. CASE part # Absent
    BY <2>1, <2>2, <2>3, PlaceKept
  <2>4. CASE part = Absent
    <3>1. ~taken => ~HasCommitted
      BY <1>0, <2>1, <2>4 DEF PlaceInv
    <3>2. ~taken => ~(promoted > 0) /\ row # "completed"
      BY <1>0, <3>1, NotPlaced
    <3> QED
      BY <2>1, <2>2, <3>2 DEF PlaceInv
  <2> QED
    BY <2>3, <2>4
<1>8. ASSUME NEW c \in DOMAIN chunks, Worker(c) \/ Break(c)
      PROVE  PlaceInv'
  <2>1. /\ wpc[c] \in {"asking", "body", "synced"}
        /\ UNCHANGED <<row, final, at, taken, promoted>>
        /\ ~WriteBytes(c) => UNCHANGED part
    BY <1>0, <1>8, WorkerMoves
  <2>2. at = "fetch" /\ part # Absent
    BY <1>0, <2>1, AtWork
  <2>3. part' # Absent
    <3>1. ASSUME WriteBytes(c), part' # part PROVE part' # Absent
      <4>1. part' \in Content
        BY <1>0, <3>1, WriteFacts, WriteAtFacts
      <4> QED
        BY <4>1, Contents
    <3> QED
      BY <2>1, <2>2, <3>1
  <2>4. ~taken => ~(promoted > 0) /\ row # "completed"
    BY <1>0, <2>2, NotPlaced
  <2> QED
    BY <2>1, <2>2, <2>3, <2>4 DEF PlaceInv
<1>9. CASE SettleComplete
  <2>1. /\ UNCHANGED <<chunks, etag, final, taken, promoted, part, probe>> /\ at = "fetch"
        /\ at' = "verify" /\ row' = "verifying" /\ AllDone
    BY <1>9 DEF SettleComplete
  <2>2. part # Absent
    BY <1>0, <2>1 DEF FileInv
  <2>3. ~taken => Payload(part)
    BY <1>0, <2>1, DoneIsPayload
  <2>4. Payload(part) => Payload(part)'
    BY <2>1 DEF Payload, Confirmed
  <2>5. ~taken => ~(promoted > 0)
    BY <1>0, <2>2, NotPlaced
  <2> QED
    BY <2>1, <2>2, <2>3, <2>4, <2>5 DEF PlaceInv
<1>10. CASE DiscardPartial
  <2>1. /\ UNCHANGED <<chunks, promoted, row>> /\ at = "fetch" /\ at' = "giving_up"
        /\ part' = Absent /\ taken' = (taken \/ (part # Absent /\ HasCommitted))
    BY <1>10 DEF DiscardPartial, RemovePart
  <2>2. part # Absent /\ taken \in BOOLEAN
    BY <1>0, <2>1 DEF FileInv, TypeOK
  <2>3. ~taken => ~(promoted > 0) /\ row # "completed"
    BY <1>0, <2>2, NotPlaced
  <2>4. ~taken' => ~taken /\ ~HasCommitted'
    BY <2>1, <2>2 DEF HasCommitted
  <2> QED
    BY <2>1, <2>3, <2>4 DEF PlaceInv
<1>11. CASE SettleName
  <2>0. /\ at = "verify" /\ UNCHANGED <<chunks, etag, probe, promoted>>
    BY <1>11 DEF SettleName
  <2>1. part # Absent /\ taken \in BOOLEAN
    BY <1>0, <2>0 DEF FileInv, TypeOK
  <2>2. ~taken => Payload(part) /\ HasCommitted
    BY <1>0, <2>0, PayloadFacts DEF PlaceInv
  <2>3. ~taken => ~(promoted > 0) /\ row # "completed"
    BY <1>0, <2>1, NotPlaced
  <2>4. HasCommitted' <=> HasCommitted
    BY <2>0 DEF HasCommitted
  <2>5. CASE UNCHANGED <<part, taken>> /\ at' \in {"promote", "idle"} /\ row' # "completed"
    <3>1. Payload(part) => Payload(part)'
      BY <2>0, <2>5 DEF Payload, Confirmed
    <3> QED
      BY <2>0, <2>1, <2>2, <2>3, <2>5, <3>1 DEF PlaceInv
  <2>6. CASE UNCHANGED <<final, taken>> /\ final = part /\ part' = Absent /\ at' = "complete"
    <3>1. Payload(part) => Payload(final)'
      BY <2>0, <2>6 DEF Payload, Confirmed
    <3> QED
      BY <2>2, <2>4, <2>6, <3>1 DEF PlaceInv
  <2>7. CASE taken' = (taken \/ (part # Absent /\ HasCommitted))
    <3>1. taken'
      BY <2>1, <2>2, <2>7
    <3> QED
      BY <3>1 DEF PlaceInv
  <2>8. row' \in {row, "verifying", "blocked"}
    BY <1>11 DEF SettleName, Collision
  <2>9. row # "completed"
    BY <1>0, <2>0 DEF AttemptInv, Working
  <2> QED
    BY <1>11, <2>5, <2>6, <2>7, <2>8, <2>9 DEF SettleName, Collision, RemovePart
<1>12. CASE Promote
  <2>1. /\ UNCHANGED <<chunks, etag, probe, taken>> /\ at = "promote" /\ at' = "complete"
        /\ final' = part /\ part' = Absent
    BY <1>12 DEF Promote
  <2>2. ~taken => Payload(part) /\ HasCommitted
    BY <1>0, <2>1, PayloadFacts DEF PlaceInv
  <2>3. Payload(part) => Payload(final)'
    BY <2>1 DEF Payload, Confirmed
  <2>4. HasCommitted' <=> HasCommitted
    BY <2>1 DEF HasCommitted
  <2> QED
    BY <2>1, <2>2, <2>3, <2>4 DEF PlaceInv
<1>13. CASE DiscardUnfinished
  <2>1. /\ UNCHANGED <<chunks, etag, probe, row, at, promoted>> /\ at = "idle"
        /\ \E dropPart, dropPayload \in BOOLEAN :
             /\ part' = IF dropPart THEN Absent ELSE part
             /\ final' = IF dropPayload THEN Absent ELSE final
             /\ taken' = \/ taken
                         \/ dropPart /\ part # Absent /\ HasCommitted
                         \/ dropPayload /\ final # Absent
    BY <1>13 DEF DiscardUnfinished
  <2>2. taken \in BOOLEAN
    BY <1>0 DEF TypeOK
  <2>3. ~taken' => /\ ~taken /\ final' = final
                   /\ part' = Absent /\ HasCommitted => part = Absent
                   /\ part = Absent => part' = Absent
    BY <2>1, <2>2
  <2>4. HasCommitted' <=> HasCommitted
    BY <2>1 DEF HasCommitted
  <2>5. final' = final /\ Payload(final) => Payload(final)'
    BY <2>1 DEF Payload, Confirmed
  <2> QED
    BY <1>0, <2>1, <2>3, <2>4, <2>5 DEF PlaceInv
<1>14. CASE ResetRow
  <2>1. row' = "queued" /\ promoted' = 0 /\ at' = "idle"
    BY <1>0, <1>14 DEF ResetRow, AttemptInv
  <2>2. ~HasCommitted'
    BY <1>14 DEF ResetRow, HasCommitted
  <2> QED
    BY <2>1, <2>2 DEF PlaceInv
<1> QED
  BY <1>1, <1>2, <1>3, <1>4, <1>5, <1>6, <1>7, <1>8, <1>9, <1>10, <1>11, <1>12, <1>13, <1>14
     DEF Next, Attempt, Between

-----------------------------------------------------------------------------
(* The theorems.                                                           *)

LEMMA PayloadsInvariance ==
    ASSUME FALSE \notin Changing
    PROVE  Spec => []Payloads
  <1>1. Init => Payloads
    <2> SUFFICES ASSUME Init PROVE Payloads
      OBVIOUS
    <2>1. Confirmed = {} /\ ~HasCommitted
      BY DEF Init, Confirmed, HasCommitted
    <2>2. SourceInv
      BY <2>1 DEF Init, SourceInv
    <2>3. PlaceInv
      BY <2>1 DEF Init, PlaceInv
    <2> QED
      BY <2>2, <2>3, Initially DEF Payloads
  <1>2. Payloads /\ [Next]_vars => Payloads'
    <2> SUFFICES ASSUME Payloads, [Next]_vars PROVE Payloads'
      OBVIOUS
    <2>1. Inv'
      BY TypeStep, PlanStep, AttemptStep, WorkerStep, FileStep, VerdictStep DEF Inv, Payloads
    <2> QED
      BY <2>1, SourceStep, PlaceStep DEF Payloads
  <1> QED
    BY <1>1, <1>2, PTL DEF Spec

LEMMA EtagIsVersion ==
    ASSUME Inv, Confirmed # {}
    PROVE  etag \in Version
  <1>1. chunks # <<>>
    BY ConfirmedFact
  <1> QED
    BY <1>1, TypeFacts DEF Inv, PlanInv

\* What a checkpoint says was fetched is on the disk, in the part file or in
\* the payload it became, wherever the transfer, the process or the power was
\* stopped and however many workers share the file (`flush`).
THEOREM ConfirmedIsOnDisk ==
    ASSUME FALSE \notin Changing
    PROVE  Spec => []ConfirmedIsDurable
  <1>1. Payloads => ConfirmedIsDurable
    <2> SUFFICES ASSUME Payloads, ~taken, NEW i \in Confirmed
                 PROVE  LET file == IF part = Absent THEN final ELSE disk
                        IN  i \in DOMAIN file /\ file[i] \in Version
      BY DEF ConfirmedIsDurable
    <2>0. Inv /\ TypeOK /\ PlanInv /\ SourceInv /\ PlaceInv /\ FileInv
      BY DEF Payloads, Inv
    <2>1. CASE part = Absent
      <3>1. Payload(final)
        BY <2>0, <2>1, Committed DEF PlaceInv
      <3>2. PICK v \in Version : final = Fill(v) /\ Confirmed = 1 .. Length[v]
        BY <3>1 DEF Payload
      <3>3. i \in DOMAIN final /\ final[i] = v
        BY <3>2, FillFacts
      <3> QED
        BY <2>1, <3>3
    <2>2. CASE part # Absent
      <3>1. i \in DOMAIN part /\ etag <= part[i] /\ part[i] = Safe(i)
        BY <2>0, <2>2 DEF SourceInv, FileInv
      <3>2. part[i] \in Version \cup {Hole} /\ part[i] \in Nat
        BY <2>0, <2>2, <3>1, FileFacts, Contents
      <3>3. part[i] # Hole
        BY <2>0, <3>1, <3>2, EtagIsVersion, Versions DEF Hole
      <3>4. i \in DOMAIN disk /\ disk[i] = part[i]
        BY <3>1, <3>3 DEF Safe
      <3> QED
        BY <2>2, <3>2, <3>3, <3>4
    <2> QED
      BY <2>1, <2>2
  <1> QED
    BY <1>1, PayloadsInvariance, PTL

\* A completed payload is one version of the remote file from its first byte to
\* its last, through every stop, crash, power failure and change of the file on
\* the way, unless what was fetched was deleted under its checkpoint.
THEOREM CompletedIsWhole ==
    ASSUME FALSE \notin Changing
    PROVE  Spec => []CompletedIsOneVersion
  <1>1. Payloads => CompletedIsOneVersion
    BY DEF Payloads, PlaceInv, Payload, CompletedIsOneVersion
  <1> QED
    BY <1>1, PayloadsInvariance, PTL

\* A payload that was put in place is adopted by the next attempt and not
\* fetched again (`adopt_existing_final`).
THEOREM PlacedIsAdopted ==
    ASSUME FALSE \notin Changing
    PROVE  Spec => []PlacedIsNotFetchedAgain
  <1>1. Payloads => PlacedIsNotFetchedAgain
    BY DEF Payloads, Inv, FileInv, PlaceInv, PlacedIsNotFetchedAgain
  <1> QED
    BY <1>1, PayloadsInvariance, PTL

-----------------------------------------------------------------------------
(* The contract.                                                           *)

\* The confirmed blocks, as the contract has them.
Got == IF taken THEN <<>>
       ELSE [i \in Confirmed |-> IF part = Absent THEN final[i] ELSE part[i]]

\* The steps that touch the payload, or take the part file away.
LEMMA FinalMoves ==
    ASSUME FALSE \notin Changing, Payloads, [Next]_vars, UNCHANGED chunks,
           ~taken, ~taken', Confirmed # {}
    PROVE  /\ part = Absent => part' = Absent /\ final' = final
           /\ part # Absent /\ part' = Absent => final' = part
<1> USE DEF storeVars, fileVars, workerVars, boundVars, historyVars
<1>0. Inv /\ TypeOK /\ SourceInv /\ PlaceInv /\ PlanInv /\ FileInv /\ AttemptInv /\ HasCommitted
  BY Committed DEF Payloads, Inv
<1>1. CASE PrepareDestination
  <2>1. /\ at = "place" /\ ~Adoptable
        /\ \/ UNCHANGED <<part, taken>>
           \/ part' = Absent /\ taken' = (taken \/ (part # Absent /\ HasCommitted))
    BY <1>1 DEF PrepareDestination, Collision, RemovePart
  <2>2. part # Absent
    BY <1>0, <2>1, PayloadIsAdoptable DEF PlaceInv
  <2>3. ~(taken' = (taken \/ (part # Absent /\ HasCommitted)))
    BY <1>0, <2>2
  <2> QED
    BY <2>1, <2>2, <2>3
<1>2. CASE OpenPart
  <2>1. at = "open" /\ part' = Opened(part)
    BY <1>2 DEF OpenPart
  <2>2. part # Absent
    BY <1>0, <2>1 DEF PlaceInv
  <2>3. part' # Absent
    BY <1>0, <2>1, OpenedFacts, Contents DEF TypeOK
  <2> QED
    BY <2>2, <2>3
<1>3. ASSUME NEW c \in DOMAIN chunks, Worker(c) \/ Break(c)
      PROVE  part # Absent /\ part' # Absent
  <2>1. wpc[c] \in {"asking", "body", "synced"} /\ (~WriteBytes(c) => UNCHANGED part)
    BY <1>0, <1>3, WorkerMoves
  <2>2. part # Absent
    BY <1>0, <2>1, AtWork
  <2>3. ASSUME WriteBytes(c), part' # part PROVE part' # Absent
    <3>1. part' \in Content
      BY <1>0, <2>3, WriteFacts, WriteAtFacts
    <3> QED
      BY <3>1, Contents
  <2> QED
    BY <2>1, <2>2, <2>3
<1>4. CASE SettleName
  <2>1. at = "verify"
    BY <1>4 DEF SettleName
  <2>2. part # Absent
    BY <1>0, <2>1 DEF FileInv
  <2>3. ~(taken' = (taken \/ (part # Absent /\ HasCommitted)))
    BY <1>0, <2>2
  <2>4. UNCHANGED part \/ (final' = final /\ final = part)
    BY <1>4, <2>3 DEF SettleName, Collision, RemovePart
  <2> QED
    BY <2>2, <2>4
<1>5. CASE DiscardPartial
  <2>1. taken' = (taken \/ (part # Absent /\ HasCommitted)) /\ at = "fetch"
    BY <1>5 DEF DiscardPartial, RemovePart
  <2> QED
    BY <1>0, <2>1 DEF FileInv
<1>6. CASE DiscardUnfinished
  <2>1. \E dropPart, dropPayload \in BOOLEAN :
             /\ part' = IF dropPart THEN Absent ELSE part
             /\ final' = IF dropPayload THEN Absent ELSE final
             /\ taken' = \/ taken
                         \/ dropPart /\ part # Absent /\ HasCommitted
                         \/ dropPayload /\ final # Absent
    BY <1>6 DEF DiscardUnfinished
  <2> QED
    BY <1>0, <2>1
<1>7. CASE Promote
  <2>1. at = "promote" /\ final' = part
    BY <1>7 DEF Promote
  <2> QED
    BY <1>0, <2>1 DEF FileInv
<1>8. CASE PowerLoss
  <2>1. CASE part = Absent
    BY <1>8, <2>1 DEF PowerLoss, Restart
  <2>2. CASE part # Absent
    BY <1>0, <1>8, <2>2, PowerFacts, Contents
  <2> QED
    BY <2>1, <2>2
<1>9. CASE UNCHANGED <<part, final>>
  BY <1>9
<1>10. CASE Begin \/ PlanTransfer \/ Adopt \/ SettleComplete \/ SettleStopped \/ GiveUpRecorded
            \/ CompleteDownload \/ Pause \/ PromoteFails \/ Crash \/ RemoteMoves \/ Resume
            \/ ResetRow \/ DiscardEnds \/ UNCHANGED vars
  BY <1>9, <1>10
     DEF Begin, PlanTransfer, Adopt, SettleComplete, SettleStopped, GiveUpRecorded,
         CompleteDownload, Pause, PromoteFails, Crash, Restart, RemoteMoves, Resume, ResetRow,
         DiscardEnds, vars
<1> QED
  BY <1>1, <1>2, <1>3, <1>4, <1>5, <1>6, <1>7, <1>8, <1>10 DEF Next, Attempt, Between

\* A step that keeps the plan and deletes nothing keeps what was fetched.
LEMMA GotKept ==
    ASSUME FALSE \notin Changing, Payloads, [Next]_vars, UNCHANGED <<chunks, taken>>
    PROVE  Got' = Got
<1>1. CASE taken
  BY <1>1 DEF Got
<1>2. CASE ~taken
  <2>0. Inv /\ SourceInv /\ PlaceInv /\ Confirmed' = Confirmed
    BY DEF Payloads, Confirmed
  <2>1. ASSUME NEW i \in Confirmed
        PROVE  (IF part' = Absent THEN final'[i] ELSE part'[i])
                   = (IF part = Absent THEN final[i] ELSE part[i])
    <3>1. CASE part # Absent /\ part' # Absent
      <4>1. i \in DOMAIN part
        BY <1>2, <2>0, <3>1 DEF SourceInv
      <4> QED
        BY <2>0, <3>1, <4>1, BytesStay
    <3>2. CASE part = Absent \/ part' = Absent
      BY <1>2, <3>2, FinalMoves
    <3> QED
      BY <3>1, <3>2
  <2> QED
    BY <1>2, <2>0, <2>1 DEF Got
<1> QED
  BY <1>1, <1>2

\* The steps of the contract, in the words of the transfer.
LEMMA IsStutter ==
    ASSUME Got' = Got, taken' = taken, discarding' = discarding,
           row' = "completed" <=> row = "completed"
    PROVE  UNCHANGED Contract!vars
  BY DEF Contract!vars, Got

LEMMA IsFetch ==
    ASSUME row # "completed", ~taken, ~discarding, UNCHANGED <<row, taken, discarding>>,
           DOMAIN Got \subseteq DOMAIN Got', \A i \in DOMAIN Got : Got'[i] = Got[i],
           \A i \in DOMAIN Got' : Got'[i] \in Version
    PROVE  Contract!Fetch
  BY DEF Contract!Fetch, Contract!Version, Version, Got

LEMMA IsComplete ==
    ASSUME row # "completed", row' = "completed", ~discarding, Got' = Got,
           taken \/ \E v \in Version : Got = Fill(v), UNCHANGED <<taken, discarding>>
    PROVE  Contract!Complete
  BY DEF Contract!Complete, Contract!Whole, Contract!Version, Version, Fill, Got

LEMMA IsDelete ==
    ASSUME discarding' \/ row # "completed", taken', taken' \in BOOLEAN, UNCHANGED row
    PROVE  Contract!Delete
  BY DEF Contract!Delete

LEMMA IsAsk ==
    ASSUME discarding' = ~discarding, Got' = Got, taken' = taken,
           row' = "completed" <=> row = "completed"
    PROVE  Contract!Ask
  BY DEF Contract!Ask, Got

LEMMA IsStartOver ==
    ASSUME discarding, ~discarding', discarding' \in BOOLEAN, Got' = <<>>,
           row' # "completed", ~taken', taken' \in BOOLEAN
    PROVE  Contract!StartOver
  BY DEF Contract!StartOver, Got

\* Every step of the transfer is a step of the contract, or none.
LEMMA ContractStep ==
    ASSUME FALSE \notin Changing, Payloads, [Next]_vars
    PROVE  [Contract!Next]_(Contract!vars)
<1> USE DEF storeVars, fileVars, workerVars, boundVars, historyVars
<1>0. Inv /\ TypeOK /\ SourceInv /\ PlaceInv /\ PlanInv /\ FileInv /\ AttemptInv
  BY DEF Payloads, Inv
<1>a. /\ taken \in BOOLEAN /\ discarding \in BOOLEAN
      /\ taken' \in BOOLEAN /\ discarding' \in BOOLEAN
  BY <1>0, TypeStep DEF TypeOK
<1>b. at # "idle" => row # "completed" /\ ~discarding
  BY <1>0 DEF AttemptInv, Working
<1>1. CASE Begin \/ Adopt \/ OpenPart \/ SettleComplete \/ SettleStopped \/ GiveUpRecorded
           \/ Promote \/ Pause \/ PromoteFails \/ RemoteMoves \/ Resume \/ UNCHANGED vars
  <2>1. UNCHANGED <<chunks, taken, discarding>>
    BY <1>1 DEF Begin, Adopt, OpenPart, SettleComplete, SettleStopped, GiveUpRecorded, Promote,
                Pause, PromoteFails, RemoteMoves, Resume, vars
  <2>2. row' = "completed" <=> row = "completed"
    <3>1. CASE Begin \/ Resume
      BY <3>1 DEF Begin, Resume
    <3>2. CASE SettleComplete \/ SettleStopped \/ GiveUpRecorded \/ PromoteFails \/ Adopt
      BY <1>b, <3>2 DEF SettleComplete, SettleStopped, GiveUpRecorded, PromoteFails, Adopt,
                        EndAttempt
    <3>3. CASE OpenPart \/ Promote \/ Pause \/ RemoteMoves \/ UNCHANGED vars
      BY <3>3 DEF OpenPart, Promote, Pause, RemoteMoves, vars
    <3> QED
      BY <1>1, <3>1, <3>2, <3>3
  <2> QED
    BY <2>1, <2>2, GotKept, IsStutter
<1>2. CASE PlanTransfer
  <2>1. UNCHANGED <<taken, discarding>> /\ at = "probe" /\ row' \in {row, "failed", "blocked"}
    BY <1>2 DEF PlanTransfer, EndAttempt
  <2>2. row' = "completed" <=> row = "completed"
    BY <1>b, <2>1
  <2>3. CASE UNCHANGED chunks
    BY <2>1, <2>2, <2>3, GotKept, IsStutter
  <2>4. CASE ~HasCommitted /\ Confirmed' = {}
    <3>1. Confirmed = {}
      BY <1>0, <2>4, Committed
    <3>2. Got = <<>> /\ Got' = <<>>
      BY <2>4, <3>1 DEF Got
    <3> QED
      BY <2>1, <2>2, <3>2, IsStutter
  <2>5. CASE \E c \in DOMAIN chunks : Checkpoint(c)
    BY <1>0, <2>1, <2>5, AtWork DEF Checkpoint
  <2>6. CASE ResetRow
    BY <1>b, <2>1, <2>6 DEF ResetRow
  <2> QED
    BY <1>0, <2>3, <2>4, <2>5, <2>6, PlanKept
<1>3. ASSUME NEW c \in DOMAIN chunks, Worker(c) \/ Break(c)
      PROVE  [Contract!Next]_(Contract!vars)
  <2>1. /\ wpc[c] \in {"asking", "body", "synced"}
        /\ UNCHANGED <<row, discarding, taken>>
        /\ ~Checkpoint(c) => UNCHANGED chunks
    BY <1>0, <1>3, WorkerMoves
  <2>2. CASE UNCHANGED chunks
    BY <2>1, <2>2, GotKept, IsStutter
  <2>3. CASE Checkpoint(c) /\ taken
    BY <2>1, <2>3, IsStutter DEF Got
  <2>4. CASE Checkpoint(c) /\ ~taken
    <3>1. /\ Confirmed' = Confirmed \cup (chunks[c].committed + 1 .. pos[c])
          /\ UNCHANGED part
      BY <1>0, <2>4, NewlyConfirmed
    <3>2. at = "fetch" /\ part # Absent
      BY <1>0, <2>1, AtWork
    <3>3. Got = [i \in Confirmed |-> part[i]] /\ Got' = [i \in Confirmed' |-> part[i]]
      BY <2>1, <2>4, <3>1, <3>2 DEF Got
    <3>4. \A i \in Confirmed' : part[i] \in Version
      <4>1. SourceInv' /\ TypeOK' /\ PlanInv' /\ UNCHANGED <<etag, remote>>
        BY <1>0, <2>4, SourceStep, TypeStep, PlanStep DEF Checkpoint
      <4>2. \A i \in Confirmed' : i \in DOMAIN part /\ etag <= part[i]
        BY <2>1, <2>4, <3>1, <3>2, <4>1 DEF SourceInv
      <4>3. etag \in Version
        BY <1>0, <2>1, AtWork
      <4>4. \A i \in DOMAIN part : part[i] \in Version \cup {Hole} /\ part[i] \in Nat
        BY <1>0, <3>2, FileFacts, Contents
      <4> QED
        BY <4>2, <4>3, <4>4, Versions DEF Hole
    <3>5. Contract!Fetch
      BY <1>b, <2>1, <2>4, <3>1, <3>2, <3>3, <3>4, IsFetch
    <3> QED
      BY <3>5 DEF Contract!Next
  <2> QED
    BY <2>1, <2>2, <2>3, <2>4
<1>4. CASE PrepareDestination \/ SettleName \/ DiscardPartial
  <2>1. /\ UNCHANGED <<chunks, discarding>> /\ at \in {"place", "verify", "fetch"}
        /\ row' # "completed" \/ row' = row
        /\ taken' = taken \/ UNCHANGED row
    <3>1. CASE PrepareDestination
      BY <3>1 DEF PrepareDestination, Collision, RemovePart
    <3>2. CASE SettleName
      BY <3>2 DEF SettleName, Collision, RemovePart
    <3>3. CASE DiscardPartial
      BY <3>3 DEF DiscardPartial
    <3> QED
      BY <1>4, <3>1, <3>2, <3>3
  <2>2. CASE taken' = taken
    BY <1>b, <2>1, <2>2, GotKept, IsStutter
  <2>3. CASE taken' # taken
    <3>1. taken'
      <4>1. ~ResetRow
        BY <1>b, <2>1 DEF ResetRow
      <4>2. taken => taken'
        BY <1>0, <1>4, <2>1, <4>1, PlanKept DEF PrepareDestination, SettleName, DiscardPartial,
                                                PlanTransfer
      <4> QED
        BY <1>a, <2>3, <4>2
    <3>2. Contract!Delete
      BY <1>a, <1>b, <2>1, <2>3, <3>1, IsDelete
    <3> QED
      BY <3>2 DEF Contract!Next
  <2> QED
    BY <2>2, <2>3
<1>5. CASE CompleteDownload
  <2>1. /\ UNCHANGED <<chunks, taken, discarding>> /\ at = "complete" /\ row' = "completed"
    BY <1>5 DEF CompleteDownload, EndAttempt
  <2>2. ~taken => \E v \in Version : Got = Fill(v)
    <3> SUFFICES ASSUME ~taken PROVE \E v \in Version : Got = Fill(v)
      OBVIOUS
    <3>1. part = Absent /\ Payload(final)
      BY <1>0, <2>1 DEF PlaceInv
    <3>2. PICK v \in Version : final = Fill(v) /\ Confirmed = 1 .. Length[v]
      BY <3>1 DEF Payload
    <3>3. Got = Fill(v)
      BY <3>1, <3>2 DEF Got, Fill
    <3> QED
      BY <3>3
  <2>3. Contract!Complete
    BY <1>b, <2>1, <2>2, GotKept, IsComplete
  <2> QED
    BY <2>3 DEF Contract!Next
<1>6. CASE Crash \/ PowerLoss \/ DiscardEnds
  <2>1. UNCHANGED <<chunks, taken>> /\ discarding' = FALSE
        /\ (row' = "completed" <=> row = "completed")
    <3>1. CASE Crash \/ PowerLoss
      BY <3>1 DEF Crash, PowerLoss, Restart, EndAttempt, Working
    <3>2. CASE DiscardEnds
      BY <3>2 DEF DiscardEnds
    <3> QED
      BY <1>6, <3>1, <3>2
  <2>2. Got' = Got
    BY <2>1, GotKept
  <2>3. CASE discarding = FALSE
    BY <2>1, <2>2, <2>3, IsStutter
  <2>4. CASE discarding = TRUE
    <3>1. Contract!Ask
      BY <2>1, <2>2, <2>4, IsAsk
    <3> QED
      BY <3>1 DEF Contract!Next
  <2> QED
    BY <1>a, <2>3, <2>4
<1>7. CASE DiscardUnfinished
  <2>1. UNCHANGED <<chunks, row>> /\ discarding' = TRUE /\ ~discarding /\ at = "idle"
    BY <1>7 DEF DiscardUnfinished
  <2>2. CASE taken' = taken
    <3>1. Contract!Ask
      BY <1>a, <2>1, <2>2, GotKept, IsAsk
    <3> QED
      BY <3>1 DEF Contract!Next
  <2>3. CASE taken' # taken
    <3>1. taken'
      BY <1>7, <1>a, <2>3 DEF DiscardUnfinished
    <3>2. Contract!Delete
      BY <1>a, <2>1, <3>1, IsDelete
    <3> QED
      BY <3>2 DEF Contract!Next
  <2> QED
    BY <2>2, <2>3
<1>8. CASE ResetRow
  <2>1. discarding /\ discarding' = FALSE /\ row' = "queued" /\ taken' = FALSE /\ chunks' = <<>>
    BY <1>8 DEF ResetRow
  <2>2. Confirmed' = {}
    BY <2>1 DEF Confirmed
  <2>3. Got' = <<>>
    BY <2>2 DEF Got
  <2>4. Contract!StartOver
    BY <2>1, <2>3, IsStartOver
  <2> QED
    BY <2>4 DEF Contract!Next
<1> QED
  BY <1>1, <1>2, <1>3, <1>4, <1>5, <1>6, <1>7, <1>8 DEF Next, Attempt, Between

\* The transfer implements the contract of a download (Download): through
\* stops, crashes, power failures, hosts that change the file and resumes in
\* any order the confirmed blocks only grow, keep their content, and are one
\* version of the file when the row is completed.
THEOREM TransferImplementsDownload ==
    ASSUME FALSE \notin Changing
    PROVE  Spec => ImplementsDownload
  <1>1. Init => Contract!Init
    <2> SUFFICES ASSUME Init PROVE Contract!Init
      OBVIOUS
    <2>1. Confirmed = {}
      BY DEF Init, Confirmed
    <2> QED
      BY <2>1 DEF Init, Contract!Init
  <1>2. Payloads /\ [Next]_vars => [Contract!Next]_(Contract!vars)
    BY ContractStep
  <1> QED
    BY <1>1, <1>2, PayloadsInvariance, PTL DEF Spec, ImplementsDownload, Contract!Spec

=============================================================================

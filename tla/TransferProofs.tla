---------------------------- MODULE TransferProofs ----------------------------
(***************************************************************************)
(* What TLAPS proves of Transfer for every length of the remote file, every *)
(* number of chunks, versions and interruptions, and every host: the plan,  *)
(* the workers and the part file keep together, no confirmed byte is        *)
(* overwritten, and a file that was fetched is not refused.                 *)
(***************************************************************************)
EXTENDS Transfer, FiniteSetTheorems, TLAPS

-----------------------------------------------------------------------------
(* The invariant.                                                          *)

\* The chunks of a plan: in order, without an overlap, without a gap, and none
\* is fetched beyond its end.
PlanInv ==
    /\ etag <= remote /\ probe.version <= remote
    /\ chunks # <<>> <=> etag # 0
    /\ \A c \in DOMAIN chunks : chunks[c].start <= chunks[c].committed
    /\ probe.sized =>
          /\ \A c \in DOMAIN chunks :
                /\ chunks[c].committed <= chunks[c].end
                /\ chunks[c].end <= Length[etag]
          /\ \A c, d \in DOMAIN chunks : c < d => chunks[c].end <= chunks[d].start
          /\ etag # 0 => \A i \in 1 .. Length[etag] : \E c \in DOMAIN chunks :
                i \in chunks[c].start + 1 .. chunks[c].end
    /\ ~probe.sized =>
          /\ Len(chunks) <= 1
          /\ \A c \in DOMAIN chunks : chunks[c].start = 0 /\ chunks[c].end = NoEnd

\* The attempt goes by the plan and the validators it recorded or compared.
AttemptInv ==
    /\ at = "idle" <=> row \notin Working
    /\ discarding => at = "idle"
    /\ at \notin {"idle", "probe"} =>
          /\ etag = probe.version /\ etag # 0
          /\ ~probe.ranges => Len(chunks) = 1
    /\ at \in {"place", "open"} /\ ~probe.ranges =>
          \A c \in DOMAIN chunks : chunks[c].committed = chunks[c].start
    /\ at \notin {"fetch", "giving_up"} =>
          /\ halt = None
          /\ \A c \in Workers : wpc[c] = "idle" /\ body[c] = 0
    /\ at = "giving_up" => \A c \in Workers : wpc[c] \in {"idle", "done", "stopped"}

\* A worker, where its body belongs and what it has behind it.
OneWorker(c) ==
    /\ wpc[c] # "idle" => c \in DOMAIN chunks
    /\ c \in DOMAIN chunks /\ at = "fetch" => wpc[c] # "idle"
    /\ wpc[c] = "asking" =>
          /\ ~is_complete(chunks[c]) /\ body[c] = 0
          /\ ~probe.ranges => chunks[c].committed = chunks[c].start
    /\ wpc[c] \in {"body", "synced"} =>
          /\ body[c] # 0
          /\ chunks[c].committed <= pos[c] /\ pos[c] <= chunks[c].end
          /\ pos[c] <= Length[body[c]]
    /\ wpc[c] = "done" /\ body[c] = 0 => is_complete(chunks[c])
    /\ wpc[c] = "done" /\ body[c] # 0 =>
          /\ chunks[c].end \in {NoEnd, chunks[c].committed}
          /\ Len(chunks) = 1 => chunks[c].committed = Length[body[c]]
    /\ body[c] # 0 =>
          /\ c \in DOMAIN chunks
          /\ body[c] <= remote
          /\ body[c] = etag \/ (body[c] > etag /\ Len(chunks) = 1)

WorkerInv == \A c \in Workers : OneWorker(c)

\* What a power failure leaves where a block was not synced.
Safe(i) == IF i \in DOMAIN disk THEN disk[i] ELSE Hole

\* The part file: the confirmed blocks are synced, those of a worker's body are
\* written.
FileInv ==
    /\ part = Absent <=> disk = Absent
    /\ part # Absent => Len(disk) <= Len(part)
    /\ at \in {"fetch", "verify", "promote"} =>
          /\ part # Absent
          /\ probe.sized => Len(part) = Length[etag]
    /\ part # Absent => \A i \in Confirmed : i \in DOMAIN part => part[i] = Safe(i)
    /\ \A c \in Workers : wpc[c] \in {"body", "synced"} =>
          \A i \in chunks[c].committed + 1 .. pos[c] :
             /\ i \in DOMAIN part
             /\ part[i] = body[c]
             /\ wpc[c] = "synced" => part[i] = Safe(i)

\* Why a file is called changed: it is another one, or a chunk has no end.
Refusable == remote # etag \/ \E c \in DOMAIN chunks : chunks[c].committed < chunks[c].end

VerdictInv ==
    /\ halt = "remote_changed" /\ probe.sized =>
          \/ remote # etag
          \/ \E c \in DOMAIN chunks :
                wpc[c] = "stopped" /\ chunks[c].committed < chunks[c].end
    /\ verdict # None => /\ row = "failed"
                         /\ probe.sized => Refusable

Inv == TypeOK /\ PlanInv /\ AttemptInv /\ WorkerInv /\ FileInv /\ VerdictInv

-----------------------------------------------------------------------------
(* Lengths, contents and plans.                                            *)

LEMMA Lengths ==
    /\ \A v \in Version : Length[v] \in Nat /\ 1 <= Length[v] /\ Length[v] <= Longest
    /\ Longest \in Nat /\ NoEnd = Longest + 1
    /\ 1 \in Version /\ Version \subseteq Nat /\ 0 \notin Version
    /\ \A v \in Version : v <= Len(Length)
    /\ Len(Length) \in Nat
  BY TransferAssumption DEF Version, NoEnd

LEMMA Versions == \A v \in Version : v \in Nat /\ 1 <= v /\ v <= Len(Length)
  BY TransferAssumption DEF Version

\* What a file is made of.
LEMMA Contents ==
    ASSUME NEW file \in Content
    PROVE  /\ file \in Seq(Version \cup {Hole})
           /\ Len(file) \in Nat /\ Len(file) <= Longest
           /\ DOMAIN file = 1 .. Len(file)
           /\ \A i \in 1 .. Len(file) : file[i] \in Version \cup {Hole}
           /\ file # Absent
  <1>1. PICK n \in 0 .. Longest : file \in [1 .. n -> Version \cup {Hole}]
    BY DEF Content
  <1>2. n \in Nat /\ n <= Longest
    BY <1>1, Lengths
  <1>3. file \in Seq(Version \cup {Hole}) /\ Len(file) = n
    BY <1>1, <1>2
  <1>4. file # Absent
    <2> SUFFICES ASSUME file = << -1 >> PROVE FALSE
      BY DEF Absent
    <2>1. n = 1 /\ file[1] = -1
      BY <1>3
    <2>2. file[1] \in Version \cup {Hole}
      BY <1>1, <2>1
    <2> QED
      BY <2>1, <2>2, Lengths DEF Hole
  <1> QED
    BY <1>1, <1>2, <1>3, <1>4

LEMMA ContentOf ==
    ASSUME NEW n \in Nat, n <= Longest, NEW file \in [1 .. n -> Version \cup {Hole}]
    PROVE  file \in Content /\ Len(file) = n
  <1>1. n \in 0 .. Longest
    BY Lengths
  <1>2. file \in Content
    BY <1>1 DEF Content
  <1>3. Len(file) = n
    OBVIOUS
  <1> QED
    BY <1>2, <1>3

LEMMA EmptyContent == <<>> \in Content /\ Len(<<>>) = 0
  <1>1. <<>> \in [1 .. 0 -> Version \cup {Hole}]
    OBVIOUS
  <1>2. 0 \in 0 .. Longest
    BY Lengths
  <1> QED
    BY <1>1, <1>2 DEF Content

\* A file is cut off or extended.
LEMMA SetLenFacts ==
    ASSUME NEW file \in Content, NEW n \in Nat, n <= Longest
    PROVE  /\ SetLen(file, n) \in Content
           /\ Len(SetLen(file, n)) = n
           /\ \A i \in 1 .. n :
                 SetLen(file, n)[i] = IF i <= Len(file) THEN file[i] ELSE Hole
  <1>1. SetLen(file, n) \in [1 .. n -> Version \cup {Hole}]
    BY Contents DEF SetLen
  <1> QED
    BY <1>1, ContentOf DEF SetLen

\* A block is written, before or behind the end.
LEMMA WriteAtFacts ==
    ASSUME NEW file \in Content, NEW offset \in Nat, offset < Longest,
           NEW block \in Version
    PROVE  LET n == IF offset < Len(file) THEN Len(file) ELSE offset + 1
               new == WriteAt(file, offset, block)
           IN  /\ new \in Content /\ Len(new) = n
               /\ DOMAIN new = 1 .. n
               /\ new[offset + 1] = block
               /\ \A i \in 1 .. Len(file) : i # offset + 1 => new[i] = file[i]
               /\ \A i \in Len(file) + 1 .. offset : new[i] = Hole
  <1> DEFINE n == IF offset < Len(file) THEN Len(file) ELSE offset + 1
             new == WriteAt(file, offset, block)
  <1>1. n \in Nat /\ n <= Longest /\ offset + 1 \in 1 .. n /\ Len(file) <= n
    BY Contents, Lengths
  <1>2. new = [i \in 1 .. n |-> IF i = offset + 1 THEN block
                               ELSE IF i <= Len(file) THEN file[i] ELSE Hole]
    BY DEF WriteAt
  <1> HIDE DEF n, new
  <1>3. /\ new[offset + 1] = block
        /\ \A i \in 1 .. Len(file) : i # offset + 1 => new[i] = file[i]
        /\ \A i \in Len(file) + 1 .. offset : new[i] = Hole
    <2>1. /\ \A i \in 1 .. Len(file) : i \in 1 .. n /\ i <= Len(file)
          /\ \A i \in Len(file) + 1 .. offset :
                i \in 1 .. n /\ i # offset + 1 /\ ~(i <= Len(file))
      BY <1>1, Contents
    <2> QED
      BY <1>1, <1>2, <2>1
  <1>4. new \in [1 .. n -> Version \cup {Hole}]
    BY <1>1, <1>2, Contents
  <1>5. new \in Content /\ Len(new) = n
    BY <1>1, <1>4, ContentOf
  <1>6. DOMAIN new = 1 .. n
    BY <1>4
  <1> QED
    BY <1>3, <1>5, <1>6 DEF n, new

LEMMA Products ==
    ASSUME NEW i \in Nat, NEW j \in Nat, NEW s \in Nat
    PROVE  /\ i * s \in Nat
           /\ i <= j => i * s <= j * s
           /\ i * s < j * s => i < j
  OBVIOUS

LEMMA Quotients ==
    ASSUME NEW m \in Nat, NEW n \in Nat, 1 <= n
    PROVE  /\ m \div n \in Nat
           /\ (m \div n) * n <= m
           /\ m < ((m \div n) + 1) * n
  OBVIOUS

LEMMA Ceiling ==
    ASSUME NEW m \in Nat, NEW n \in Nat, 1 <= m, 1 <= n
    PROVE  div_ceil(m, n) \in Nat /\ 1 <= div_ceil(m, n) /\ m <= n * div_ceil(m, n)
  <1> DEFINE k == m + n - 1
             q == k \div n
  <1>1. k \in Nat /\ n <= k
    OBVIOUS
  <1>2. q \in Nat /\ q * n <= k /\ k < (q + 1) * n
    BY <1>1, Quotients
  <1> HIDE DEF q
  <1>3. (q + 1) * n = q * n + n /\ q * n = n * q
    BY <1>2
  <1>4. m <= n * q
    BY <1>2, <1>3
  <1>5. q # 0
    BY <1>4
  <1> QED
    BY <1>2, <1>4, <1>5 DEF q, div_ceil

\* The chunks of `plan_chunks` follow each other from the first block to the last.
LEMMA PlanFacts ==
    ASSUME NEW total \in Nat, 1 <= total, total <= Longest,
           NEW ranges \in BOOLEAN, NEW budget \in Workers, probe.sized \in BOOLEAN
    PROVE  LET plan == plan_chunks(total, ranges, budget)
           IN  /\ plan \in Seq(ChunkSpec)
               /\ 1 <= Len(plan) /\ Len(plan) <= MaxChunks
               /\ ~ranges => Len(plan) = 1
               /\ \A c \in DOMAIN plan : plan[c].committed = plan[c].start
               /\ probe.sized =>
                     /\ \A c \in DOMAIN plan :
                           plan[c].start <= plan[c].end /\ plan[c].end <= total
                     /\ \A c, d \in DOMAIN plan : c < d => plan[c].end <= plan[d].start
                     /\ \A i \in 1 .. total : \E c \in DOMAIN plan :
                           i \in plan[c].start + 1 .. plan[c].end
               /\ ~probe.sized =>
                     /\ Len(plan) = 1
                     /\ \A c \in DOMAIN plan : plan[c].start = 0 /\ plan[c].end = NoEnd
  <1> DEFINE plan  == plan_chunks(total, ranges, budget)
             count == IF ranges THEN Least(budget, total) ELSE 1
             size  == div_ceil(total, count)
             edge(i) == Least(i * size, total)
  <1>0. MaxChunks \in Nat /\ 1 <= MaxChunks /\ budget \in Nat /\ 1 <= budget
        /\ budget <= MaxChunks
    BY TransferAssumption DEF Workers
  <1>1. count \in Nat /\ 1 <= count /\ count <= MaxChunks /\ (~ranges => count = 1)
    BY <1>0 DEF Least
  <1>2. CASE ~probe.sized
    <2>1. plan = << [start |-> 0, end |-> NoEnd, committed |-> 0] >>
      BY <1>2 DEF plan_chunks
    <2>2. [start |-> 0, end |-> NoEnd, committed |-> 0] \in ChunkSpec
      BY Lengths DEF ChunkSpec
    <2> HIDE DEF plan
    <2>3. plan \in Seq(ChunkSpec) /\ Len(plan) = 1 /\ DOMAIN plan = {1}
      BY <2>1, <2>2
    <2>4. plan[1].start = 0 /\ plan[1].end = NoEnd /\ plan[1].committed = 0
      BY <2>1
    <2> QED
      BY <1>0, <1>2, <2>3, <2>4 DEF plan
  <1>3. CASE probe.sized
    <2>1. plan = [i \in 1 .. count |-> [start     |-> edge(i - 1),
                                        end       |-> edge(i),
                                        committed |-> edge(i - 1)]]
      BY <1>3 DEF plan_chunks
    <2> HIDE DEF count
    <2>2. size \in Nat /\ 1 <= size /\ total <= count * size
      BY <1>1, Ceiling
    <2> HIDE DEF plan, size
    <2>3. ASSUME NEW i \in Nat
          PROVE  edge(i) \in Nat /\ edge(i) <= total
      BY <2>2, Products DEF Least
    <2>4. ASSUME NEW i \in Nat, NEW j \in Nat, i <= j
          PROVE  edge(i) <= edge(j)
      <3>1. i * size \in Nat /\ j * size \in Nat /\ i * size <= j * size
        BY <2>2, <2>4, Products
      <3> QED
        BY <3>1 DEF Least
    <2>5. ASSUME NEW i \in 1 .. total
          PROVE  \E c \in 1 .. count : edge(c - 1) < i /\ i <= edge(c)
      <3> DEFINE q == (i - 1) \div size
      <3>1. q \in Nat /\ q * size <= i - 1 /\ i - 1 < (q + 1) * size
        BY <2>2, Quotients
      <3> HIDE DEF q
      <3>2. q * size < count * size
        BY <2>2, <3>1, <1>1
      <3>3. q < count
        BY <1>1, <2>2, <3>1, <3>2, Products
      <3>4. edge(q) < i
        BY <2>2, <3>1, Products DEF Least
      <3>5. i <= edge(q + 1)
        BY <2>2, <3>1, Products DEF Least
      <3>6. q + 1 \in 1 .. count /\ (q + 1) - 1 = q
        BY <1>1, <3>1, <3>3
      <3> QED
        BY <3>4, <3>5, <3>6
    <2> HIDE DEF edge
    <2>6. \A c \in 1 .. count : c \in Nat /\ c - 1 \in Nat /\ c - 1 <= c
      BY <1>1
    <2>7. DOMAIN plan = 1 .. count
      BY <2>1
    <2>8. \A c \in 1 .. count : /\ plan[c].start = edge(c - 1)
                                /\ plan[c].end = edge(c)
                                /\ plan[c].committed = edge(c - 1)
      BY <2>1
    <2>9. \A c \in 1 .. count : plan[c] \in ChunkSpec
      <3> SUFFICES ASSUME NEW c \in 1 .. count PROVE plan[c] \in ChunkSpec
        OBVIOUS
      <3>0. /\ edge(c - 1) \in Nat /\ edge(c - 1) <= total
            /\ edge(c) \in Nat /\ edge(c) <= total
        BY <2>3, <2>6
      <3>1. edge(c - 1) \in 0 .. Longest /\ edge(c) \in 0 .. NoEnd
        BY <3>0, Lengths
      <3>2. plan[c] = [start |-> edge(c - 1), end |-> edge(c), committed |-> edge(c - 1)]
        BY <2>1
      <3> QED
        BY <3>1, <3>2 DEF ChunkSpec
    <2>10. plan \in Seq(ChunkSpec) /\ Len(plan) = count
      <3>1. plan \in [1 .. count -> ChunkSpec]
        BY <2>1, <2>7, <2>9
      <3> QED
        BY <1>1, <3>1
    <2>11. \A c \in 1 .. count : plan[c].start <= plan[c].end /\ plan[c].end <= total
      BY <2>3, <2>4, <2>6, <2>8
    <2>12. \A c, d \in 1 .. count : c < d => plan[c].end <= plan[d].start
      <3> SUFFICES ASSUME NEW c \in 1 .. count, NEW d \in 1 .. count, c < d
                   PROVE  edge(c) <= edge(d - 1)
        BY <2>8
      <3>1. c \in Nat /\ d - 1 \in Nat /\ c <= d - 1
        BY <1>1
      <3> QED
        BY <2>4, <3>1
    <2>13. \A i \in 1 .. total : \E c \in 1 .. count :
              i \in plan[c].start + 1 .. plan[c].end
      <3> SUFFICES ASSUME NEW i \in 1 .. total
                   PROVE  \E c \in 1 .. count : i \in plan[c].start + 1 .. plan[c].end
        OBVIOUS
      <3>1. PICK c \in 1 .. count : edge(c - 1) < i /\ i <= edge(c)
        BY <2>5
      <3>2. edge(c - 1) \in Nat /\ edge(c) \in Nat
        BY <2>3, <2>6
      <3> QED
        BY <2>8, <3>1, <3>2
    <2> QED
      BY <1>1, <1>3, <2>7, <2>8, <2>10, <2>11, <2>12, <2>13 DEF plan
  <1> QED
    BY <1>2, <1>3

-----------------------------------------------------------------------------
(* Types.                                                                  *)

\* What the type invariant says of the plan and the files.
LEMMA TypeFacts ==
    ASSUME TypeOK
    PROVE  /\ DOMAIN chunks = 1 .. Len(chunks) /\ Len(chunks) \in Nat
           /\ DOMAIN chunks \subseteq Workers
           /\ \A c \in DOMAIN chunks :
                 /\ chunks[c].start \in Nat /\ chunks[c].start <= Longest
                 /\ chunks[c].end \in Nat /\ chunks[c].end <= NoEnd
                 /\ chunks[c].committed \in Nat /\ chunks[c].committed <= Longest
           /\ etag \in Nat /\ remote \in Nat /\ probe.version \in Version
           /\ probe.sized \in BOOLEAN /\ probe.ranges \in BOOLEAN
           /\ etag # 0 => etag \in Version
           /\ \A c \in Workers : /\ pos[c] \in Nat /\ pos[c] <= Longest
                                 /\ body[c] \in Nat
                                 /\ body[c] # 0 => body[c] \in Version
           /\ MaxChunks \in Nat /\ 1 <= MaxChunks
  <1>1. chunks \in Seq(ChunkSpec) /\ Len(chunks) <= MaxChunks
    BY DEF TypeOK
  <1>2. DOMAIN chunks = 1 .. Len(chunks) /\ Len(chunks) \in Nat
        /\ \A c \in DOMAIN chunks : chunks[c] \in ChunkSpec
    BY <1>1
  <1>3. MaxChunks \in Nat /\ 1 <= MaxChunks
    BY TransferAssumption
  <1>4. DOMAIN chunks \subseteq Workers
    BY <1>1, <1>2, <1>3 DEF Workers
  <1>5. \A c \in DOMAIN chunks :
                 /\ chunks[c].start \in Nat /\ chunks[c].start <= Longest
                 /\ chunks[c].end \in Nat /\ chunks[c].end <= NoEnd
                 /\ chunks[c].committed \in Nat /\ chunks[c].committed <= Longest
    BY <1>2, Lengths DEF ChunkSpec
  <1>6. \A c \in Workers : /\ pos[c] \in Nat /\ pos[c] <= Longest
                           /\ body[c] \in Nat
                           /\ body[c] # 0 => body[c] \in Version
    <2>1. pos \in [Workers -> 0 .. Longest] /\ body \in [Workers -> Version \cup {0}]
      BY DEF TypeOK
    <2>2. \A c \in Workers : pos[c] \in 0 .. Longest /\ body[c] \in Version \cup {0}
      BY <2>1
    <2>3. \A c \in Workers : pos[c] \in Nat /\ pos[c] <= Longest
      BY <2>2, TransferAssumption
    <2>4. \A c \in Workers : body[c] \in Nat /\ (body[c] # 0 => body[c] \in Version)
      BY <2>2, Versions
    <2> QED
      BY <2>3, <2>4
  <1> QED
    BY <1>2, <1>3, <1>4, <1>5, <1>6, Lengths DEF TypeOK

\* What the files are.
LEMMA FileFacts ==
    ASSUME TypeOK
    PROVE  /\ part # Absent => /\ part \in Content /\ Len(part) \in Nat
                               /\ DOMAIN part = 1 .. Len(part)
                               /\ \A i \in DOMAIN part : part[i] \in Nat
           /\ disk # Absent => /\ disk \in Content /\ Len(disk) \in Nat
                               /\ DOMAIN disk = 1 .. Len(disk)
                               /\ \A i \in DOMAIN disk : disk[i] \in Nat
           /\ final # Absent => /\ final \in Content /\ Len(final) \in Nat
                                /\ DOMAIN final = 1 .. Len(final)
  <1>1. ASSUME NEW file \in Content
        PROVE  /\ Len(file) \in Nat /\ DOMAIN file = 1 .. Len(file)
               /\ \A i \in DOMAIN file : file[i] \in Nat
    <2>1. /\ Len(file) \in Nat /\ DOMAIN file = 1 .. Len(file)
          /\ \A i \in 1 .. Len(file) : file[i] \in Version \cup {Hole}
      BY Contents
    <2> QED
      BY <2>1, Versions DEF Hole
  <1>2. /\ part \in Content \cup {Absent} /\ disk \in Content \cup {Absent}
        /\ final \in Content \cup {Absent}
    BY DEF TypeOK
  <1> QED
    BY <1>1, <1>2

LEMMA ConfirmedFact ==
    \A i : i \in Confirmed <=>
        \E c \in DOMAIN chunks : i \in chunks[c].start + 1 .. chunks[c].committed
  BY DEF Confirmed

\* The file as it is opened.
LEMMA OpenedFacts ==
    ASSUME TypeOK, NEW file \in Content \cup {Absent}
    PROVE  LET there == IF file = Absent THEN <<>> ELSE file
               new   == Opened(file)
           IN  /\ new \in Content /\ DOMAIN new = 1 .. Len(new) /\ Len(new) \in Nat
               /\ there \in Content
               /\ Len(new) = IF probe.sized THEN Length[probe.version] ELSE Len(there)
               /\ \A i \in 1 .. Len(new) :
                     new[i] = IF i <= Len(there) THEN there[i] ELSE Hole
  <1> DEFINE there == IF file = Absent THEN <<>> ELSE file
             new   == Opened(file)
             n     == Length[probe.version]
  <1>1. there \in Content
    BY EmptyContent
  <1>2. n \in Nat /\ n <= Longest
    BY TypeFacts, Lengths
  <1> HIDE DEF there, n
  <1>3. CASE probe.sized
    <2>1. new = SetLen(there, n)
      BY <1>3 DEF Opened, there, n
    <2>2. /\ new \in Content /\ Len(new) = n
          /\ \A i \in 1 .. n : new[i] = IF i <= Len(there) THEN there[i] ELSE Hole
      BY <1>1, <1>2, <2>1, SetLenFacts
    <2> QED
      BY <1>1, <1>2, <1>3, <2>2, Contents DEF there, n
  <1>4. CASE ~probe.sized
    <2>1. new = there
      BY <1>4 DEF Opened, there
    <2>2. Len(there) \in Nat /\ DOMAIN there = 1 .. Len(there)
      BY <1>1, Contents
    <2> QED
      BY <1>1, <1>4, <2>1, <2>2 DEF there
  <1> QED
    BY <1>3, <1>4, TypeFacts

\* Where a worker is at work.
LEMMA AtWork ==
    ASSUME Inv, NEW c \in DOMAIN chunks, wpc[c] \in {"asking", "body", "synced"}
    PROVE  /\ at = "fetch" /\ c \in Workers
           /\ etag = probe.version /\ etag \in Version
           /\ part # Absent /\ part \in Content
           /\ remote \in Version
  <1>1. c \in Workers
    BY TypeFacts DEF Inv
  <1>2. at = "fetch"
    BY <1>1 DEF Inv, AttemptInv
  <1>3. etag = probe.version /\ etag # 0
    BY <1>2 DEF Inv, AttemptInv
  <1>4. part # Absent
    BY <1>2 DEF Inv, FileInv
  <1> QED
    BY <1>1, <1>2, <1>3, <1>4, TypeFacts, FileFacts DEF Inv, TypeOK

LEMMA BodyFacts ==
    ASSUME Inv, NEW c \in DOMAIN chunks, wpc[c] \in {"body", "synced"}
    PROVE  /\ body[c] \in Version
           /\ BodyEnd(c) \in Nat /\ BodyEnd(c) <= Length[body[c]]
           /\ Length[body[c]] \in Nat /\ Length[body[c]] <= Longest
           /\ Len(chunks) > 1 => probe.sized /\ probe.ranges /\ body[c] = etag
  <1>1. c \in Workers
    BY TypeFacts DEF Inv
  <1>2. body[c] # 0 /\ (body[c] = etag \/ (body[c] > etag /\ Len(chunks) = 1))
    BY <1>1 DEF Inv, WorkerInv, OneWorker
  <1>3. body[c] \in Version
    BY <1>1, <1>2, TypeFacts DEF Inv
  <1>4. Len(chunks) > 1 => probe.sized /\ probe.ranges /\ body[c] = etag
    <2>1. Len(chunks) \in Nat
      BY TypeFacts DEF Inv
    <2>0. Len(chunks) > 1 => Len(chunks) # 1
      <3>1. \A n \in Nat : n > 1 => n # 1
        OBVIOUS
      <3> QED
        BY <2>1, <3>1
    <2>2. Len(chunks) > 1 => probe.sized
      BY <2>1 DEF Inv, PlanInv
    <2>3. Len(chunks) > 1 => probe.ranges
      <3>1. at = "fetch"
        BY AtWork
      <3>2. ~probe.ranges => Len(chunks) = 1
        BY <3>1 DEF Inv, AttemptInv
      <3> QED
        BY <2>0, <3>2
    <2>4. Len(chunks) > 1 => body[c] = etag
      BY <1>2, <2>0
    <2> QED
      BY <2>2, <2>3, <2>4
  <1>5. Len(chunks) > 1 => chunks[c].end <= Length[body[c]] /\ chunks[c].end \in Nat
    BY <1>4, TypeFacts DEF Inv, PlanInv
  <1>6. Length[body[c]] \in Nat /\ Length[body[c]] <= Longest
    BY <1>3, Lengths
  <1>7. BodyEnd(c) \in Nat /\ BodyEnd(c) <= Length[body[c]]
    BY <1>5, <1>6 DEF BodyEnd
  <1> QED
    BY <1>3, <1>4, <1>6, <1>7

\* The action of a step that only ends the attempt.
LEMMA NoWorkersType ==
    ASSUME NoWorkers
    PROVE  /\ wpc' \in [Workers -> {"idle", "asking", "body", "synced", "done", "stopped"}]
           /\ pos' \in [Workers -> 0 .. Longest]
           /\ body' \in [Workers -> Version \cup {0}]
           /\ \A c \in Workers : wpc'[c] = "idle" /\ body'[c] = 0
  BY Lengths DEF NoWorkers, Idle

\* What a power failure leaves of the part file.
LEMMA PowerFacts ==
    ASSUME TypeOK, FileInv, PowerLoss, part # Absent
    PROVE  /\ part' \in Content /\ DOMAIN part' = DOMAIN part /\ Len(part') = Len(part)
           /\ \A i \in DOMAIN part : part'[i] \in {part[i], Safe(i)}
           /\ disk' = part'
  <1>1. PICK lost \in SUBSET DOMAIN part :
          part' = [i \in DOMAIN part |->
                      IF i \notin lost THEN part[i]
                      ELSE IF i <= Len(disk) THEN disk[i] ELSE Hole]
    BY DEF PowerLoss
  <1>2. /\ part \in Content /\ Len(part) \in Nat /\ Len(part) <= Longest
        /\ DOMAIN part = 1 .. Len(part)
        /\ \A i \in 1 .. Len(part) : part[i] \in Version \cup {Hole}
    BY FileFacts, Contents
  <1>3. /\ disk \in Content /\ Len(disk) \in Nat /\ DOMAIN disk = 1 .. Len(disk)
        /\ \A i \in 1 .. Len(disk) : disk[i] \in Version \cup {Hole}
    BY FileFacts, Contents DEF FileInv
  <1>4. part' \in [1 .. Len(part) -> Version \cup {Hole}]
    BY <1>1, <1>2, <1>3
  <1>5. part' \in Content /\ Len(part') = Len(part)
    BY <1>2, <1>4, ContentOf
  <1>6. \A i \in DOMAIN part : part'[i] \in {part[i], Safe(i)}
    BY <1>1, <1>2, <1>3 DEF Safe
  <1> QED
    BY <1>2, <1>4, <1>5, <1>6 DEF PowerLoss

LEMMA TypeStep ==
    ASSUME Inv, [Next]_vars
    PROVE  TypeOK'
<1> USE DEF storeVars, fileVars, workerVars, boundVars, historyVars
<1>0. TypeOK
  BY DEF Inv
<1>1. CASE Begin \/ Adopt
  BY <1>0, <1>1 DEF TypeOK, Begin, Adopt, RowState, Step
<1>2. CASE PlanTransfer
  <2>1. PICK ranges \in Ranges :
          /\ probe' = [probe EXCEPT !.version = remote, !.ranges = ranges]
          /\ \/ EndAttempt("failed") /\ UNCHANGED <<chunks, etag>>
             \/ EndAttempt("blocked") /\ UNCHANGED <<chunks, etag>>
             \/ at' = "place" /\ UNCHANGED <<storeVars, halt, workerVars>>
             \/ /\ \E budget \in Workers :
                      chunks' = plan_chunks(Length[remote], ranges, budget)
                /\ etag' = remote
                /\ at' = "place"
                /\ UNCHANGED <<row, halt, workerVars>>
    BY <1>2 DEF PlanTransfer
  <2>2. ranges \in BOOLEAN /\ remote \in Version
    BY <1>0, TransferAssumption DEF TypeOK
  <2>3. probe' \in [version : Version, ranges : BOOLEAN, sized : BOOLEAN]
    BY <1>0, <2>1, <2>2 DEF TypeOK
  <2>4. chunks' \in Seq(ChunkSpec) /\ Len(chunks') <= MaxChunks
    <3>1. \A budget \in Workers :
             LET plan == plan_chunks(Length[remote], ranges, budget)
             IN  plan \in Seq(ChunkSpec) /\ Len(plan) <= MaxChunks
      BY <1>0, <2>2, PlanFacts, Lengths, TypeFacts
    <3> QED
      BY <1>0, <2>1, <3>1 DEF TypeOK
  <2>5. /\ UNCHANGED <<fileVars, remote, discarding, boundVars, historyVars>>
        /\ etag' \in Version \cup {0}
    BY <1>0, <1>2, <2>1, <2>2 DEF PlanTransfer, TypeOK
  <2>6. /\ row' \in RowState /\ at' \in Step
        /\ halt' \in {None, "paused", "transient", "remote_changed"}
        /\ wpc' \in [Workers -> {"idle", "asking", "body", "synced", "done", "stopped"}]
        /\ pos' \in [Workers -> 0 .. Longest]
        /\ body' \in [Workers -> Version \cup {0}]
    BY <1>0, <2>1, NoWorkersType DEF TypeOK, EndAttempt, RowState, Step
  <2> QED
    BY <1>0, <2>3, <2>4, <2>5, <2>6 DEF TypeOK
<1>3. CASE PrepareDestination \/ SettleName
  <2>1. /\ row' \in RowState /\ at' \in Step /\ taken' \in BOOLEAN
        /\ part' \in {part, Absent} /\ disk' \in {disk, Absent} /\ final' \in {final, Absent}
    <3>1. ASSUME NEW policy, NEW next \in RowState, NEW step \in Step,
                 Collision(policy, next, step)
          PROVE  /\ row' \in RowState /\ at' \in Step /\ taken' \in BOOLEAN
                 /\ part' \in {part, Absent} /\ disk' \in {disk, Absent}
                 /\ final' \in {final, Absent}
      BY <1>0, <3>1 DEF TypeOK, Collision, RemovePart, RowState, Step
    <3>2. CASE PrepareDestination
      <4>1. PICK fits \in BOOLEAN :
              LET next == IF fits THEN "downloading" ELSE "blocked"
                  step == IF fits THEN "open" ELSE "idle"
              IN  \/ /\ row' = next /\ at' = step
                     /\ UNCHANGED <<fileVars, taken>>
                  \/ \E policy : Collision(policy, next, step)
        BY <3>2 DEF PrepareDestination
      <4>2. /\ (IF fits THEN "downloading" ELSE "blocked") \in RowState
            /\ (IF fits THEN "open" ELSE "idle") \in Step
        BY DEF RowState, Step
      <4> QED
        BY <1>0, <3>1, <4>1, <4>2 DEF TypeOK
    <3>3. CASE SettleName
      <4>1. \/ at' = "promote" /\ UNCHANGED <<row, fileVars, taken>>
            \/ /\ part' = Absent /\ disk' = Absent /\ at' = "complete"
               /\ UNCHANGED <<row, final, taken>>
            \/ \E policy : Collision(policy, "verifying", "promote")
        BY <3>3 DEF SettleName
      <4>2. "verifying" \in RowState /\ "promote" \in Step /\ "complete" \in Step
        BY DEF RowState, Step
      <4> QED
        BY <1>0, <3>1, <4>1, <4>2 DEF TypeOK
    <3> QED
      BY <1>3, <3>2, <3>3
  <2>2. UNCHANGED <<chunks, etag, remote, probe, halt, workerVars, discarding,
                    boundVars, promoted, verdict>>
    BY <1>3 DEF PrepareDestination, SettleName
  <2> QED
    BY <1>0, <2>1, <2>2 DEF TypeOK
<1>4. CASE OpenPart
  <2>1. Opened(part) \in Content /\ Opened(disk) \in Content
    BY <1>0, OpenedFacts DEF TypeOK
  <2>2. wpc' \in [Workers -> {"idle", "asking", "body", "synced", "done", "stopped"}]
    BY <1>4 DEF OpenPart
  <2> QED
    BY <1>0, <1>4, <2>1, <2>2 DEF TypeOK, OpenPart, Step
<1>5. ASSUME NEW c \in DOMAIN chunks, Worker(c) \/ Break(c)
      PROVE  TypeOK'
  <2>0. c \in Workers
    BY <1>0, TypeFacts
  <2>1. ASSUME NEW why \in {"transient", "remote_changed"}, GiveUp(c, why)
        PROVE  /\ wpc' \in [Workers -> {"idle", "asking", "body", "synced", "done", "stopped"}]
               /\ halt' \in {None, "paused", "transient", "remote_changed"}
    BY <1>0, <2>0, <2>1 DEF TypeOK, GiveUp
  <2>2. ASSUME NEW position \in 0 .. Longest, StartBody(c, position)
        PROVE  /\ wpc' \in [Workers -> {"idle", "asking", "body", "synced", "done", "stopped"}]
               /\ pos' \in [Workers -> 0 .. Longest]
               /\ body' \in [Workers -> Version \cup {0}]
    BY <1>0, <2>0, <2>2 DEF TypeOK, StartBody
  <2>3. chunks[c].committed \in 0 .. Longest /\ chunks[c].start \in 0 .. Longest
    BY <1>0, TypeFacts, Lengths
  <2>4. CASE Respond(c)
    <3>1. \/ \E position \in 0 .. Longest : StartBody(c, position) /\ UNCHANGED halt
          \/ \E why \in {"transient", "remote_changed"} :
                GiveUp(c, why) /\ UNCHANGED <<pos, body>>
      BY <2>3, <2>4 DEF Respond
    <3>2. /\ wpc' \in [Workers -> {"idle", "asking", "body", "synced", "done", "stopped"}]
          /\ pos' \in [Workers -> 0 .. Longest]
          /\ body' \in [Workers -> Version \cup {0}]
          /\ halt' \in {None, "paused", "transient", "remote_changed"}
      BY <1>0, <2>1, <2>2, <3>1 DEF TypeOK
    <3>3. UNCHANGED <<storeVars, fileVars, remote, at, probe, discarding, boundVars,
                      historyVars>>
      BY <2>4 DEF Respond
    <3> QED
      BY <1>0, <3>2, <3>3 DEF TypeOK
  <2>5. CASE WriteBytes(c)
    <3>1. wpc[c] = "body" /\ pos[c] < BodyEnd(c)
      BY <2>5 DEF WriteBytes
    <3>2. pos[c] \in Nat /\ pos[c] < Longest /\ body[c] \in Version /\ part \in Content
      BY <1>0, <2>0, <3>1, TypeFacts, AtWork, BodyFacts, Lengths
    <3>3. WriteAt(part, pos[c], body[c]) \in Content
      BY <3>2, WriteAtFacts
    <3>4. pos[c] + 1 \in 0 .. Longest
      BY <3>2, Lengths
    <3>5. \/ /\ part' = WriteAt(part, pos[c], body[c])
             /\ pos' = [pos EXCEPT ![c] = @ + 1]
             /\ UNCHANGED <<wpc, halt>>
          \/ GiveUp(c, "remote_changed") /\ UNCHANGED <<part, pos>>
      BY <2>5 DEF WriteBytes
    <3>6. /\ wpc' \in [Workers -> {"idle", "asking", "body", "synced", "done", "stopped"}]
          /\ halt' \in {None, "paused", "transient", "remote_changed"}
          /\ pos' \in [Workers -> 0 .. Longest]
          /\ part' \in Content \cup {Absent}
      BY <1>0, <2>0, <2>1, <3>3, <3>4, <3>5 DEF TypeOK
    <3>7. UNCHANGED <<storeVars, disk, final, remote, at, probe, body, discarding,
                      boundVars, historyVars>>
      BY <2>5 DEF WriteBytes
    <3> QED
      BY <1>0, <3>6, <3>7 DEF TypeOK
  <2>6. CASE SyncPart(c) \/ WindDown(c)
    BY <1>0, <2>0, <2>6 DEF TypeOK, SyncPart, WindDown
  <2>7. CASE Checkpoint(c)
    <3>1. pos[c] \in 0 .. Longest
      BY <1>0, <2>0 DEF TypeOK
    <3>2. chunks[c] \in ChunkSpec
      BY <1>0 DEF TypeOK
    <3>3. [chunks[c] EXCEPT !.committed = pos[c]] \in ChunkSpec
      BY <3>1, <3>2 DEF ChunkSpec
    <3>4. chunks' = [chunks EXCEPT ![c] = [chunks[c] EXCEPT !.committed = pos[c]]]
      BY <2>7 DEF Checkpoint
    <3>5. chunks' \in Seq(ChunkSpec) /\ Len(chunks') = Len(chunks)
      BY <1>0, <3>3, <3>4 DEF TypeOK
    <3>6. wpc' \in [Workers -> {"idle", "asking", "body", "synced", "done", "stopped"}]
      BY <1>0, <2>7 DEF TypeOK, Checkpoint
    <3>7. UNCHANGED <<row, etag, fileVars, remote, at, probe, halt, pos, body,
                      discarding, boundVars, historyVars>>
      BY <2>7 DEF Checkpoint
    <3> QED
      BY <1>0, <3>5, <3>6, <3>7 DEF TypeOK
  <2>8. CASE BodyEnds(c)
    <3>1. /\ wpc' \in [Workers -> {"idle", "asking", "body", "synced", "done", "stopped"}]
          /\ halt' \in {None, "paused", "transient", "remote_changed"}
      BY <1>0, <2>0, <2>1, <2>8 DEF TypeOK, BodyEnds
    <3>2. UNCHANGED <<storeVars, fileVars, remote, at, probe, pos, body, discarding,
                      boundVars, historyVars>>
      BY <2>8 DEF BodyEnds
    <3> QED
      BY <1>0, <3>1, <3>2 DEF TypeOK
  <2>9. CASE Break(c)
    <3>1. /\ wpc' \in [Workers -> {"idle", "asking", "body", "synced", "done", "stopped"}]
          /\ halt' \in {None, "paused", "transient", "remote_changed"}
      BY <1>0, <2>0, <2>1, <2>9 DEF TypeOK, Break
    <3>2. stops' \in 0 .. MaxStops
      BY <1>0, <2>9, TransferAssumption DEF TypeOK, Break, Interrupt
    <3>3. UNCHANGED <<storeVars, fileVars, remote, at, probe, pos, body, discarding,
                      discards, historyVars>>
      BY <2>9 DEF Break
    <3> QED
      BY <1>0, <3>1, <3>2, <3>3 DEF TypeOK
  <2> QED
    BY <1>5, <2>4, <2>5, <2>6, <2>7, <2>8, <2>9 DEF Worker
<1>6. CASE SettleComplete \/ SettleStopped \/ GiveUpRecorded \/ CompleteDownload
  BY <1>0, <1>6, NoWorkersType
     DEF TypeOK, SettleComplete, SettleStopped, GiveUpRecorded, CompleteDownload,
         EndAttempt, RowState, Step
<1>7. CASE DiscardPartial \/ Promote
  <2>1. CASE DiscardPartial
    <3>1. taken' \in BOOLEAN /\ part' = Absent /\ disk' = Absent /\ at' \in Step
      BY <1>0, <2>1 DEF TypeOK, DiscardPartial, RemovePart, Step
    <3>2. UNCHANGED <<storeVars, final, remote, probe, halt, workerVars, discarding,
                      boundVars, promoted, verdict>>
      BY <2>1 DEF DiscardPartial
    <3> QED
      BY <1>0, <3>1, <3>2 DEF TypeOK
  <2>2. CASE Promote
    BY <1>0, <2>2 DEF TypeOK, Promote, Step
  <2> QED
    BY <1>7, <2>1, <2>2
<1>8. CASE PromoteFails \/ Crash \/ PowerLoss
  <2>1. EndAttempt(row') /\ row' \in RowState
    BY <1>0, <1>8 DEF TypeOK, PromoteFails, Crash, PowerLoss, Restart, EndAttempt, RowState
  <2>2. stops' \in 0 .. MaxStops
    BY <1>0, <1>8, TransferAssumption DEF TypeOK, PromoteFails, Crash, PowerLoss, Interrupt
  <2>3. part' \in Content \cup {Absent} /\ disk' \in Content \cup {Absent}
    <3>1. CASE UNCHANGED <<part, disk>>
      BY <1>0, <3>1 DEF TypeOK
    <3>2. CASE PowerLoss /\ part = Absent
      BY <3>2 DEF PowerLoss
    <3>3. CASE PowerLoss /\ part # Absent
      BY <1>0, <3>3, PowerFacts DEF Inv
    <3> QED
      BY <1>8, <3>1, <3>2, <3>3 DEF PromoteFails, Crash
  <2>4. /\ UNCHANGED <<chunks, etag, final, remote, probe, discards, historyVars>>
        /\ discarding' \in BOOLEAN
    BY <1>0, <1>8 DEF TypeOK, PromoteFails, Crash, PowerLoss, Restart
  <2>5. /\ wpc' \in [Workers -> {"idle", "asking", "body", "synced", "done", "stopped"}]
        /\ pos' \in [Workers -> 0 .. Longest]
        /\ body' \in [Workers -> Version \cup {0}]
        /\ at' = "idle" /\ halt' = None
    BY <2>1, NoWorkersType DEF EndAttempt
  <2> QED
    BY <1>0, <2>1, <2>2, <2>3, <2>4, <2>5 DEF TypeOK, Step
<1>9. CASE Pause \/ Resume
  BY <1>0, <1>9, TransferAssumption DEF TypeOK, Pause, Resume, Interrupt, RowState
<1>10. CASE RemoteMoves
  BY <1>0, <1>10, Lengths DEF TypeOK, RemoteMoves, Version
<1>11. CASE DiscardUnfinished
  BY <1>0, <1>11, TransferAssumption DEF TypeOK, DiscardUnfinished
<1>12. CASE ResetRow \/ DiscardEnds
  <2>1. <<>> \in Seq(ChunkSpec) /\ Len(<<>>) <= MaxChunks
    BY TransferAssumption
  <2>2. CASE ResetRow
    BY <1>0, <2>1, <2>2 DEF TypeOK, ResetRow, RowState
  <2>3. CASE DiscardEnds
    BY <1>0, <2>3 DEF TypeOK, DiscardEnds
  <2> QED
    BY <1>12, <2>2, <2>3
<1>13. CASE UNCHANGED vars
  BY <1>0, <1>13 DEF TypeOK, vars
<1> QED
  BY <1>1, <1>2, <1>3, <1>4, <1>5, <1>6, <1>7, <1>8, <1>9, <1>10, <1>11, <1>12, <1>13
     DEF Next, Attempt, Between

-----------------------------------------------------------------------------
(* The plan.                                                               *)

\* The steps that change the plan or the host.
LEMMA PlanMoves ==
    ASSUME [Next]_vars
    PROVE  \/ PlanTransfer
           \/ \E c \in DOMAIN chunks : Checkpoint(c)
           \/ RemoteMoves
           \/ ResetRow
           \/ UNCHANGED <<chunks, etag, remote, probe>>
<1> USE DEF storeVars, fileVars, workerVars, boundVars, historyVars
<1>1. CASE Attempt
  <2>1. ASSUME NEW c \in DOMAIN chunks, Worker(c), ~Checkpoint(c)
        PROVE  UNCHANGED <<chunks, etag, remote, probe>>
    BY <2>1 DEF Worker, Respond, WriteBytes, SyncPart, BodyEnds, WindDown
  <2> QED
    BY <1>1, <2>1 DEF Attempt, Begin, Adopt, PrepareDestination, OpenPart, SettleComplete,
                 SettleStopped, DiscardPartial, GiveUpRecorded, SettleName, Promote,
                 CompleteDownload
<1>2. CASE Between
  BY <1>2 DEF Between, Pause, Break, PromoteFails, Crash, PowerLoss, Restart, Resume,
              DiscardUnfinished, DiscardEnds
<1>3. CASE UNCHANGED vars
  BY <1>3 DEF vars
<1> QED
  BY <1>1, <1>2, <1>3 DEF Next

LEMMA CheckpointFacts ==
    ASSUME Inv, NEW c \in DOMAIN chunks, Checkpoint(c)
    PROVE  /\ DOMAIN chunks' = DOMAIN chunks /\ Len(chunks') = Len(chunks)
           /\ \A d \in DOMAIN chunks :
                 /\ chunks'[d].start = chunks[d].start
                 /\ chunks'[d].end = chunks[d].end
                 /\ d # c => chunks'[d].committed = chunks[d].committed
           /\ chunks'[c].committed = pos[c]
           /\ chunks[c].committed <= pos[c] /\ pos[c] <= chunks[c].end
  <1>1. chunks \in Seq(ChunkSpec)
    BY DEF Inv, TypeOK
  <1>2. chunks[c] \in [start : 0 .. Longest, end : 0 .. NoEnd, committed : 0 .. Longest]
    <2>1. chunks[c] \in ChunkSpec
      BY <1>1
    <2> QED
      BY <2>1 DEF ChunkSpec
  <1>3. chunks' = [chunks EXCEPT ![c] = [chunks[c] EXCEPT !.committed = pos[c]]]
    BY DEF Checkpoint
  <1>4. DOMAIN chunks' = DOMAIN chunks /\ Len(chunks') = Len(chunks)
    BY <1>1, <1>3
  <1>5. /\ \A d \in DOMAIN chunks : d # c => chunks'[d] = chunks[d]
        /\ chunks'[c] = [chunks[c] EXCEPT !.committed = pos[c]]
    BY <1>1, <1>3
  <1>6. /\ chunks'[c].start = chunks[c].start /\ chunks'[c].end = chunks[c].end
        /\ chunks'[c].committed = pos[c]
    BY <1>2, <1>5
  <1>7. chunks[c].committed <= pos[c] /\ pos[c] <= chunks[c].end
    BY TypeFacts DEF Inv, WorkerInv, OneWorker, Checkpoint
  <1> QED
    BY <1>4, <1>5, <1>6, <1>7

\* A plan that is made anew.
LEMMA Planned ==
    ASSUME Inv, NEW ranges \in Ranges, NEW budget \in Workers,
           chunks' = plan_chunks(Length[remote], ranges, budget), etag' = remote,
           probe' = [probe EXCEPT !.version = remote, !.ranges = ranges],
           UNCHANGED remote
    PROVE  /\ PlanInv'
           /\ chunks' # <<>>
           /\ ~probe'.ranges => Len(chunks') = 1
           /\ \A c \in DOMAIN chunks' : chunks'[c].committed = chunks'[c].start
  <1>1. ranges \in BOOLEAN /\ remote \in Version /\ remote # 0
    BY TransferAssumption, Versions DEF Inv, TypeOK
  <1>2. probe'.sized = probe.sized /\ probe'.version = remote /\ probe'.ranges = ranges
        /\ probe.sized \in BOOLEAN
    BY DEF Inv, TypeOK
  <1>3. Length[remote] \in Nat /\ 1 <= Length[remote] /\ Length[remote] <= Longest
    BY <1>1, Lengths
  <1> DEFINE plan == plan_chunks(Length[remote], ranges, budget)
  <1>4. /\ plan \in Seq(ChunkSpec)
        /\ 1 <= Len(plan)
        /\ ~ranges => Len(plan) = 1
        /\ \A c \in DOMAIN plan : plan[c].committed = plan[c].start
        /\ probe.sized =>
              /\ \A c \in DOMAIN plan :
                    plan[c].start <= plan[c].end /\ plan[c].end <= Length[remote]
              /\ \A c, d \in DOMAIN plan : c < d => plan[c].end <= plan[d].start
              /\ \A i \in 1 .. Length[remote] : \E c \in DOMAIN plan :
                    i \in plan[c].start + 1 .. plan[c].end
        /\ ~probe.sized =>
              /\ Len(plan) = 1
              /\ \A c \in DOMAIN plan : plan[c].start = 0 /\ plan[c].end = NoEnd
    BY <1>1, <1>2, <1>3, PlanFacts
  <1>5. chunks' = plan
    OBVIOUS
  <1> HIDE DEF plan
  <1>6. chunks' # <<>>
    BY <1>4, <1>5
  <1>7. \A c \in DOMAIN plan : plan[c].start \in Nat /\ plan[c].start <= plan[c].start
    <2>1. \A c \in DOMAIN plan : plan[c] \in ChunkSpec
      BY <1>4
    <2>2. \A c \in DOMAIN plan : plan[c].start \in 0 .. Longest
      BY <2>1 DEF ChunkSpec
    <2> QED
      BY <2>2, Lengths
  <1>8. remote \in Nat /\ remote <= remote
    BY <1>1, Versions
  <1> QED
    BY <1>1, <1>2, <1>4, <1>5, <1>6, <1>7, <1>8 DEF PlanInv

LEMMA PlanStep ==
    ASSUME Inv, [Next]_vars
    PROVE  PlanInv'
<1> USE DEF storeVars, fileVars, workerVars, boundVars, historyVars
<1>0. PlanInv /\ TypeOK
  BY DEF Inv
<1>1. CASE PlanTransfer
  <2>1. PICK ranges \in Ranges :
          /\ probe' = [probe EXCEPT !.version = remote, !.ranges = ranges]
          /\ \/ UNCHANGED <<chunks, etag>>
             \/ /\ \E budget \in Workers :
                      chunks' = plan_chunks(Length[remote], ranges, budget)
                /\ etag' = remote
    BY <1>1 DEF PlanTransfer
  <2>2. UNCHANGED remote
    BY <1>1 DEF PlanTransfer
  <2>3. CASE UNCHANGED <<chunks, etag>>
    <3>1. probe'.version = remote /\ probe'.sized = probe.sized
      BY <1>0, <2>1 DEF TypeOK
    <3>2. remote <= remote
      BY <1>0, TypeFacts
    <3> QED
      BY <1>0, <2>2, <2>3, <3>1, <3>2 DEF PlanInv
  <2> QED
    BY <2>1, <2>2, <2>3, Planned
<1>2. ASSUME NEW c \in DOMAIN chunks, Checkpoint(c)
      PROVE  PlanInv'
  <2>1. UNCHANGED <<etag, remote, probe>>
    BY <1>2 DEF Checkpoint
  <2>2. chunks' # <<>>
    BY <1>2, CheckpointFacts
  <2>3. chunks # <<>>
    OBVIOUS
  <2>4. \A d \in DOMAIN chunks : chunks[d].committed <= chunks'[d].committed
    BY <1>0, <1>2, CheckpointFacts, TypeFacts
  <2>5. \A d \in DOMAIN chunks : chunks'[d].start <= chunks'[d].committed
    <3> SUFFICES ASSUME NEW d \in DOMAIN chunks
                 PROVE  chunks'[d].start <= chunks'[d].committed
      OBVIOUS
    <3>1. chunks'[d].start = chunks[d].start /\ chunks[d].start <= chunks[d].committed
      BY <1>0, <1>2, CheckpointFacts DEF PlanInv
    <3>2. chunks[d].start \in Nat /\ chunks[d].committed \in Nat /\ pos[c] \in Nat
      BY <1>0, TypeFacts
    <3>3. chunks'[d].committed \in Nat
      BY <1>2, <3>2, CheckpointFacts
    <3> QED
      BY <2>4, <3>1, <3>2, <3>3
  <2>6. probe.sized => \A d \in DOMAIN chunks : chunks'[d].committed <= chunks'[d].end
    BY <1>0, <1>2, CheckpointFacts DEF PlanInv
  <2> HIDE DEF Inv
  <2> QED
    BY <1>0, <1>2, <2>1, <2>2, <2>3, <2>5, <2>6, CheckpointFacts DEF PlanInv
<1>3. CASE RemoteMoves
  <2>1. UNCHANGED <<chunks, etag, probe>> /\ remote' = remote + 1
    BY <1>3 DEF RemoteMoves
  <2>2. etag <= remote' /\ probe.version <= remote'
    <3>1. etag \in Nat /\ remote \in Nat /\ probe.version \in Nat
      BY <1>0, TypeFacts, Versions
    <3> QED
      BY <1>0, <2>1, <3>1 DEF PlanInv
  <2> QED
    BY <1>0, <2>1, <2>2 DEF PlanInv
<1>4. CASE ResetRow
  <2>1. chunks' = <<>> /\ etag' = 0 /\ UNCHANGED <<remote, probe>>
    BY <1>4 DEF ResetRow
  <2>2. DOMAIN chunks' = {} /\ Len(chunks') = 0
    BY <2>1
  <2>3. 0 <= remote
    BY <1>0, TypeFacts
  <2> QED
    BY <1>0, <2>1, <2>2, <2>3 DEF PlanInv
<1>5. CASE UNCHANGED <<chunks, etag, remote, probe>>
  BY <1>0, <1>5 DEF PlanInv
<1> QED
  BY <1>1, <1>2, <1>3, <1>4, <1>5, PlanMoves

-----------------------------------------------------------------------------
(* The attempt.                                                            *)

\* An attempt that ends leaves nothing behind.
LEMMA AttemptEnded ==
    ASSUME NEW next, EndAttempt(next), next \notin Working,
           discarding' \in BOOLEAN
    PROVE  AttemptInv'
  BY NoWorkersType DEF EndAttempt, AttemptInv, Working

LEMMA AttemptStep ==
    ASSUME Inv, [Next]_vars
    PROVE  AttemptInv'
<1> USE DEF storeVars, fileVars, workerVars, boundVars, historyVars
<1>0. AttemptInv /\ TypeOK /\ discarding \in BOOLEAN
  BY DEF Inv, TypeOK
<1>1. CASE Begin
  BY <1>0, <1>1 DEF AttemptInv, Begin, Working
<1>2. CASE PlanTransfer
  <2>1. PICK ranges \in Ranges :
          /\ probe' = [probe EXCEPT !.version = remote, !.ranges = ranges]
          /\ \/ EndAttempt("failed")
             \/ EndAttempt("blocked")
             \/ /\ etag = remote /\ HasCommitted /\ ranges
                /\ at' = "place"
                /\ UNCHANGED <<storeVars, halt, workerVars>>
             \/ /\ \E budget \in Workers :
                      chunks' = plan_chunks(Length[remote], ranges, budget)
                /\ etag' = remote
                /\ at' = "place"
                /\ UNCHANGED <<row, halt, workerVars>>
    BY <1>2 DEF PlanTransfer
  <2>2. at = "probe" /\ UNCHANGED <<remote, discarding>> /\ ranges \in BOOLEAN
    BY <1>2, TransferAssumption DEF PlanTransfer
  <2>3. probe'.version = remote /\ probe'.ranges = ranges /\ remote # 0
    BY <1>0, <2>1, Versions DEF TypeOK
  <2>4. CASE EndAttempt("failed") \/ EndAttempt("blocked")
    BY <1>0, <2>2, <2>4, AttemptEnded DEF Working
  <2>5. CASE /\ etag = remote /\ ranges
             /\ at' = "place"
             /\ UNCHANGED <<storeVars, halt, workerVars>>
    BY <1>0, <2>2, <2>3, <2>5 DEF AttemptInv
  <2>6. CASE /\ \E budget \in Workers :
                   chunks' = plan_chunks(Length[remote], ranges, budget)
             /\ etag' = remote
             /\ at' = "place"
             /\ UNCHANGED <<row, halt, workerVars>>
    <3>1. /\ ~probe'.ranges => Len(chunks') = 1
          /\ \A c \in DOMAIN chunks' : chunks'[c].committed = chunks'[c].start
      BY <2>1, <2>2, <2>6, Planned
    <3> QED
      BY <1>0, <2>2, <2>3, <2>6, <3>1 DEF AttemptInv
  <2> QED
    BY <2>1, <2>4, <2>5, <2>6
<1>3. CASE Adopt
  BY <1>0, <1>3 DEF AttemptInv, Adopt, Working
<1>4. CASE PrepareDestination \/ SettleName
  <2>1. /\ UNCHANGED <<chunks, etag, remote, probe, halt, workerVars, discarding>>
        /\ at \in {"place", "verify"}
    BY <1>4 DEF PrepareDestination, SettleName
  <2>2. \/ row' = "downloading" /\ at' = "open" /\ at = "place"
        \/ row' \in {"blocked"} /\ at' = "idle"
        \/ row' = row /\ at' \in {"giving_up", "promote", "complete"}
        \/ row' = "verifying" /\ at' = "promote"
    <3>1. CASE PrepareDestination
      BY <3>1 DEF PrepareDestination, Collision
    <3>2. CASE SettleName
      BY <3>2 DEF SettleName, Collision
    <3> QED
      BY <1>4, <3>1, <3>2
  <2>3. at # "idle" /\ row \in Working /\ ~discarding
    BY <1>0, <2>1 DEF AttemptInv
  <2>4. row' \notin Working <=> at' = "idle"
    BY <2>2, <2>3 DEF Working
  <2> QED
    BY <1>0, <2>1, <2>2, <2>3, <2>4 DEF AttemptInv
<1>5. CASE OpenPart
  BY <1>0, <1>5 DEF AttemptInv, OpenPart
<1>6. ASSUME NEW c \in DOMAIN chunks, Worker(c) \/ Break(c)
      PROVE  AttemptInv'
  <2>1. wpc[c] \in {"asking", "body", "synced"}
    BY <1>6 DEF Worker, Break, Respond, WriteBytes, SyncPart, Checkpoint, BodyEnds, WindDown
  <2>2. at = "fetch"
    BY <2>1, AtWork
  <2>3. UNCHANGED <<row, etag, at, probe, discarding>>
    BY <1>6 DEF Worker, Break, Respond, WriteBytes, SyncPart, Checkpoint, BodyEnds, WindDown
  <2>4. Len(chunks') = Len(chunks)
    <3>1. CASE Checkpoint(c)
      BY <3>1, CheckpointFacts
    <3>2. CASE UNCHANGED chunks
      BY <3>2
    <3> QED
      BY <1>6, <3>1, <3>2 DEF Worker, Break, Respond, WriteBytes, SyncPart, BodyEnds, WindDown
  <2> QED
    BY <1>0, <2>2, <2>3, <2>4 DEF AttemptInv
<1>7. CASE SettleComplete
  BY <1>0, <1>7, NoWorkersType DEF AttemptInv, SettleComplete, Working
<1>8. CASE SettleStopped \/ GiveUpRecorded \/ CompleteDownload \/ PromoteFails
  <2>1. \E next \in RowState \ Working : EndAttempt(next)
    BY <1>8 DEF SettleStopped, GiveUpRecorded, CompleteDownload, PromoteFails, RowState,
                Working
  <2>2. UNCHANGED discarding
    BY <1>8 DEF SettleStopped, GiveUpRecorded, CompleteDownload, PromoteFails
  <2> QED
    BY <1>0, <2>1, <2>2, AttemptEnded
<1>9. CASE DiscardPartial
  <2>1. at = "fetch" /\ AllStopped /\ at' = "giving_up"
        /\ UNCHANGED <<row, chunks, etag, probe, halt, workerVars, discarding>>
    BY <1>9 DEF DiscardPartial
  <2>2. \A c \in Workers : wpc[c] \in {"idle", "done", "stopped"}
    <3>1. \A c \in Workers : wpc[c] # "idle" => c \in DOMAIN chunks
      BY DEF Inv, WorkerInv, OneWorker
    <3> QED
      BY <2>1, <3>1 DEF AllStopped
  <2> QED
    BY <1>0, <2>1, <2>2 DEF AttemptInv
<1>10. CASE Promote
  BY <1>0, <1>10 DEF AttemptInv, Promote
<1>11. CASE Crash \/ PowerLoss
  <2>1. Restart
    BY <1>11 DEF Crash, PowerLoss
  <2>2. \E next : EndAttempt(next) /\ next \notin Working
    BY <2>1 DEF Restart, Working
  <2>3. discarding' \in BOOLEAN
    BY <2>1 DEF Restart
  <2> QED
    BY <2>2, <2>3, AttemptEnded
<1>12. CASE Pause \/ RemoteMoves \/ DiscardUnfinished \/ DiscardEnds
  <2>1. CASE Pause
    BY <1>0, <2>1 DEF AttemptInv, Pause
  <2>2. CASE RemoteMoves
    BY <1>0, <2>2 DEF AttemptInv, RemoteMoves
  <2>3. CASE DiscardUnfinished
    BY <1>0, <2>3 DEF AttemptInv, DiscardUnfinished
  <2>4. CASE DiscardEnds
    BY <1>0, <2>4 DEF AttemptInv, DiscardEnds
  <2> QED
    BY <1>12, <2>1, <2>2, <2>3, <2>4
<1>13. CASE Resume \/ ResetRow
  BY <1>0, <1>13 DEF AttemptInv, Resume, ResetRow, Working
<1>14. CASE UNCHANGED vars
  BY <1>0, <1>14 DEF AttemptInv, vars
<1> QED
  BY <1>1, <1>2, <1>3, <1>4, <1>5, <1>6, <1>7, <1>8, <1>9, <1>10, <1>11, <1>12, <1>13, <1>14
     DEF Next, Attempt, Between

-----------------------------------------------------------------------------
(* The workers.                                                            *)

\* The step of one worker.
LEMMA WorkerMoves ==
    ASSUME Inv, NEW c \in DOMAIN chunks, Worker(c) \/ Break(c)
    PROVE  /\ wpc[c] \in {"asking", "body", "synced"}
           /\ \A d \in Workers : d # c => /\ wpc'[d] = wpc[d] /\ pos'[d] = pos[d]
                                          /\ body'[d] = body[d]
           /\ UNCHANGED <<row, etag, final, remote, at, probe, discarding, historyVars>>
           /\ ~Checkpoint(c) => UNCHANGED chunks
           /\ ~WriteBytes(c) => UNCHANGED part
           /\ ~SyncPart(c) => UNCHANGED disk
  BY DEF Inv, TypeOK, Worker, Break, Respond, WriteBytes, SyncPart, Checkpoint, BodyEnds,
         WindDown, StartBody, GiveUp, storeVars, fileVars, historyVars

\* Where the only chunk starts.
LEMMA OnlyChunk ==
    ASSUME Inv, Len(chunks) = 1, etag # 0
    PROVE  chunks[1].start = 0 /\ (probe.sized => chunks[1].end = Length[etag])
  <1>1. DOMAIN chunks = {1} /\ etag \in Version
    BY TypeFacts DEF Inv
  <1>2. Length[etag] \in Nat /\ 1 <= Length[etag]
    BY <1>1, Lengths
  <1>3. chunks[1].start \in Nat /\ chunks[1].end \in Nat
    BY <1>1, TypeFacts DEF Inv
  <1>4. CASE ~probe.sized
    BY <1>1, <1>4 DEF Inv, PlanInv
  <1>5. CASE probe.sized
    <2>1. /\ 1 \in chunks[1].start + 1 .. chunks[1].end
          /\ Length[etag] \in chunks[1].start + 1 .. chunks[1].end
          /\ chunks[1].end <= Length[etag]
      BY <1>1, <1>2, <1>5 DEF Inv, PlanInv
    <2> QED
      BY <1>2, <1>3, <2>1
  <1> QED
    BY <1>4, <1>5

\* A worker at rest: nothing is asked of it.
LEMMA WorkersIdle ==
    ASSUME \A c \in Workers : wpc'[c] = "idle" /\ body'[c] = 0, at' # "fetch"
    PROVE  WorkerInv'
  BY DEF WorkerInv, OneWorker

LEMMA WorkerStep ==
    ASSUME Inv, [Next]_vars
    PROVE  WorkerInv'
<1> USE DEF storeVars, fileVars, workerVars, boundVars, historyVars
<1>0. WorkerInv /\ AttemptInv /\ PlanInv /\ TypeOK
  BY DEF Inv
<1>1. CASE at' \notin {"fetch", "giving_up"}
  <2>1. AttemptInv'
    BY AttemptStep
  <2> QED
    BY <1>1, <2>1, WorkersIdle DEF AttemptInv
<1>2. CASE PrepareDestination \/ SettleName
  <2>1. at' # "fetch" /\ UNCHANGED workerVars /\ at \in {"place", "verify"}
    <3>1. CASE PrepareDestination
      BY <3>1 DEF PrepareDestination, Collision
    <3>2. CASE SettleName
      BY <3>2 DEF SettleName, Collision
    <3> QED
      BY <1>2, <3>1, <3>2
  <2>2. \A c \in Workers : wpc'[c] = "idle" /\ body'[c] = 0
    BY <1>0, <2>1 DEF AttemptInv
  <2> QED
    BY <2>1, <2>2, WorkersIdle
<1>3. CASE OpenPart
  <2>1. /\ UNCHANGED <<storeVars, remote, probe, pos, body>> /\ at = "open"
        /\ \A c \in Workers : wpc'[c] = IF c \notin DOMAIN chunks THEN "idle"
                                        ELSE IF is_complete(chunks[c]) THEN "done" ELSE "asking"
    BY <1>3 DEF OpenPart
  <2>2. \A c \in Workers : body[c] = 0
    BY <1>0, <2>1 DEF AttemptInv
  <2>3. ~probe.ranges => \A c \in DOMAIN chunks : chunks[c].committed = chunks[c].start
    BY <1>0, <2>1 DEF AttemptInv
  <2> SUFFICES ASSUME NEW c \in Workers PROVE OneWorker(c)'
    BY DEF WorkerInv
  <2> QED
    BY <2>1, <2>2, <2>3 DEF OneWorker, is_complete
<1>4. ASSUME NEW c \in DOMAIN chunks, Worker(c) \/ Break(c)
      PROVE  WorkerInv'
  <2>1. /\ wpc[c] \in {"asking", "body", "synced"}
        /\ \A d \in Workers : d # c => /\ wpc'[d] = wpc[d] /\ pos'[d] = pos[d]
                                       /\ body'[d] = body[d]
        /\ UNCHANGED <<etag, remote, at, probe>>
        /\ ~Checkpoint(c) => UNCHANGED chunks
    BY <1>4, WorkerMoves
  <2>2. /\ at = "fetch" /\ c \in Workers
        /\ etag = probe.version /\ etag \in Version /\ remote \in Version
    BY <2>1, AtWork
  <2>3. ASSUME NEW d \in Workers, d # c
        PROVE  OneWorker(d)'
    <3>1. OneWorker(d)
      BY <1>0 DEF WorkerInv
    <3>2. CASE UNCHANGED chunks
      BY <2>1, <2>3, <3>1, <3>2 DEF OneWorker, is_complete
    <3>3. CASE Checkpoint(c)
      <4>1. /\ DOMAIN chunks' = DOMAIN chunks /\ Len(chunks') = Len(chunks)
            /\ d \in DOMAIN chunks =>
                  /\ chunks'[d].start = chunks[d].start
                  /\ chunks'[d].end = chunks[d].end
                  /\ chunks'[d].committed = chunks[d].committed
        BY <2>3, <3>3, CheckpointFacts
      <4> QED
        BY <2>1, <2>3, <3>1, <4>1 DEF OneWorker, is_complete
    <3> QED
      BY <2>1, <3>2, <3>3
  <2>4. OneWorker(c)'
    <3>0. OneWorker(c) /\ c \in DOMAIN chunks
      BY <1>0, <2>2 DEF WorkerInv
    <3>1. ASSUME wpc'[c] = "stopped", UNCHANGED <<chunks, body>>
          PROVE  OneWorker(c)'
      BY <2>1, <3>0, <3>1 DEF OneWorker
    <3>2. CASE Respond(c)
      <4>1. CASE wpc'[c] = "stopped" /\ UNCHANGED body
        BY <2>1, <3>1, <3>2, <4>1 DEF Respond
      <4>2. wpc[c] = "asking" /\ UNCHANGED chunks
        BY <3>2 DEF Respond
      <4>3. ASSUME NEW position \in Nat, StartBody(c, position),
                   chunks[c].committed <= position, position <= chunks[c].end,
                   position <= Length[remote],
                   remote = etag \/ Len(chunks) = 1
            PROVE  OneWorker(c)'
        <5>1. wpc'[c] = "body" /\ pos'[c] = position /\ body'[c] = remote
          BY <1>0, <2>2, <4>3 DEF StartBody, TypeOK
        <5>2. remote # 0 /\ remote <= remote /\ (remote = etag \/ remote > etag)
          BY <1>0, <2>2, Versions, TypeFacts DEF PlanInv
        <5> QED
          BY <2>1, <3>0, <4>2, <4>3, <5>1, <5>2 DEF OneWorker
      <4>4. chunks[c].committed \in Nat /\ chunks[c].committed <= chunks[c].end
        <5>1. chunks[c].end = NoEnd \/ ~(chunks[c].committed >= chunks[c].end)
          BY <3>0, <4>2 DEF OneWorker, is_complete
        <5> QED
          BY <1>0, <5>1, TypeFacts, Lengths
      <4>5. Len(chunks) = 1 => chunks[c].start = 0 /\ c = 1
        <5>1. Len(chunks) = 1 => c = 1
          BY <1>0, TypeFacts
        <5> QED
          BY <2>2, <5>1, OnlyChunk, Versions
      <4>6. Length[remote] \in Nat
        BY <2>2, Lengths
      <4>7. \/ wpc'[c] = "stopped" /\ UNCHANGED body
            \/ /\ StartBody(c, chunks[c].committed)
               /\ ~probe.ranges \/ (remote = etag /\ chunks[c].committed < Length[remote])
            \/ /\ StartBody(c, chunks[c].start) /\ Len(chunks) = 1
               /\ chunks[c].committed = chunks[c].start
        <5>1. \A why : GiveUp(c, why) => wpc'[c] = "stopped"
          BY <1>0, <2>2 DEF GiveUp, TypeOK
        <5> QED
          BY <2>2, <3>2, <5>1 DEF Respond
      <4>8. CASE StartBody(c, chunks[c].committed) /\ ~probe.ranges
        <5>1. Len(chunks) = 1 /\ chunks[c].committed = chunks[c].start
          BY <1>0, <2>2, <3>0, <4>2, <4>8 DEF AttemptInv, OneWorker
        <5>2. chunks[c].committed = 0 /\ 0 <= Length[remote] /\ 0 <= 0
          BY <4>5, <4>6, <5>1
        <5> QED
          BY <4>3, <4>4, <4>8, <5>1, <5>2
      <4>9. CASE StartBody(c, chunks[c].committed) /\ remote = etag
                 /\ chunks[c].committed < Length[remote]
        BY <4>3, <4>4, <4>6, <4>9
      <4>10. CASE StartBody(c, chunks[c].start) /\ Len(chunks) = 1
                  /\ chunks[c].committed = chunks[c].start
        <5>1. chunks[c].committed = 0 /\ 0 <= Length[remote] /\ 0 <= 0
          BY <4>5, <4>6, <4>10
        <5> QED
          BY <4>3, <4>4, <4>10, <5>1
      <4> QED
        BY <4>1, <4>7, <4>8, <4>9, <4>10
    <3>3. CASE WriteBytes(c)
      <4>1. wpc[c] = "body" /\ pos[c] < BodyEnd(c) /\ UNCHANGED <<chunks, body>>
        BY <3>3 DEF WriteBytes
      <4>2. \/ pos[c] < chunks[c].end /\ pos'[c] = pos[c] + 1 /\ wpc'[c] = wpc[c]
            \/ wpc'[c] = "stopped"
        BY <1>0, <2>2, <3>3 DEF WriteBytes, GiveUp, TypeOK
      <4>3. /\ pos[c] + 1 <= Length[body[c]]
            /\ pos[c] < chunks[c].end => pos[c] + 1 <= chunks[c].end
            /\ chunks[c].committed <= pos[c] => chunks[c].committed <= pos[c] + 1
        BY <1>0, <2>2, <4>1, TypeFacts, BodyFacts
      <4>4. CASE pos[c] < chunks[c].end /\ pos'[c] = pos[c] + 1 /\ wpc'[c] = wpc[c]
        BY <2>1, <3>0, <4>1, <4>3, <4>4 DEF OneWorker
      <4> QED
        BY <3>1, <4>1, <4>2, <4>4
    <3>4. CASE SyncPart(c)
      <4>1. wpc'[c] = "synced" /\ wpc[c] = "body" /\ UNCHANGED <<chunks, pos, body>>
        BY <1>0, <2>2, <3>4 DEF SyncPart, TypeOK
      <4> QED
        BY <2>1, <3>0, <4>1 DEF OneWorker
    <3>5. CASE Checkpoint(c)
      <4>1. wpc'[c] = "body" /\ wpc[c] = "synced" /\ UNCHANGED <<pos, body>>
        BY <1>0, <2>2, <3>5 DEF Checkpoint, TypeOK
      <4>2. /\ DOMAIN chunks' = DOMAIN chunks /\ Len(chunks') = Len(chunks)
            /\ chunks'[c].end = chunks[c].end /\ chunks'[c].committed = pos[c]
        BY <3>5, CheckpointFacts
      <4>3. pos[c] <= pos[c]
        BY <1>0, <2>2, TypeFacts
      <4> QED
        BY <2>1, <3>0, <4>1, <4>2, <4>3 DEF OneWorker
    <3>6. CASE BodyEnds(c)
      <4>1. wpc[c] = "body" /\ pos[c] >= BodyEnd(c) /\ UNCHANGED <<chunks, pos, body>>
        BY <3>6 DEF BodyEnds
      <4>2. \/ /\ chunks[c].end \in {NoEnd, pos[c]} /\ chunks[c].committed = pos[c]
               /\ wpc'[c] = "done"
            \/ wpc'[c] = "stopped"
        BY <1>0, <2>2, <3>6 DEF BodyEnds, GiveUp, TypeOK
      <4>3. Len(chunks) = 1 => pos[c] = Length[body[c]]
        <5>1. Len(chunks) = 1 => BodyEnd(c) = Length[body[c]]
          BY DEF BodyEnd
        <5>2. pos[c] <= Length[body[c]]
          BY <3>0, <4>1 DEF OneWorker
        <5> QED
          BY <1>0, <2>2, <4>1, <5>1, <5>2, TypeFacts, BodyFacts
      <4>4. CASE /\ chunks[c].end \in {NoEnd, pos[c]} /\ chunks[c].committed = pos[c]
                 /\ wpc'[c] = "done"
        BY <2>1, <3>0, <4>1, <4>3, <4>4 DEF OneWorker
      <4> QED
        BY <3>1, <4>1, <4>2, <4>4
    <3>7. CASE WindDown(c) \/ Break(c)
      <4>1. wpc'[c] = "stopped" /\ UNCHANGED <<chunks, body>>
        BY <1>0, <2>2, <3>7 DEF WindDown, Break, GiveUp, TypeOK
      <4> QED
        BY <3>1, <4>1
    <3> QED
      BY <1>4, <3>2, <3>3, <3>4, <3>5, <3>6, <3>7 DEF Worker
  <2> QED
    BY <2>3, <2>4 DEF WorkerInv
<1>5. CASE DiscardPartial \/ Pause \/ DiscardUnfinished \/ DiscardEnds \/ UNCHANGED vars
  <2>1. /\ UNCHANGED <<chunks, etag, remote, probe, workerVars>>
        /\ at' = "fetch" => at = "fetch"
    BY <1>5 DEF DiscardPartial, Pause, DiscardUnfinished, DiscardEnds, vars
  <2> QED
    BY <1>0, <2>1 DEF WorkerInv, OneWorker, is_complete
<1>6. CASE RemoteMoves
  <2>1. UNCHANGED <<chunks, etag, probe, at, workerVars>> /\ remote' = remote + 1
    BY <1>6 DEF RemoteMoves
  <2>2. \A c \in Workers : body[c] <= remote => body[c] <= remote'
    BY <1>0, <2>1, TypeFacts
  <2> QED
    BY <1>0, <2>1, <2>2 DEF WorkerInv, OneWorker, is_complete
<1>7. CASE Resume \/ ResetRow
  <2>1. at = "idle" /\ UNCHANGED at
    BY <1>0, <1>7 DEF Resume, ResetRow, AttemptInv
  <2> QED
    BY <1>1, <2>1
<1>8. CASE Begin \/ PlanTransfer \/ Adopt \/ SettleComplete \/ SettleStopped \/ GiveUpRecorded
           \/ Promote \/ CompleteDownload \/ PromoteFails \/ Crash \/ PowerLoss
  <2>1. at' \notin {"fetch", "giving_up"}
    BY <1>8 DEF Begin, PlanTransfer, Adopt, SettleComplete, SettleStopped, GiveUpRecorded,
                Promote, CompleteDownload, PromoteFails, Crash, PowerLoss, Restart, EndAttempt
  <2> QED
    BY <1>1, <2>1
<1> QED
  BY <1>2, <1>3, <1>4, <1>5, <1>6, <1>7, <1>8 DEF Next, Attempt, Between

-----------------------------------------------------------------------------
(* The files.                                                              *)

\* What a chunk has still to fetch is confirmed by nobody, and is in no other.
LEMMA ChunksApart ==
    ASSUME Inv, NEW c \in DOMAIN chunks, NEW i \in chunks[c].committed + 1 .. chunks[c].end
    PROVE  /\ i \notin Confirmed
           /\ \A d \in DOMAIN chunks : d # c => i \notin chunks[d].start + 1 .. chunks[d].end
  <1>1. /\ chunks[c].start \in Nat /\ chunks[c].committed \in Nat /\ chunks[c].end \in Nat
        /\ chunks[c].start <= chunks[c].committed /\ i \in Nat
    BY TypeFacts DEF Inv, PlanInv
  <1>2. ASSUME NEW d \in DOMAIN chunks, d # c
        PROVE  /\ i \notin chunks[d].start + 1 .. chunks[d].end
               /\ i \notin chunks[d].start + 1 .. chunks[d].committed
    <2>1. /\ chunks[d].start \in Nat /\ chunks[d].committed \in Nat /\ chunks[d].end \in Nat
          /\ DOMAIN chunks = 1 .. Len(chunks) /\ Len(chunks) \in Nat
      BY TypeFacts DEF Inv
    <2>2. probe.sized
      BY <1>2, <2>1 DEF Inv, PlanInv
    <2>3. chunks[d].committed <= chunks[d].end
      BY <2>2 DEF Inv, PlanInv
    <2>4. CASE c < d
      <3>1. chunks[c].end <= chunks[d].start
        BY <2>2, <2>4 DEF Inv, PlanInv
      <3> QED
        BY <1>1, <2>1, <3>1
    <2>5. CASE d < c
      <3>1. chunks[d].end <= chunks[c].start
        BY <2>2, <2>5 DEF Inv, PlanInv
      <3> QED
        BY <1>1, <2>1, <2>3, <3>1
    <2> QED
      BY <1>2, <2>1, <2>4, <2>5
  <1>3. i \notin chunks[c].start + 1 .. chunks[c].committed
    BY <1>1
  <1> QED
    BY <1>2, <1>3, ConfirmedFact

\* The block a worker writes is its own, and is confirmed by nobody.
LEMMA WriteFacts ==
    ASSUME Inv, NEW c \in DOMAIN chunks, WriteBytes(c), part' # part
    PROVE  /\ wpc[c] = "body" /\ c \in Workers
           /\ part' = WriteAt(part, pos[c], body[c])
           /\ wpc' = wpc /\ pos'[c] = pos[c] + 1 /\ UNCHANGED <<chunks, disk, body>>
           /\ pos[c] \in Nat /\ pos[c] < Longest /\ body[c] \in Version /\ part \in Content
           /\ pos[c] < BodyEnd(c)
           /\ pos[c] + 1 \in chunks[c].committed + 1 .. chunks[c].end
           /\ pos[c] + 1 \notin Confirmed
           /\ \A d \in DOMAIN chunks : d # c =>
                 pos[c] + 1 \notin chunks[d].start + 1 .. chunks[d].end
  <1>1. /\ wpc[c] = "body" /\ pos[c] < BodyEnd(c) /\ UNCHANGED <<chunks, disk, body>>
        /\ pos[c] < chunks[c].end
        /\ part' = WriteAt(part, pos[c], body[c])
        /\ pos' = [pos EXCEPT ![c] = @ + 1]
        /\ wpc' = wpc
    BY DEF WriteBytes, storeVars
  <1>2. c \in Workers /\ part \in Content
    BY <1>1, AtWork
  <1>3. /\ body[c] \in Version /\ BodyEnd(c) \in Nat /\ BodyEnd(c) <= Longest
        /\ pos[c] \in Nat
        /\ chunks[c].committed \in Nat /\ chunks[c].end \in Nat
    BY <1>1, <1>2, BodyFacts, TypeFacts, Lengths DEF Inv
  <1>4. chunks[c].committed <= pos[c]
    BY <1>1, <1>2 DEF Inv, WorkerInv, OneWorker
  <1>5. pos[c] + 1 \in chunks[c].committed + 1 .. chunks[c].end
    BY <1>1, <1>3, <1>4
  <1>6. pos'[c] = pos[c] + 1
    BY <1>1, <1>2 DEF Inv, TypeOK
  <1>7. pos[c] < Longest
    BY <1>1, <1>3, Lengths
  <1> QED
    BY <1>1, <1>2, <1>3, <1>5, <1>6, <1>7, ChunksApart

\* What a checkpoint confirms.
LEMMA NewlyConfirmed ==
    ASSUME Inv, NEW c \in DOMAIN chunks, Checkpoint(c)
    PROVE  /\ Confirmed' = Confirmed \cup (chunks[c].committed + 1 .. pos[c])
           /\ c \in Workers /\ wpc[c] = "synced" /\ wpc'[c] = "body"
           /\ UNCHANGED <<row, etag, fileVars, remote, at, probe, halt, pos, body,
                          discarding, boundVars, historyVars>>
  <1>1. c \in Workers
    BY TypeFacts DEF Inv
  <1>2. /\ wpc[c] = "synced" /\ wpc'[c] = "body"
        /\ UNCHANGED <<row, etag, fileVars, remote, at, probe, halt, pos, body,
                       discarding, boundVars, historyVars>>
    BY <1>1 DEF Inv, TypeOK, Checkpoint
  <1>3. \A i : i \in Confirmed' <=>
           \E d \in DOMAIN chunks' : i \in chunks'[d].start + 1 .. chunks'[d].committed
    BY DEF Confirmed
  <1>4. /\ chunks[c].start \in Nat /\ chunks[c].committed \in Nat /\ pos[c] \in Nat
        /\ chunks[c].start <= chunks[c].committed /\ chunks[c].committed <= pos[c]
    BY <1>1, CheckpointFacts, TypeFacts DEF Inv, PlanInv
  <1>5. \A i : i \in chunks[c].start + 1 .. pos[c] <=>
           \/ i \in chunks[c].start + 1 .. chunks[c].committed
           \/ i \in chunks[c].committed + 1 .. pos[c]
    BY <1>4
  <1>6. /\ DOMAIN chunks' = DOMAIN chunks
        /\ chunks'[c].start = chunks[c].start /\ chunks'[c].committed = pos[c]
        /\ \A d \in DOMAIN chunks : d # c =>
              chunks'[d].start = chunks[d].start /\ chunks'[d].committed = chunks[d].committed
    BY CheckpointFacts
  <1>7. \A i : i \in Confirmed' <=>
           i \in Confirmed \/ i \in chunks[c].committed + 1 .. pos[c]
    BY <1>3, <1>5, <1>6, ConfirmedFact
  <1> QED
    BY <1>1, <1>2, <1>7

\* A new plan, and a forgotten one, confirm nothing.
LEMMA NothingConfirmed ==
    ASSUME TypeOK, \A c \in DOMAIN chunks : chunks[c].committed = chunks[c].start
    PROVE  Confirmed = {}
  <1>1. \A c \in DOMAIN chunks : chunks[c].start + 1 .. chunks[c].committed = {}
    BY TypeFacts
  <1> QED
    BY <1>1, ConfirmedFact

LEMMA Committed == TypeOK /\ PlanInv => (HasCommitted <=> Confirmed # {})
  <1> SUFFICES ASSUME TypeOK, PlanInv PROVE HasCommitted <=> Confirmed # {}
    OBVIOUS
  <1>1. ASSUME HasCommitted PROVE Confirmed # {}
    <2>1. PICK c \in DOMAIN chunks : chunks[c].committed > chunks[c].start
      BY <1>1 DEF HasCommitted
    <2>2. chunks[c].start + 1 \in chunks[c].start + 1 .. chunks[c].committed
      BY <2>1, TypeFacts
    <2> QED
      BY <2>2, ConfirmedFact
  <1>2. ASSUME ~HasCommitted PROVE Confirmed = {}
    <2>1. \A c \in DOMAIN chunks : chunks[c].committed = chunks[c].start
      BY <1>2, TypeFacts DEF HasCommitted, PlanInv
    <2> QED
      BY <2>1, NothingConfirmed
  <1> QED
    BY <1>1, <1>2

LEMMA FileStep ==
    ASSUME Inv, [Next]_vars
    PROVE  FileInv'
<1> USE DEF storeVars, fileVars, workerVars, boundVars, historyVars
<1>0. FileInv /\ AttemptInv /\ PlanInv /\ WorkerInv /\ TypeOK
  BY DEF Inv
<1>a. AttemptInv' /\ TypeOK' /\ WorkerInv'
  BY AttemptStep, TypeStep, WorkerStep
<1>b. at' # "fetch" => \A c \in Workers : wpc'[c] \notin {"body", "synced"}
  BY <1>a DEF AttemptInv
<1>1. ASSUME \/ UNCHANGED chunks
             \/ Confirmed' = {},
             UNCHANGED <<part, disk>> \/ (part' = Absent /\ disk' = Absent),
             at' \notin {"fetch", "verify", "promote"}
      PROVE  FileInv'
  <2>1. \A c \in Workers : wpc'[c] \notin {"body", "synced"}
    BY <1>b, <1>1
  <2>2. Confirmed' \subseteq Confirmed
    BY <1>1 DEF Confirmed
  <2>3. CASE UNCHANGED <<part, disk>>
    BY <1>0, <1>1, <2>1, <2>2, <2>3 DEF FileInv, Safe
  <2>4. CASE part' = Absent /\ disk' = Absent
    BY <1>1, <2>1, <2>4 DEF FileInv
  <2> QED
    BY <1>1, <2>3, <2>4
<1>2. CASE Begin \/ Adopt \/ SettleStopped \/ GiveUpRecorded \/ CompleteDownload
           \/ PromoteFails \/ Crash \/ DiscardPartial \/ Promote
  <2>1. /\ UNCHANGED chunks
        /\ at' \notin {"fetch", "verify", "promote"}
        /\ UNCHANGED <<part, disk>> \/ (part' = Absent /\ disk' = Absent)
    BY <1>2 DEF Begin, Adopt, SettleStopped, GiveUpRecorded, CompleteDownload, PromoteFails,
                Crash, DiscardPartial, Promote, Restart, EndAttempt, RemovePart
  <2> QED
    BY <1>1, <2>1
<1>3. CASE Resume \/ DiscardUnfinished \/ DiscardEnds \/ ResetRow
  <2>1. at' = "idle"
    BY <1>0, <1>3 DEF Resume, DiscardUnfinished, DiscardEnds, ResetRow, AttemptInv
  <2>2. UNCHANGED <<part, disk>> \/ (part' = Absent /\ disk' = Absent)
    BY <1>3 DEF Resume, DiscardUnfinished, DiscardEnds, ResetRow
  <2>3. CASE UNCHANGED chunks
    BY <1>1, <2>1, <2>2, <2>3
  <2>4. CASE chunks' = <<>>
    <3>1. Confirmed' = {}
      BY <2>4 DEF Confirmed
    <3> QED
      BY <1>1, <2>1, <2>2, <3>1
  <2> QED
    BY <1>3, <2>3, <2>4 DEF Resume, DiscardUnfinished, DiscardEnds, ResetRow
<1>4. CASE PlanTransfer
  <2>1. /\ UNCHANGED <<part, disk, remote>>
        /\ at' \in {"idle", "place"}
        /\ \E ranges \in Ranges :
             /\ probe' = [probe EXCEPT !.version = remote, !.ranges = ranges]
             /\ \/ UNCHANGED chunks
                \/ /\ etag' = remote
                   /\ \E budget \in Workers :
                         chunks' = plan_chunks(Length[remote], ranges, budget)
    BY <1>4 DEF PlanTransfer, EndAttempt
  <2>2. CASE UNCHANGED chunks
    BY <1>1, <2>1, <2>2
  <2>3. CASE \A c \in DOMAIN chunks' : chunks'[c].committed = chunks'[c].start
    <3>1. \A c \in DOMAIN chunks' : chunks'[c].start \in Nat
      <4>1. \A c \in DOMAIN chunks' : chunks'[c] \in ChunkSpec
        BY <1>a DEF TypeOK
      <4> QED
        BY <4>1, Lengths DEF ChunkSpec
    <3>2. \A c \in DOMAIN chunks' : chunks'[c].start + 1 .. chunks'[c].committed = {}
      BY <2>3, <3>1
    <3>3. Confirmed' = {}
      BY <3>2 DEF Confirmed
    <3> QED
      BY <1>1, <2>1, <3>3
  <2> QED
    BY <2>1, <2>2, <2>3, Planned
<1>5. CASE PrepareDestination \/ SettleName
  <2>1. /\ UNCHANGED <<chunks, etag, probe, workerVars>>
        /\ UNCHANGED <<part, disk>> \/ (part' = Absent /\ disk' = Absent)
        /\ at' \notin {"fetch", "verify"}
        /\ at' = "promote" => at = "verify" /\ UNCHANGED <<part, disk>>
    <3>1. CASE PrepareDestination
      BY <3>1 DEF PrepareDestination, Collision, RemovePart
    <3>2. CASE SettleName
      BY <3>2 DEF SettleName, Collision, RemovePart
    <3> QED
      BY <1>5, <3>1, <3>2
  <2>2. CASE at' = "promote"
    <3>1. \A c \in Workers : wpc'[c] \notin {"body", "synced"}
      BY <1>b, <2>2
    <3> QED
      BY <1>0, <2>1, <2>2, <3>1 DEF FileInv, Safe, Confirmed
  <2> QED
    BY <1>1, <2>1, <2>2
<1>6. CASE OpenPart
  <2>1. /\ part' = Opened(part) /\ disk' = Opened(disk) /\ at = "open" /\ at' = "fetch"
        /\ UNCHANGED <<chunks, etag, probe>>
        /\ \A c \in Workers : wpc'[c] \notin {"body", "synced"}
    BY <1>6 DEF OpenPart
  <2>2. etag = probe.version /\ etag \in Version
    BY <1>0, <2>1, TypeFacts DEF AttemptInv
  <2> DEFINE p == IF part = Absent THEN <<>> ELSE part
             d == IF disk = Absent THEN <<>> ELSE disk
  <2>3. /\ part' \in Content /\ DOMAIN part' = 1 .. Len(part') /\ Len(part') \in Nat
        /\ p \in Content
        /\ Len(part') = IF probe.sized THEN Length[probe.version] ELSE Len(p)
        /\ \A i \in 1 .. Len(part') : part'[i] = IF i <= Len(p) THEN p[i] ELSE Hole
    BY <1>0, <2>1, OpenedFacts DEF TypeOK
  <2>4. /\ disk' \in Content /\ DOMAIN disk' = 1 .. Len(disk') /\ Len(disk') \in Nat
        /\ d \in Content
        /\ Len(disk') = IF probe.sized THEN Length[probe.version] ELSE Len(d)
        /\ \A i \in 1 .. Len(disk') : disk'[i] = IF i <= Len(d) THEN d[i] ELSE Hole
    BY <1>0, <2>1, OpenedFacts DEF TypeOK
  <2>5. /\ Len(p) \in Nat /\ Len(d) \in Nat /\ Len(d) <= Len(p)
        /\ DOMAIN p = 1 .. Len(p) /\ DOMAIN d = 1 .. Len(d)
    <3>1. Len(d) <= Len(p)
      <4>1. CASE part = Absent
        BY <1>0, <4>1, EmptyContent DEF FileInv
      <4>2. CASE part # Absent
        BY <1>0, <4>2 DEF FileInv
      <4> QED
        BY <4>1, <4>2
    <3> QED
      BY <2>3, <2>4, <3>1, Contents
  <2>6. \A i \in Confirmed : i \in 1 .. Len(p) =>
           p[i] = IF i \in 1 .. Len(d) THEN d[i] ELSE Hole
    <3>1. CASE part = Absent
      BY <3>1, EmptyContent
    <3>2. CASE part # Absent
      BY <1>0, <2>5, <3>2 DEF FileInv, Safe
    <3> QED
      BY <3>1, <3>2
  <2> HIDE DEF p, d
  <2>7. \A i \in Confirmed : i \in DOMAIN part' =>
           part'[i] = IF i \in DOMAIN disk' THEN disk'[i] ELSE Hole
    <3> SUFFICES ASSUME NEW i \in Confirmed, i \in 1 .. Len(part')
                 PROVE  part'[i] = IF i \in 1 .. Len(disk') THEN disk'[i] ELSE Hole
      BY <2>3, <2>4
    <3>1. i \in Nat /\ 1 <= i
      BY <2>3
    <3>2. CASE i <= Len(p)
      BY <2>3, <2>4, <2>5, <2>6, <3>1, <3>2
    <3>3. CASE ~(i <= Len(p))
      BY <2>3, <2>4, <2>5, <3>1, <3>3
    <3> QED
      BY <3>2, <3>3
  <2>8. part' # Absent /\ disk' # Absent /\ Len(disk') <= Len(part')
    BY <2>3, <2>4, <2>5, Contents
  <2>9. probe.sized => Len(part') = Length[etag]
    BY <2>2, <2>3
  <2> QED
    BY <2>1, <2>7, <2>8, <2>9 DEF FileInv, Safe, Confirmed
<1>7. ASSUME NEW c \in DOMAIN chunks, Worker(c) \/ Break(c)
      PROVE  FileInv'
  <2>1. /\ wpc[c] \in {"asking", "body", "synced"}
        /\ \A d \in Workers : d # c => /\ wpc'[d] = wpc[d] /\ pos'[d] = pos[d]
                                       /\ body'[d] = body[d]
        /\ UNCHANGED <<etag, at, probe>>
        /\ ~Checkpoint(c) => UNCHANGED chunks
        /\ ~WriteBytes(c) => UNCHANGED part
        /\ ~SyncPart(c) => UNCHANGED disk
    BY <1>7, WorkerMoves
  <2>2. at = "fetch" /\ c \in Workers /\ part # Absent /\ part \in Content
    BY <2>1, AtWork
  <2>3. /\ Len(part) \in Nat /\ DOMAIN part = 1 .. Len(part)
        /\ disk # Absent /\ Len(disk) \in Nat /\ DOMAIN disk = 1 .. Len(disk)
        /\ Len(disk) <= Len(part)
    BY <1>0, <2>2, FileFacts DEF FileInv
  <2>4. CASE UNCHANGED <<chunks, part, disk>> /\ wpc'[c] \notin {"body", "synced"}
    BY <1>0, <2>1, <2>4 DEF FileInv, Safe, Confirmed
  <2>5. CASE Respond(c)
    <3>1. wpc[c] = "asking" /\ UNCHANGED <<chunks, part, disk>>
      BY <2>5 DEF Respond
    <3>2. CASE wpc'[c] = "body"
      <4>1. pos'[c] = chunks[c].committed
        BY <1>0, <2>2, <2>5, <3>2 DEF Respond, StartBody, GiveUp, TypeOK
      <4>2. chunks[c].committed + 1 .. pos'[c] = {}
        BY <1>0, <4>1, TypeFacts
      <4> QED
        BY <1>0, <2>1, <3>1, <3>2, <4>2 DEF FileInv, Safe, Confirmed
    <3>3. CASE wpc'[c] = "stopped"
      BY <2>4, <3>1, <3>3
    <3> QED
      BY <1>0, <2>2, <2>5, <3>2, <3>3 DEF Respond, StartBody, GiveUp, TypeOK
  <2>6. CASE WriteBytes(c) /\ part' # part
    <3> DEFINE n == IF pos[c] < Len(part) THEN Len(part) ELSE pos[c] + 1
    <3>1. /\ wpc[c] = "body"
          /\ wpc' = wpc /\ pos'[c] = pos[c] + 1 /\ UNCHANGED <<chunks, disk, body>>
          /\ pos[c] \in Nat
          /\ pos[c] + 1 \in chunks[c].committed + 1 .. chunks[c].end
          /\ pos[c] + 1 \notin Confirmed
          /\ \A d \in DOMAIN chunks : d # c =>
                pos[c] + 1 \notin chunks[d].start + 1 .. chunks[d].end
      BY <2>6, WriteFacts
    <3>2. /\ part' \in Content /\ Len(part') = n /\ DOMAIN part' = 1 .. n
          /\ part'[pos[c] + 1] = body[c]
          /\ \A i \in 1 .. Len(part) : i # pos[c] + 1 => part'[i] = part[i]
          /\ \A i \in Len(part) + 1 .. pos[c] : part'[i] = Hole
      BY <2>6, WriteFacts, WriteAtFacts
    <3>3. n \in Nat /\ Len(part) <= n /\ pos[c] + 1 \in 1 .. n
      BY <2>3, <3>1
    <3>4. probe.sized => n = Len(part)
      <4> SUFFICES ASSUME probe.sized PROVE pos[c] < Len(part)
        OBVIOUS
      <4>1. Len(part) = Length[etag]
        BY <1>0, <2>2 DEF FileInv
      <4>2. chunks[c].end <= Length[etag] /\ chunks[c].end \in Nat
            /\ chunks[c].committed \in Nat
        BY <1>0, TypeFacts DEF PlanInv
      <4> QED
        BY <2>3, <3>1, <4>1, <4>2
    <3>5. ASSUME NEW i \in Confirmed, i \in 1 .. n
          PROVE  part'[i] = Safe(i)
      <4>1. i # pos[c] + 1
        BY <3>1, <3>5
      <4>2. CASE i <= Len(part)
        <5>1. part[i] = Safe(i)
          BY <1>0, <2>2, <2>3, <3>5, <4>2 DEF FileInv
        <5> QED
          BY <2>3, <3>2, <3>5, <4>1, <4>2, <5>1
      <4>3. CASE ~(i <= Len(part))
        <5>1. i \in Len(part) + 1 .. pos[c]
          BY <2>3, <3>1, <3>5, <4>1, <4>3
        <5>2. i \notin DOMAIN disk
          BY <2>3, <3>1, <5>1
        <5> QED
          BY <3>2, <5>1, <5>2 DEF Safe
      <4> QED
        BY <4>2, <4>3
    <3>6. ASSUME NEW d \in Workers, wpc[d] \in {"body", "synced"},
                 NEW i \in chunks[d].committed + 1 .. pos'[d]
          PROVE  /\ i \in 1 .. n
                 /\ part'[i] = body[d]
                 /\ wpc[d] = "synced" => part'[i] = Safe(i)
      <4>1. CASE d = c /\ i = pos[c] + 1
        BY <3>1, <3>2, <3>3, <4>1
      <4>2. CASE d # c \/ i # pos[c] + 1
        <5>1. /\ d \in DOMAIN chunks /\ pos[d] \in Nat /\ chunks[d].committed \in Nat
              /\ chunks[d].start \in Nat /\ chunks[d].end \in Nat
              /\ chunks[d].start <= chunks[d].committed /\ pos[d] <= chunks[d].end
          BY <1>0, <3>6, TypeFacts DEF WorkerInv, OneWorker, PlanInv
        <5>2. i \in chunks[d].committed + 1 .. pos[d]
          BY <2>1, <3>1, <3>6, <4>2, <5>1
        <5>3. i # pos[c] + 1
          BY <3>1, <4>2, <5>1, <5>2
        <5>4. /\ i \in 1 .. Len(part) /\ part[i] = body[d]
              /\ wpc[d] = "synced" => part[i] = Safe(i)
          BY <1>0, <2>3, <3>6, <5>2 DEF FileInv
        <5> QED
          BY <2>3, <3>2, <3>3, <5>3, <5>4
      <4> QED
        BY <4>1, <4>2
    <3>7. part' # Absent
      BY <3>2, Contents
    <3>8. Len(disk) <= n
      BY <2>3, <3>3
    <3>9. \A i : Safe(i)' = Safe(i)
      BY <3>1 DEF Safe
    <3>10. Confirmed' = Confirmed
      BY <3>1 DEF Confirmed
    <3> HIDE DEF n
    <3> QED
      BY <1>0, <2>1, <2>2, <2>3, <3>1, <3>2, <3>4, <3>5, <3>6, <3>7, <3>8, <3>9, <3>10
         DEF FileInv
  <2>7. CASE WriteBytes(c) /\ part' = part
    <3>1. /\ UNCHANGED <<chunks, part, disk>>
          /\ wpc'[c] = "stopped" \/ (wpc' = wpc /\ pos'[c] = pos[c] + 1 /\ body' = body)
      BY <1>0, <2>2, <2>7 DEF WriteBytes, GiveUp, TypeOK
    <3>2. CASE wpc' = wpc /\ pos'[c] = pos[c] + 1 /\ body' = body
      <4>1. /\ wpc[c] = "body" /\ part' = WriteAt(part, pos[c], body[c])
            /\ pos[c] < BodyEnd(c)
        BY <1>0, <2>2, <2>7, <3>2 DEF WriteBytes, GiveUp, TypeOK
      <4>2. /\ pos[c] \in Nat /\ pos[c] < Longest /\ body[c] \in Version
            /\ chunks[c].committed \in Nat
        BY <1>0, <2>2, <4>1, TypeFacts, BodyFacts, Lengths
      <4>3. pos[c] + 1 \in DOMAIN part /\ part[pos[c] + 1] = body[c]
        BY <2>2, <2>3, <2>7, <4>1, <4>2, WriteAtFacts
      <4>4. \A i \in chunks[c].committed + 1 .. pos[c] + 1 :
               i = pos[c] + 1 \/ i \in chunks[c].committed + 1 .. pos[c]
        BY <4>2
      <4>5. \A i \in chunks[c].committed + 1 .. pos'[c] :
               i \in DOMAIN part /\ part[i] = body[c]
        BY <1>0, <2>2, <3>2, <4>1, <4>3, <4>4 DEF FileInv
      <4> QED
        BY <1>0, <2>1, <2>7, <3>1, <3>2, <4>1, <4>5 DEF FileInv, Safe, Confirmed
    <3> QED
      BY <2>4, <3>1, <3>2
  <2>8. CASE SyncPart(c)
    <3>1. disk' = part /\ wpc[c] = "body" /\ wpc'[c] = "synced"
          /\ UNCHANGED <<chunks, part, pos, body>>
      BY <1>0, <2>2, <2>8 DEF SyncPart, TypeOK
    <3>2. \A i \in DOMAIN part : Safe(i)' = part[i]
      BY <3>1 DEF Safe
    <3>3. Len(part) <= Len(part)
      BY <2>3
    <3>4. Confirmed' = Confirmed
      BY <3>1 DEF Confirmed
    <3> QED
      BY <1>0, <2>1, <2>2, <3>1, <3>2, <3>3, <3>4 DEF FileInv
  <2>9. CASE Checkpoint(c)
    <3>1. /\ Confirmed' = Confirmed \cup (chunks[c].committed + 1 .. pos[c])
          /\ wpc[c] = "synced" /\ wpc'[c] = "body"
          /\ UNCHANGED <<part, disk, pos, body>>
      BY <2>9, NewlyConfirmed
    <3>2. /\ chunks'[c].committed = pos[c] /\ pos[c] \in Nat
          /\ \A d \in DOMAIN chunks : d # c => chunks'[d].committed = chunks[d].committed
      BY <1>0, <2>2, <2>9, CheckpointFacts, TypeFacts
    <3>3. chunks'[c].committed + 1 .. pos'[c] = {}
      BY <3>1, <3>2
    <3>4. \A d \in Workers : wpc[d] \in {"body", "synced"} => d \in DOMAIN chunks
      BY <1>0 DEF WorkerInv, OneWorker
    <3>5. \A i \in Confirmed' : i \in DOMAIN part => part[i] = Safe(i)
      BY <1>0, <2>2, <3>1 DEF FileInv
    <3>6. \A i : Safe(i)' = Safe(i)
      BY <3>1 DEF Safe
    <3>7. ASSUME NEW d \in Workers, wpc'[d] \in {"body", "synced"},
                 NEW i \in chunks'[d].committed + 1 .. pos'[d]
          PROVE  /\ i \in DOMAIN part /\ part[i] = body[d]
                 /\ wpc'[d] = "synced" => part[i] = Safe(i)
      BY <1>0, <2>1, <3>1, <3>2, <3>3, <3>4, <3>7 DEF FileInv
    <3> QED
      BY <1>0, <2>1, <2>2, <3>1, <3>5, <3>6, <3>7 DEF FileInv
  <2>10. CASE BodyEnds(c) \/ WindDown(c) \/ Break(c)
    <3>1. UNCHANGED <<chunks, part, disk>> /\ wpc'[c] \notin {"body", "synced"}
      BY <1>0, <2>2, <2>10 DEF BodyEnds, WindDown, Break, GiveUp, TypeOK
    <3> QED
      BY <2>4, <3>1
  <2> QED
    BY <1>7, <2>5, <2>6, <2>7, <2>8, <2>9, <2>10 DEF Worker
<1>8. CASE SettleComplete
  <2>1. /\ at = "fetch" /\ at' = "verify" /\ disk' = part
        /\ UNCHANGED <<chunks, etag, part, probe>>
    BY <1>8 DEF SettleComplete
  <2>2. part # Absent /\ (probe.sized => Len(part) = Length[etag])
    BY <1>0, <2>1 DEF FileInv
  <2>3. \A c \in Workers : wpc'[c] \notin {"body", "synced"}
    BY <1>b, <2>1
  <2>4. Len(part) <= Len(part)
    BY <1>0, <2>2, FileFacts
  <2> QED
    BY <2>1, <2>2, <2>3, <2>4 DEF FileInv, Safe
<1>9. CASE PowerLoss
  <2>1. UNCHANGED chunks /\ at' = "idle"
    BY <1>9 DEF PowerLoss, Restart, EndAttempt
  <2>2. CASE part = Absent
    <3>1. part' = Absent /\ disk' = Absent
      BY <1>9, <2>2 DEF PowerLoss
    <3> QED
      BY <1>1, <2>1, <3>1
  <2>3. CASE part # Absent
    <3>1. part' \in Content /\ disk' = part' /\ part' # Absent /\ Len(part') \in Nat
      BY <1>0, <1>9, <2>3, PowerFacts, Contents
    <3>2. \A c \in Workers : wpc'[c] \notin {"body", "synced"}
      BY <1>b, <2>1
    <3>3. Len(part') <= Len(part')
      BY <3>1
    <3> QED
      BY <2>1, <3>1, <3>2, <3>3 DEF FileInv, Safe
  <2> QED
    BY <2>2, <2>3
<1>10. CASE Pause \/ RemoteMoves \/ UNCHANGED vars
  <2>1. UNCHANGED <<chunks, part, disk, at, wpc, pos, body, etag, probe>>
    BY <1>10 DEF Pause, RemoteMoves, vars
  <2> QED
    BY <1>0, <2>1 DEF FileInv, Safe, Confirmed
<1> QED
  BY <1>2, <1>3, <1>4, <1>5, <1>6, <1>7, <1>8, <1>9, <1>10 DEF Next, Attempt, Between

-----------------------------------------------------------------------------
(* The verdict.                                                            *)

LEMMA VerdictStep ==
    ASSUME Inv, [Next]_vars
    PROVE  VerdictInv'
<1> USE DEF storeVars, fileVars, workerVars, boundVars, historyVars
<1>0. VerdictInv /\ AttemptInv /\ PlanInv /\ WorkerInv /\ TypeOK
  BY DEF Inv
<1>a. AttemptInv'
  BY AttemptStep
<1>b. at # "idle" => verdict = None
  BY <1>0 DEF VerdictInv, AttemptInv, Working
<1>1. ASSUME at # "idle", UNCHANGED verdict, at' \notin {"fetch", "giving_up"}
      PROVE  VerdictInv'
  BY <1>a, <1>b, <1>1 DEF VerdictInv, AttemptInv, None
<1>2. CASE Begin
  <2>1. row = "queued" /\ at' = "probe" /\ UNCHANGED verdict
    BY <1>2 DEF Begin
  <2>2. verdict = None
    BY <1>0, <2>1 DEF VerdictInv
  <2> QED
    BY <1>a, <2>1, <2>2 DEF VerdictInv, AttemptInv, None
<1>3. CASE PlanTransfer \/ Adopt \/ SettleComplete \/ GiveUpRecorded \/ Promote \/ PromoteFails
           \/ CompleteDownload
  <2>1. at # "idle" /\ UNCHANGED verdict /\ at' \notin {"fetch", "giving_up"}
    BY <1>3 DEF PlanTransfer, Adopt, SettleComplete, GiveUpRecorded, Promote, PromoteFails,
                CompleteDownload, EndAttempt
  <2> QED
    BY <1>1, <2>1
<1>4. CASE PrepareDestination \/ SettleName \/ OpenPart
  <2>1. at \in {"place", "verify", "open"} /\ UNCHANGED <<verdict, halt>>
    BY <1>4 DEF PrepareDestination, SettleName, OpenPart
  <2>2. halt = None
    BY <1>0, <2>1 DEF AttemptInv
  <2> QED
    BY <1>b, <2>1, <2>2 DEF VerdictInv, None
<1>5. ASSUME NEW c \in DOMAIN chunks, Worker(c) \/ Break(c)
      PROVE  VerdictInv'
  <2>1. /\ wpc[c] \in {"asking", "body", "synced"}
        /\ \A d \in Workers : d # c => wpc'[d] = wpc[d] /\ body'[d] = body[d]
        /\ UNCHANGED <<etag, remote, at, probe, verdict>>
        /\ ~Checkpoint(c) => UNCHANGED chunks
    BY <1>5, WorkerMoves
  <2>2. at = "fetch" /\ c \in Workers /\ etag = probe.version /\ etag \in Version
    BY <2>1, AtWork
  <2>3. verdict' = None
    BY <1>b, <2>1, <2>2
  <2>4. CASE halt' = halt
    <3>1. ASSUME NEW d \in DOMAIN chunks, wpc[d] = "stopped",
                 chunks[d].committed < chunks[d].end
          PROVE  /\ d \in DOMAIN chunks' /\ wpc'[d] = "stopped"
                 /\ chunks'[d].committed < chunks'[d].end
      <4>1. d # c /\ d \in Workers
        BY <1>0, <2>1, <3>1, TypeFacts
      <4>2. CASE UNCHANGED chunks
        BY <2>1, <3>1, <4>1, <4>2
      <4>3. CASE Checkpoint(c)
        <5>1. /\ d \in DOMAIN chunks' /\ chunks'[d].end = chunks[d].end
              /\ chunks'[d].committed = chunks[d].committed
          BY <4>1, <4>3, CheckpointFacts
        <5> QED
          BY <2>1, <3>1, <4>1, <5>1
      <4> QED
        BY <2>1, <4>2, <4>3
    <3> QED
      BY <1>0, <2>1, <2>3, <2>4, <3>1 DEF VerdictInv
  <2>5. CASE halt' = "transient"
    BY <2>3, <2>5 DEF VerdictInv
  <2>6. CASE Respond(c) /\ halt' = "remote_changed" /\ probe.sized
    <3>1. wpc[c] = "asking" /\ UNCHANGED chunks
      BY <2>6 DEF Respond
    <3>2. ~is_complete(chunks[c])
      BY <1>0, <2>2, <3>1 DEF WorkerInv, OneWorker
    <3>3. /\ chunks[c].end <= Length[etag] /\ Length[etag] \in Nat /\ Length[etag] <= Longest
          /\ chunks[c].committed \in Nat /\ chunks[c].end \in Nat
      BY <1>0, <2>2, <2>6, TypeFacts, Lengths DEF PlanInv
    <3>4. chunks[c].committed < chunks[c].end
      BY <3>2, <3>3, Lengths DEF is_complete
    <3>5. halt = None
      BY <2>6 DEF Respond
    <3>6. wpc'[c] = "stopped"
      BY <1>0, <2>2, <2>6, <3>5 DEF Respond, GiveUp, StartBody, TypeOK, None
    <3> QED
      BY <2>1, <2>3, <3>1, <3>4, <3>6 DEF VerdictInv
  <2>7. CASE WriteBytes(c) /\ halt' = "remote_changed" /\ halt' # halt /\ probe.sized
    <3>1. wpc[c] = "body" /\ pos[c] < BodyEnd(c) /\ pos[c] >= chunks[c].end
      BY <2>7 DEF WriteBytes
    <3>2. /\ body[c] \in Version /\ BodyEnd(c) \in Nat /\ BodyEnd(c) <= Length[body[c]]
          /\ pos[c] \in Nat /\ chunks[c].end \in Nat
      BY <1>0, <2>2, <3>1, BodyFacts, TypeFacts
    <3>3. ~(probe.ranges /\ Len(chunks) > 1)
      BY <3>1, <3>2 DEF BodyEnd
    <3>4. Len(chunks) = 1
      <4>1. Len(chunks) \in Nat /\ Len(chunks) # 0
        BY <1>0, TypeFacts
      <4>2. CASE ~probe.ranges
        BY <1>0, <2>2, <4>2 DEF AttemptInv
      <4>3. CASE ~(Len(chunks) > 1)
        <5>1. \A n \in Nat : n # 0 /\ ~(n > 1) => n = 1
          OBVIOUS
        <5> QED
          BY <4>1, <4>3, <5>1
      <4> QED
        BY <3>3, <4>2, <4>3
    <3>5. c = 1 /\ etag # 0
      BY <1>0, <2>2, <3>4, TypeFacts, Versions
    <3>6. chunks[c].end = Length[etag]
      BY <2>7, <3>4, <3>5, OnlyChunk
    <3>7. body[c] # etag
      BY <2>2, <3>1, <3>2, <3>6, Lengths
    <3>8. body[c] <= remote /\ body[c] > etag
      BY <1>0, <2>2, <3>2, <3>7, Versions DEF WorkerInv, OneWorker
    <3>9. remote # etag
      BY <1>0, <3>2, <3>8, TypeFacts, Versions
    <3> QED
      BY <2>1, <2>3, <3>9 DEF VerdictInv
  <2>8. CASE ~probe.sized
    BY <2>1, <2>3, <2>8 DEF VerdictInv
  <2>9. \/ halt' \in {halt, "transient"}
        \/ halt' = "remote_changed" /\ (Respond(c) \/ WriteBytes(c))
    BY <1>5 DEF Worker, Break, Respond, WriteBytes, SyncPart, Checkpoint, BodyEnds, WindDown,
                GiveUp, StartBody
  <2> QED
    BY <2>4, <2>5, <2>6, <2>7, <2>8, <2>9
<1>6. CASE SettleStopped
  <2>1. /\ UNCHANGED <<chunks, etag, remote, probe>> /\ halt' = None /\ at = "fetch"
        /\ halt = "remote_changed" => row' = "failed"
        /\ verdict' = IF halt = "remote_changed" THEN halt ELSE verdict
    BY <1>6 DEF SettleStopped, EndAttempt
  <2>2. CASE halt # "remote_changed"
    BY <1>b, <2>1, <2>2 DEF VerdictInv, None
  <2>3. CASE halt = "remote_changed"
    <3>1. probe.sized => Refusable
      BY <1>0, <2>3 DEF VerdictInv, Refusable
    <3>2. probe'.sized => Refusable'
      BY <2>1, <3>1 DEF Refusable
    <3> QED
      BY <2>1, <2>3, <3>2 DEF VerdictInv, None
  <2> QED
    BY <2>2, <2>3
<1>7. CASE DiscardPartial
  <2>1. at = "fetch" /\ UNCHANGED <<verdict, halt, remote, etag, probe, chunks, wpc>>
    BY <1>7 DEF DiscardPartial
  <2> QED
    BY <1>0, <1>b, <2>1 DEF VerdictInv
<1>8. CASE Crash \/ PowerLoss
  <2>1. /\ UNCHANGED <<verdict, remote, etag, probe, chunks>> /\ halt' = None
        /\ row' = row \/ row \in Working
    BY <1>8 DEF Crash, PowerLoss, Restart, EndAttempt
  <2>2. verdict # None => row = "failed" /\ (probe.sized => Refusable)
    BY <1>0 DEF VerdictInv
  <2>3. verdict' # None => row' = "failed" /\ (probe'.sized => Refusable')
    BY <2>1, <2>2 DEF Refusable, Working
  <2> QED
    BY <2>1, <2>3 DEF VerdictInv, None
<1>9. CASE Pause
  <2>1. at = "fetch" /\ halt' = "paused" /\ UNCHANGED verdict
    BY <1>9 DEF Pause
  <2> QED
    BY <1>b, <2>1 DEF VerdictInv, None
<1>10. CASE RemoteMoves
  <2>1. /\ UNCHANGED <<verdict, halt, row, etag, probe, chunks, wpc>>
        /\ remote' = remote + 1
    BY <1>10 DEF RemoteMoves
  <2>2. remote' # etag
    BY <1>0, <2>1, TypeFacts DEF PlanInv
  <2>3. Refusable'
    BY <2>1, <2>2 DEF Refusable
  <2> QED
    BY <1>0, <2>1, <2>2, <2>3 DEF VerdictInv
<1>11. CASE Resume \/ ResetRow
  <2>1. verdict' = None /\ UNCHANGED halt
    BY <1>11 DEF Resume, ResetRow
  <2>2. halt = None
    BY <1>0, <1>11 DEF Resume, ResetRow, AttemptInv
  <2> QED
    BY <2>1, <2>2 DEF VerdictInv, None
<1>12. CASE DiscardUnfinished \/ DiscardEnds \/ UNCHANGED vars
  <2>1. UNCHANGED <<verdict, halt, row, remote, etag, probe, chunks, wpc>>
    BY <1>12 DEF DiscardUnfinished, DiscardEnds, vars
  <2> QED
    BY <1>0, <2>1 DEF VerdictInv, Refusable
<1> QED
  BY <1>2, <1>3, <1>4, <1>5, <1>6, <1>7, <1>8, <1>9, <1>10, <1>11, <1>12
     DEF Next, Attempt, Between

-----------------------------------------------------------------------------
(* The theorems.                                                           *)

LEMMA Initially == Init => Inv
  <1> SUFFICES ASSUME Init PROVE Inv
    OBVIOUS
  <1>1. TypeOK
    <2>1. <<>> \in Seq(ChunkSpec) /\ Len(<<>>) <= MaxChunks
      BY TransferAssumption
    <2>2. probe \in [version : Version, ranges : BOOLEAN, sized : BOOLEAN]
      BY Lengths, TransferAssumption DEF Init
    <2>3. /\ wpc \in [Workers -> {"idle", "asking", "body", "synced", "done", "stopped"}]
          /\ pos \in [Workers -> 0 .. Longest]
          /\ body \in [Workers -> Version \cup {0}]
      BY Lengths DEF Init, Idle
    <2>4. stops \in 0 .. MaxStops /\ discards \in 0 .. MaxDiscards /\ remote \in Version
      BY Lengths, TransferAssumption DEF Init
    <2> QED
      BY <2>1, <2>2, <2>3, <2>4 DEF Init, TypeOK, RowState, Step
  <1>2. PlanInv
    <2>1. DOMAIN chunks = {} /\ Len(chunks) = 0
      BY DEF Init
    <2>2. probe.version = 1
      BY DEF Init
    <2> QED
      BY <2>1, <2>2 DEF Init, PlanInv
  <1>3. AttemptInv
    BY DEF Init, AttemptInv, Working, Idle
  <1>4. WorkerInv
    BY DEF Init, WorkerInv, OneWorker, Idle
  <1>5. FileInv
    BY DEF Init, FileInv, Idle
  <1>6. VerdictInv
    BY DEF Init, VerdictInv, None
  <1> QED
    BY <1>1, <1>2, <1>3, <1>4, <1>5, <1>6 DEF Inv

LEMMA Invariance == Spec => []Inv
  <1>1. Init => Inv
    BY Initially
  <1>2. Inv /\ [Next]_vars => Inv'
    BY TypeStep, PlanStep, AttemptStep, WorkerStep, FileStep, VerdictStep DEF Inv
  <1> QED
    BY <1>1, <1>2, PTL DEF Spec

\* The plan, the files, the attempt and its workers keep their shape: no offset
\* is recorded beyond the longest version (`checkpoint_chunk` refuses one) and
\* no file grows past it.
THEOREM TypesAreRight == Spec => []TypeOK
  <1>1. Inv => TypeOK
    BY DEF Inv
  <1> QED
    BY <1>1, Invariance, PTL

\* Nothing is confirmed beyond a length the host states.
LEMMA ConfirmedWithin ==
    ASSUME Inv, probe.sized, NEW i \in Confirmed
    PROVE  etag \in Version /\ i \in 1 .. Length[etag]
  <1>1. PICK c \in DOMAIN chunks : i \in chunks[c].start + 1 .. chunks[c].committed
    BY ConfirmedFact
  <1>2. /\ chunks[c].start \in Nat /\ chunks[c].committed \in Nat /\ chunks[c].end \in Nat
        /\ chunks[c].committed <= chunks[c].end /\ chunks[c].end <= Length[etag]
    BY TypeFacts DEF Inv, PlanInv
  <1>3. etag \in Version
    <2>1. chunks # <<>>
      BY <1>1
    <2> QED
      BY <2>1, TypeFacts DEF Inv, PlanInv
  <1> QED
    BY <1>1, <1>2, <1>3, Lengths

\* The steps that change the part file.
LEMMA PartMoves ==
    ASSUME [Next]_vars
    PROVE  \/ UNCHANGED part
           \/ part' = Absent
           \/ OpenPart
           \/ \E c \in DOMAIN chunks : WriteBytes(c)
           \/ PowerLoss
<1> USE DEF storeVars, fileVars, workerVars, boundVars, historyVars
<1>1. CASE Attempt
  <2>1. ASSUME NEW c \in DOMAIN chunks, Worker(c), ~WriteBytes(c)
        PROVE  UNCHANGED part
    BY <2>1 DEF Worker, Respond, Checkpoint, SyncPart, BodyEnds, WindDown
  <2>2. CASE PrepareDestination \/ SettleName
    <3>1. CASE PrepareDestination
      BY <3>1 DEF PrepareDestination, Collision, RemovePart
    <3>2. CASE SettleName
      BY <3>2 DEF SettleName, Collision, RemovePart
    <3> QED
      BY <2>2, <3>1, <3>2
  <2> QED
    BY <1>1, <2>1, <2>2 DEF Attempt, Begin, PlanTransfer, Adopt, SettleComplete, SettleStopped,
         DiscardPartial, RemovePart, GiveUpRecorded, Promote, CompleteDownload
<1>2. CASE Between
  BY <1>2 DEF Between, Pause, Break, PromoteFails, Crash, Restart, RemoteMoves, Resume,
              DiscardUnfinished, ResetRow, DiscardEnds
<1>3. CASE UNCHANGED vars
  BY <1>3 DEF vars
<1> QED
  BY <1>1, <1>2, <1>3 DEF Next

\* One step keeps what is confirmed.
LEMMA BytesStay ==
    ASSUME Inv, [Next]_vars, NEW i \in Confirmed,
           part # Absent, part' # Absent, i \in DOMAIN part
    PROVE  i \in DOMAIN part' /\ part'[i] = part[i]
<1>0. /\ part \in Content /\ Len(part) \in Nat /\ DOMAIN part = 1 .. Len(part)
      /\ i \in Nat /\ 1 <= i /\ i <= Len(part)
  BY FileFacts DEF Inv
<1>1. CASE UNCHANGED part
  BY <1>1
<1>2. CASE OpenPart
  <2>1. part' = Opened(part) /\ at = "open"
    BY <1>2 DEF OpenPart
  <2>2. etag = probe.version
    BY <2>1 DEF Inv, AttemptInv
  <2>3. /\ DOMAIN part' = 1 .. Len(part')
        /\ Len(part') = IF probe.sized THEN Length[probe.version] ELSE Len(part)
        /\ \A j \in 1 .. Len(part') : part'[j] = IF j <= Len(part) THEN part[j] ELSE Hole
    BY <1>0, <2>1, OpenedFacts DEF Inv
  <2>4. i \in 1 .. Len(part')
    <3>1. CASE probe.sized
      BY <2>2, <2>3, <3>1, ConfirmedWithin
    <3>2. CASE ~probe.sized
      BY <1>0, <2>3, <3>2
    <3> QED
      BY <3>1, <3>2
  <2> QED
    BY <1>0, <2>3, <2>4
<1>3. ASSUME NEW c \in DOMAIN chunks, WriteBytes(c), part' # part
      PROVE  i \in DOMAIN part' /\ part'[i] = part[i]
  <2>1. /\ part' = WriteAt(part, pos[c], body[c])
        /\ pos[c] \in Nat /\ pos[c] < Longest /\ body[c] \in Version
        /\ pos[c] + 1 # i
    BY <1>3, WriteFacts
  <2>2. /\ DOMAIN part' = 1 .. (IF pos[c] < Len(part) THEN Len(part) ELSE pos[c] + 1)
        /\ \A j \in 1 .. Len(part) : j # pos[c] + 1 => part'[j] = part[j]
    BY <1>0, <2>1, WriteAtFacts
  <2> QED
    BY <1>0, <2>1, <2>2
<1>4. CASE PowerLoss
  <2>1. DOMAIN part' = DOMAIN part /\ part'[i] \in {part[i], Safe(i)}
    BY <1>4, PowerFacts DEF Inv
  <2>2. part[i] = Safe(i)
    BY DEF Inv, FileInv
  <2> QED
    BY <2>1, <2>2
<1> QED
  BY <1>1, <1>2, <1>3, <1>4, PartMoves

\* No confirmed byte is overwritten with different content, whatever the host
\* answers, whichever version it serves, however many workers write and
\* wherever the process or the power ends (`start_position`, `write_bytes`).
THEOREM NoConfirmedByteChanges == Spec => ConfirmedBytesStay
  <1>1. Inv /\ [Next]_vars =>
          [\A i \in Confirmed :
              part # Absent /\ part' # Absent /\ i \in DOMAIN part
                  => i \in DOMAIN part' /\ part'[i] = part[i]]_vars
    BY BytesStay
  <1> QED
    BY <1>1, Invariance, PTL DEF Spec, ConfirmedBytesStay

\* A file that was fetched to its last byte and is still the host's is not
\* failed as changed, where the host states its length: a chunk that is
\* complete is not asked for again (`is_complete`).
THEOREM FetchedIsAccepted == Spec => []FetchedIsNotRefused
  <1>1. Inv => FetchedIsNotRefused
    <2> SUFFICES ASSUME Inv, verdict = "remote_changed", probe.sized, Fetched, remote = etag
                 PROVE  FALSE
      BY DEF FetchedIsNotRefused
    <2>1. PICK c \in DOMAIN chunks : chunks[c].committed < chunks[c].end
      BY DEF Inv, VerdictInv, Refusable, None
    <2>2. /\ chunks[c].committed \in Nat /\ chunks[c].end \in Nat /\ chunks[c].end <= Length[etag]
          /\ etag \in Version
      BY <2>1, TypeFacts DEF Inv, PlanInv, Fetched
    <2>3. chunks[c].end \in chunks[c].committed + 1 .. chunks[c].end
      BY <2>1, <2>2
    <2>4. chunks[c].end \notin Confirmed
      BY <2>3, ChunksApart
    <2>5. chunks[c].end \in 1 .. Length[etag]
      BY <2>1, <2>2, Lengths
    <2> QED
      BY <2>4, <2>5 DEF Fetched
  <1> QED
    BY <1>1, Invariance, PTL

=============================================================================

----------------------------- MODULE UpdateProofs -----------------------------
(***************************************************************************)
(* Theorems about Update, for any versions with any entries and for every   *)
(* fault the model has.  The inductive invariant says, for every phase of   *)
(* the journal, where each entry is, which version runs and what the        *)
(* database may hold.                                                       *)
(***************************************************************************)
EXTENDS Update, TLAPS

-----------------------------------------------------------------------------
(* The program folder.                                                     *)

\* `x` is what the folder had of an entry before the switch.
OldFits(e, x) ==
    /\ x <= journal.from
    /\ e \in EntriesOf(journal.from) => x = journal.from
    /\ e \in EntriesOf(journal.target) => (x # Gone <=> e \in journal.replaced)

\* An entry is in its place, is out of it, or has been replaced.
Back(e)    == /\ OldFits(e, install[e])
              /\ e \in EntriesOf(journal.target) => previous[e] = Gone
Emptied(e) == /\ e \in EntriesOf(journal.target)
              /\ install[e] = Gone
              /\ OldFits(e, previous[e])
New(e)     == /\ e \in EntriesOf(journal.target)
              /\ install[e] = journal.target
              /\ staged[e] = Gone
              /\ OldFits(e, previous[e])

\* Stopped anywhere in the switch, or in taking it back any number of times.
Torn   == \A e \in Entry : Back(e) \/ Emptied(e) \/ New(e)
AllBack == \A e \in Entry : Back(e)
AllNew  == \A e \in Entry : IF e \in EntriesOf(journal.target) THEN New(e) ELSE Back(e)

\* The new file of an entry still waits beside the program.
Waits(e) == e \in EntriesOf(journal.target) => staged[e] = journal.target

Switching ==
    /\ \A e \in Entry \ EntriesOf(journal.target) : Back(e)
    /\ \A k \in DOMAIN Entries :
          IF k < n THEN New(Entries[k])
          ELSE IF k = n /\ half = "in" THEN Emptied(Entries[k]) /\ Waits(Entries[k])
          ELSE Back(Entries[k]) /\ Waits(Entries[k])

Rolling ==
    \A k \in DOMAIN Entries :
        IF k < n THEN Back(Entries[k])
        ELSE k = n /\ half = "in" => Back(Entries[k]) \/ Emptied(Entries[k])

-----------------------------------------------------------------------------
(* The invariant.                                                          *)

Taking == {"roll", "clear", "set_aside", "copy", "done"}

JournalInv ==
    /\ journal.phase = "none" => journal.from = 1 /\ ~ByHand
    /\ journal.phase # "none" => journal.target = journal.from + 1
    /\ ByHand => journal.phase = "failed"
    /\ journal.phase \in Working \ {"handed", "stopping"} =>
          journal.replaced \subseteq EntriesOf(journal.target)

\* The phase the updater, and a start that takes back, have written.
ProcInv ==
    /\ updater = "handed" => journal.phase = "handed"
    /\ updater \in {"stopping", "staging"} => journal.phase = "stopping"
    /\ updater = "switching" =>
          journal.phase = IF job = "switch" THEN "switching" ELSE "staged"
    /\ updater \in {"starting", "started", "proving"} => journal.phase = "switched"
    /\ updater = "restarting_old" => journal.phase = "failed"
    /\ updater \in {"stopping_new", "taking_back", "awaiting_old"} =>
          journal.phase = "rolling_back"
    /\ service.at = "taking_back" => journal.phase = "rolling_back" /\ updater = "none"
    /\ updater \in {"staging", "switching", "starting", "restarting_old", "taking_back"} =>
          service.at = "down"
    /\ job # "none" => job = "switch" \/ job \in Taking
    /\ job = "switch" => updater = "switching"
    /\ job \in Taking <=> updater = "taking_back" \/ service.at = "taking_back"
    /\ updater \in {"proving", "stopping_new"} => journal.new_started
    /\ job \in {"set_aside", "copy"} => journal.new_started
    /\ updater # "starting_old"

\* The version the folder holds outside a switch.
Current ==
    IF journal.phase \in {"switched", "verified"} THEN journal.target ELSE journal.from

FolderInv ==
    /\ journal.phase \notin {"switching", "rolling_back"} /\ ~ByHand => Whole(Current)
    /\ journal.phase = "staged" => \A e \in Entry : Back(e) /\ Waits(e)
    /\ journal.phase = "switched" => AllNew
    /\ journal.phase \in {"switching", "rolling_back"} => Torn
    /\ job = "switch" => Switching
    /\ job = "roll" => Rolling
    /\ job \in Taking \ {"roll"} => AllBack

\* A process that has the folder to itself, or the updater's word for it.
Underway == \/ service.at \in {"opening", "serving"}
            \/ service.at = "recovering" /\ updater # "none"

Fits(version) == db.schema \in 1 .. version

ServiceInv ==
    service.at # "down" /\ ~ByHand =>
        /\ service.version \in Version
        /\ journal.phase \notin {"switching", "rolling_back"} => service.version = Current
        /\ journal.phase \in {"switching", "rolling_back"} =>
              service.version \in {journal.from, journal.target}
        /\ journal.phase = "switching" => service.at = "recovering"
        /\ journal.phase = "rolling_back" /\ Underway =>
              \/ service.version = journal.target /\ AllNew /\ Fits(journal.target)
                 /\ journal.new_started
              \/ service.version = journal.from /\ AllBack /\ Fits(journal.from)

DatabaseInv ==
    ~ByHand =>
        /\ journal.phase \notin {"rolling_back"} => Fits(Current)
        /\ updater = "starting" => Fits(journal.from)
        /\ journal.phase = "rolling_back" /\ ~journal.new_started => Fits(journal.from)
        /\ job = "done" => Fits(journal.from)
        /\ journal.phase \in Working => copy \in 1 .. journal.from

UInv == TypeOK /\ JournalInv /\ ProcInv /\ FolderInv /\ ServiceInv /\ DatabaseInv

-----------------------------------------------------------------------------
(* Versions, entries and the journal's fields.                             *)

LEMMA VersionFacts ==
    /\ Gone = 0
    /\ 1 \in Version
    /\ \A v \in Version : v \in Nat /\ v >= 1 /\ 1 .. v \subseteq Version
    /\ \A v \in Version : EntriesOf(v) \subseteq Entry /\ "program" \in EntriesOf(v)
<1>1. Archive \in Seq(Seq(STRING)) /\ Archive # <<>>
  BY UpdateAssumption
<1>2. Version = 1 .. Len(Archive) /\ Len(Archive) \in Nat /\ Len(Archive) >= 1
  BY <1>1 DEF Version
<1>3. \A v \in Version : EntriesOf(v) \subseteq Entry /\ "program" \in EntriesOf(v)
  BY UpdateAssumption DEF Entry
<1> QED
  BY <1>2, <1>3 DEF Gone

\* Each entry of an archive has one place in its order.
LEMMA EntryFacts ==
    ASSUME journal.target \in Version
    PROVE  /\ Len(Entries) \in Nat /\ DOMAIN Entries = 1 .. Len(Entries)
           /\ \A k \in DOMAIN Entries : Entries[k] \in EntriesOf(journal.target)
           /\ \A e \in EntriesOf(journal.target) : \E k \in DOMAIN Entries : Entries[k] = e
           /\ \A k, l \in DOMAIN Entries : Entries[k] = Entries[l] => k = l
<1>1. Archive[journal.target] \in Seq(STRING)
  BY UpdateAssumption DEF Version
<1>2. Len(Entries) \in Nat /\ DOMAIN Entries = 1 .. Len(Entries)
  BY <1>1 DEF Entries
<1> QED
  BY <1>2, UpdateAssumption DEF Entries, EntriesOf

JournalType ==
    [phase : {"none"} \cup Working \cup Terminal, from : Version,
     target : Version, replaced : SUBSET Entry, new_started : BOOLEAN,
     start_attempts : 0 .. 1, reason : {"none", "failed", "rollback_failed"},
     cleaned : BOOLEAN]

\* A phase is written and the rest of the journal stays.
LEMMA AdvanceFields ==
    ASSUME TypeOK, NEW p \in Working \cup Terminal, Advance(p)
    PROVE  /\ journal' \in JournalType
           /\ journal'.phase = p /\ journal'.reason = journal.reason
           /\ journal'.from = journal.from /\ journal'.target = journal.target
           /\ journal'.replaced = journal.replaced
           /\ journal'.new_started = journal.new_started
<1>1. journal \in JournalType
  BY DEF TypeOK, JournalType
<1>2. journal' = [journal EXCEPT !.phase = p]
  BY DEF Advance
<1> QED
  BY <1>1, <1>2 DEF JournalType

LEMMA EndFields ==
    ASSUME TypeOK, NEW p \in Working \cup Terminal, NEW r \in {"failed", "rollback_failed"},
           End(p, r)
    PROVE  /\ journal' \in JournalType
           /\ journal'.phase = p /\ journal'.reason = r
           /\ journal'.from = journal.from /\ journal'.target = journal.target
           /\ journal'.replaced = journal.replaced
           /\ journal'.new_started = journal.new_started
<1>1. journal \in JournalType
  BY DEF TypeOK, JournalType
<1>2. journal' = [journal EXCEPT !.phase = p, !.reason = r]
  BY DEF End
<1> QED
  BY <1>1, <1>2 DEF JournalType


LEMMA HandOverFields ==
    ASSUME TypeOK, HandOver, service.version \in Version
    PROVE  /\ journal' \in JournalType
           /\ journal'.phase = "handed" /\ journal'.reason = "none"
           /\ journal'.from = service.version
           /\ journal'.target = service.version + 1
           /\ journal'.new_started = FALSE
<1>1. NoJournal \in JournalType
  BY VersionFacts DEF NoJournal, JournalType
<1>2. service.version + 1 \in Version
  BY DEF HandOver
<1>3. journal' = [NoJournal EXCEPT !.phase = "handed", !.from = service.version,
                                   !.target = service.version + 1, !.cleaned = FALSE]
  BY DEF HandOver
<1>4. NoJournal.reason = "none" /\ NoJournal.new_started = FALSE
  BY DEF NoJournal
<1> QED
  BY <1>1, <1>2, <1>3, <1>4 DEF JournalType, Working

LEMMA NewStartedFields ==
    ASSUME TypeOK, NewStarted
    PROVE  /\ journal' \in JournalType
           /\ journal'.phase = journal.phase /\ journal'.reason = journal.reason
           /\ journal'.from = journal.from /\ journal'.target = journal.target
           /\ journal'.replaced = journal.replaced
           /\ journal'.new_started = TRUE
<1>1. journal \in JournalType
  BY DEF TypeOK, JournalType
<1>2. journal' = [journal EXCEPT !.new_started = TRUE]
  BY DEF NewStarted
<1> QED
  BY <1>1, <1>2 DEF JournalType

\* What a start without an updater writes.
LEMMA RecoverTakesBackFields ==
    ASSUME TypeOK, RecoverTakesBack
    PROVE  /\ journal' \in JournalType
           /\ journal'.phase = "rolling_back" /\ journal'.reason = journal.reason
           /\ journal'.from = journal.from /\ journal'.target = journal.target
           /\ journal'.replaced = journal.replaced
           /\ \/ /\ journal'.new_started = journal.new_started
                 /\ journal.phase \in {"switching", "rolling_back"}
              \/ journal'.new_started = TRUE /\ journal.phase = "switched"
<1>1. journal \in JournalType
  BY DEF TypeOK, JournalType
<1>2. CASE /\ journal.phase \in {"switching", "rolling_back"}
           /\ journal' = [journal EXCEPT !.phase = "rolling_back"]
  BY <1>1, <1>2 DEF JournalType, Working
<1>3. CASE /\ journal.phase = "switched"
           /\ journal' = [journal EXCEPT !.phase = "rolling_back", !.new_started = TRUE]
  BY <1>1, <1>3 DEF JournalType, Working
<1> QED
  BY <1>2, <1>3 DEF RecoverTakesBack, Advance

LEMMA RecoverFields ==
    ASSUME TypeOK, RecoverSwitched \/ RecoverEnded
    PROVE  /\ journal' \in JournalType
           /\ journal'.phase = journal.phase /\ journal'.reason = journal.reason
           /\ journal'.from = journal.from /\ journal'.target = journal.target
           /\ journal'.replaced = journal.replaced
           /\ journal'.new_started = journal.new_started
<1>1. journal \in JournalType
  BY DEF TypeOK, JournalType
<1>2. CASE RecoverSwitched
  <2>1. journal' = journal \/ journal' = [journal EXCEPT !.start_attempts = 1]
    BY <1>2 DEF RecoverSwitched
  <2> QED
    BY <1>1, <2>1 DEF JournalType
<1>3. CASE RecoverEnded
  <2>1. PICK c \in BOOLEAN : journal' = [journal EXCEPT !.cleaned = c]
    BY <1>1, <1>3, Zenon DEF RecoverEnded, JournalType
  <2> QED
    BY <1>1, <2>1 DEF JournalType
<1> QED
  BY <1>2, <1>3

LEMMA StageFields ==
    ASSUME TypeOK, Stage
    PROVE  /\ journal' \in JournalType
           /\ journal'.from = journal.from /\ journal'.target = journal.target
           /\ journal'.new_started = journal.new_started
           /\ \/ /\ journal'.phase = "staged" /\ journal'.reason = journal.reason
                 /\ journal'.replaced = {e \in EntriesOf(journal.target) : install[e] # Gone}
                 /\ staged' = [e \in Entry |-> IF e \in EntriesOf(journal.target)
                                               THEN journal.target ELSE Gone]
                 /\ updater' = "switching"
              \/ /\ journal'.phase = "failed" /\ journal'.reason = "failed"
                 /\ staged' = Nowhere
                 /\ updater' = "restarting_old"
<1>1. journal \in JournalType /\ EntriesOf(journal.target) \subseteq Entry
  BY VersionFacts DEF TypeOK, JournalType
<1>2. CASE updater' = "switching"
  <2> DEFINE R == {e \in EntriesOf(journal.target) : install[e] # Gone}
  <2>1. journal' = [journal EXCEPT !.phase = "staged", !.replaced = R]
    BY <1>2 DEF Stage
  <2>2. R \in SUBSET Entry
    BY <1>1
  <2> HIDE DEF R
  <2>3. /\ journal' \in JournalType
        /\ journal'.from = journal.from /\ journal'.target = journal.target
        /\ journal'.new_started = journal.new_started
        /\ journal'.phase = "staged" /\ journal'.reason = journal.reason
        /\ journal'.replaced = R
    BY <1>1, <2>1, <2>2 DEF JournalType, Working
  <2> QED
    BY <1>2, <2>3 DEF Stage, R
<1>3. CASE updater' = "restarting_old"
  <2>1. End("failed", "failed") /\ staged' = Nowhere
    BY <1>3 DEF Stage
  <2> QED
    BY <1>3, <2>1, EndFields DEF Terminal
<1> QED
  BY <1>2, <1>3 DEF Stage


-----------------------------------------------------------------------------
(* Types.                                                                  *)

LEMMA InitTypes == Init => TypeOK
<1> SUFFICES ASSUME Init PROVE TypeOK
  OBVIOUS
<1>1. Nowhere \in Folder /\ install \in Folder
  BY VersionFacts DEF Init, Nowhere, Folder
<1>2. db \in [schema : Version \cup {Gone}, put_back : BOOLEAN, used : BOOLEAN]
  BY VersionFacts DEF Init
<1>3. journal \in JournalType
  BY VersionFacts DEF Init, NoJournal, JournalType
<1>4. service \in [version : Version \cup {Gone},
                   at : {"down", "recovering", "taking_back", "opening", "serving"}]
  BY DEF Init, Down
<1> QED
  BY <1>1, <1>2, <1>3, <1>4, UpdateAssumption DEF Init, TypeOK, JournalType

LEMMA NextTypes == TypeOK /\ ServiceInv /\ [Next]_vars => TypeOK'
<1> SUFFICES ASSUME TypeOK, ServiceInv, [Next]_vars PROVE TypeOK'
  OBVIOUS
<1> USE UpdateAssumption DEF TypeOK, folderVars, dbVars, jobVars, Fault
<1>a. Nowhere \in Folder
  BY DEF Nowhere, Folder
<1>b. \A x : x \in JournalType <=>
         x \in [phase : {"none"} \cup Working \cup Terminal, from : Version,
                target : Version, replaced : SUBSET Entry, new_started : BOOLEAN,
                start_attempts : 0 .. 1, reason : {"none", "failed", "rollback_failed"},
                cleaned : BOOLEAN]
  BY DEF JournalType
<1>c. Spawn => service' \in [version : Version \cup {Gone}, at : {"recovering"}]
  BY VersionFacts, UpdateAssumption DEF Spawn, Folder, Entry
<1>d. GoOn => service' \in [version : Version \cup {Gone}, at : {"opening"}]
  BY DEF GoOn
<1>e. Down \in [version : Version \cup {Gone}, at : {"down"}]
  BY DEF Down
<1>f. journal \in JournalType /\ JournalType = JournalType
  BY <1>b
<1>g. \A p \in Working \cup Terminal : Advance(p) => journal' \in JournalType
  BY AdvanceFields
<1>h. \A p \in Working \cup Terminal, r \in {"failed", "rollback_failed"} :
         End(p, r) => journal' \in JournalType
  BY EndFields
<1>i. {"handed", "stopping", "staged", "switching", "switched", "rolling_back", "verified",
       "rolled_back", "failed"} \subseteq Working \cup Terminal
  BY DEF Working, Terminal
<1> HIDE DEF TypeOK
<1>1. CASE HandOver
  <2>1. service.version \in Version
    <3>1. service.at = "serving" /\ ~ByHand
      BY <1>1 DEF HandOver, ByHand
    <3> QED
      BY <3>1 DEF ServiceInv
  <2>2. journal' \in JournalType
    BY <1>1, <2>1, HandOverFields
  <2>3. copy' \in Version \cup {Gone}
        /\ db' \in [schema : Version \cup {Gone}, put_back : BOOLEAN, used : BOOLEAN]
    BY <1>1 DEF HandOver, TypeOK
  <2> QED
    BY <1>1, <1>b, <2>2, <2>3 DEF HandOver, TypeOK
<1>2. CASE UpdaterStops
  BY <1>2, <1>b, <1>g, <1>i DEF UpdaterStops, TypeOK
<1>3. CASE UpdaterStopped
  BY <1>3, <1>b, <1>e, <1>h, <1>i DEF UpdaterStopped, TypeOK
<1>4. CASE Stage
  <2>1. staged' \in Folder
    BY <1>4, <1>a, StageFields DEF TypeOK, Folder
  <2> QED
    BY <1>4, <1>a, <1>b, <2>1, StageFields DEF Stage, TypeOK
<1>5. CASE RestartOld
  BY <1>5, <1>c DEF RestartOld, TypeOK
<1>6. CASE BeginSwitch
  BY <1>6, <1>b, <1>g, <1>i DEF BeginSwitch, TypeOK
<1>7. CASE Switch
  <2>0. PICK e : e = Entries[n]
    OBVIOUS
  <2>a. \A f \in Folder, x \in Version \cup {Gone} : [f EXCEPT ![e] = x] \in Folder
    BY DEF Folder
  <2>b. \A f \in Folder : e \in Entry => f[e] \in Version \cup {Gone}
    BY DEF Folder
  <2>c. \A f \in Folder : \A x : e \notin Entry => [f EXCEPT ![e] = x] = f
    BY DEF Folder
  <2>1. install' \in Folder /\ previous' \in Folder /\ staged' \in Folder
    <3>1. install \in Folder /\ previous \in Folder /\ staged \in Folder
      BY DEF TypeOK
    <3>2. CASE half = "out"
      <4>1. /\ install' = [install EXCEPT ![e] = Gone]
            /\ previous' = [previous EXCEPT ![e] = install[e]]
            /\ staged' = staged
        BY <1>7, <2>0, <3>2 DEF Switch
      <4> QED
        BY <2>a, <2>b, <2>c, <3>1, <4>1
    <3>3. CASE half # "out"
      <4>1. /\ install' = [install EXCEPT ![e] = staged[e]]
            /\ staged' = [staged EXCEPT ![e] = Gone]
            /\ previous' = previous
        BY <1>7, <2>0, <3>3 DEF Switch
      <4> QED
        BY <2>a, <2>b, <2>c, <3>1, <4>1
    <3> QED
      BY <3>2, <3>3
  <2>2. n' \in Nat \ {0} /\ half' \in {"out", "in"}
    BY <1>7 DEF Switch, NextHalf, TypeOK
  <2> QED
    BY <1>7, <2>1, <2>2 DEF Switch, TypeOK
<1>8. CASE SwitchFails
  BY <1>8, <1>b, <1>h, <1>i DEF SwitchFails, BeginTakeBack, TypeOK
<1>9. CASE Switched
  BY <1>9, <1>a, <1>b, <1>g, <1>i DEF Switched, TypeOK
<1>10. CASE StartNew
  BY <1>10, <1>b, <1>c, <1>h, <1>i DEF StartNew, BeginTakeBack, TypeOK
<1>11. CASE NewStarted
  <2>1. journal' \in JournalType
    BY <1>11, NewStartedFields
  <2> QED
    BY <1>11, <1>b, <2>1 DEF NewStarted, TypeOK
<1>12. CASE Verified
  BY <1>12, <1>b, <1>g, <1>i DEF Verified, TypeOK
<1>13. CASE NotProven
  BY <1>13, <1>b, <1>h, <1>i DEF NotProven, TypeOK
<1>14. CASE StopNew
  BY <1>14, <1>e DEF StopNew, BeginTakeBack, TypeOK
<1>15. CASE RollBack
  <2>0. PICK e : e = Entries[n]
    OBVIOUS
  <2>a. \A f \in Folder, x \in Version \cup {Gone} : [f EXCEPT ![e] = x] \in Folder
    BY DEF Folder
  <2>b. \A f \in Folder : e \in Entry => f[e] \in Version \cup {Gone}
    BY DEF Folder
  <2>c. \A f \in Folder : \A x : e \notin Entry => [f EXCEPT ![e] = x] = f
    BY DEF Folder
  <2>1. install' \in Folder /\ previous' \in Folder
    <3>1. install \in Folder /\ previous \in Folder
      BY DEF TypeOK
    <3>2. PICK x : /\ install' = [install EXCEPT ![e] = x]
                   /\ x \in {install[e], previous[e], Gone}
      BY <1>15, <2>0 DEF RollBack
    <3>3. previous' = previous \/ previous' = [previous EXCEPT ![e] = Gone]
      BY <1>15, <2>0 DEF RollBack
    <3> QED
      BY <2>a, <2>b, <2>c, <3>1, <3>2, <3>3
  <2>2. n' \in Nat \ {0} /\ half' \in {"out", "in"}
    BY <1>15 DEF RollBack, NextHalf, TypeOK
  <2> QED
    BY <1>15, <2>1, <2>2 DEF RollBack, TypeOK
<1>16. CASE RollBackDone
  BY <1>16 DEF RollBackDone, TypeOK
<1>17. CASE RollBackClear
  BY <1>17, <1>a DEF RollBackClear, TypeOK
<1>18. CASE SetDatabaseAside
  BY <1>18 DEF SetDatabaseAside, NoDb, TypeOK
<1>19. CASE PutCopyBack
  BY <1>19 DEF PutCopyBack, TypeOK
<1>20. CASE TakeBackFails
  BY <1>20, <1>b, <1>e, <1>h, <1>i DEF TakeBackFails, TypeOK
<1>21. CASE StartOld
  BY <1>21, <1>c DEF StartOld, TypeOK
<1>22. CASE OldAnswers
  BY <1>22, <1>b, <1>g, <1>i DEF OldAnswers, TypeOK
<1>23. CASE OldDoesNotAnswer
  BY <1>23, <1>b, <1>h, <1>i DEF OldDoesNotAnswer, TypeOK
<1>24. CASE RecoveredTakeBack
  <2>1. service' \in [version : Version \cup {Gone}, at : {"recovering", "opening"}]
    BY <1>24, <1>c DEF RecoveredTakeBack, TypeOK
  <2> QED
    BY <1>24, <1>b, <1>g, <1>i, <2>1 DEF RecoveredTakeBack, TypeOK
<1>25. CASE StartService
  BY <1>25, <1>c DEF StartService, TypeOK
<1>26. CASE RecoverNothing
  BY <1>26, <1>d DEF RecoverNothing, TypeOK
<1>27. CASE RecoverUnswitched
  BY <1>27, <1>a, <1>b, <1>d, <1>h, <1>i DEF RecoverUnswitched, TypeOK
<1>28. CASE RecoverTakesBack
  <2>1. service' \in [version : Version \cup {Gone}, at : {"taking_back"}]
    BY <1>28 DEF RecoverTakesBack, TypeOK
  <2>2. journal' \in JournalType /\ BeginTakeBack
        /\ UNCHANGED <<folderVars, dbVars, updater, broken, faults>>
    BY <1>28, RecoverTakesBackFields DEF RecoverTakesBack
  <2> QED
    BY <1>b, <2>1, <2>2 DEF BeginTakeBack, TypeOK
<1>29. CASE RecoverSwitched
  <2>1. journal' \in JournalType
    BY <1>29, RecoverFields
  <2>2. GoOn /\ UNCHANGED <<folderVars, dbVars, updater, jobVars, broken, faults>>
    BY <1>29 DEF RecoverSwitched
  <2> QED
    BY <1>b, <1>d, <2>1, <2>2 DEF TypeOK
<1>30. CASE RecoverEnded
  <2>1. staged' \in Folder /\ previous' \in Folder
    BY <1>30, <1>a DEF RecoverEnded, TypeOK
  <2>2. journal' \in JournalType
    BY <1>30, RecoverFields
  <2>3. GoOn /\ UNCHANGED <<install, dbVars, updater, jobVars, broken, faults>>
    BY <1>30 DEF RecoverEnded
  <2> QED
    BY <1>b, <1>d, <2>1, <2>2, <2>3 DEF TypeOK
<1>31. CASE Open
  <2>1. PICK u \in BOOLEAN : db' = [db EXCEPT !.schema = service.version, !.used = u] \/ db' = db
    BY <1>31, Zenon DEF Open
  <2>2. db' \in [schema : Version \cup {Gone}, put_back : BOOLEAN, used : BOOLEAN]
    BY <2>1 DEF TypeOK
  <2>3. service' \in [version : Version \cup {Gone}, at : {"down", "serving"}]
    BY <1>31, <1>e DEF Open, TypeOK
  <2> QED
    BY <1>31, <2>2, <2>3 DEF Open, TypeOK
<1>32. CASE Confirm
  BY <1>32, <1>b, <1>g, <1>i DEF Confirm, TypeOK
<1>33. CASE StopService
  BY <1>33, <1>e DEF StopService, TypeOK
<1>34. CASE ServiceDies
  BY <1>34, <1>e DEF ServiceDies, TypeOK
<1>35. CASE UpdaterDies
  BY <1>35 DEF UpdaterDies, TypeOK
<1>36. CASE UNCHANGED vars
  BY <1>36 DEF vars, TypeOK
<1> QED
  BY <1>1, <1>2, <1>3, <1>4, <1>5, <1>6, <1>7, <1>8, <1>9, <1>10, <1>11, <1>12, <1>13,
     <1>14, <1>15, <1>16, <1>17, <1>18, <1>19, <1>20, <1>21, <1>22, <1>23, <1>24, <1>25,
     <1>26, <1>27, <1>28, <1>29, <1>30, <1>31, <1>32, <1>33, <1>34, <1>35, <1>36
     DEF Next, Updater, TakeBack, Service


-----------------------------------------------------------------------------
(* The journal and who works at it.                                        *)

\* The journal is written in the same update.
Wrote(p, r) ==
    /\ journal'.phase = p /\ journal'.reason = r
    /\ journal'.from = journal.from /\ journal'.target = journal.target
    /\ journal'.replaced = journal.replaced
    /\ journal'.new_started = journal.new_started

LEMMA WroteFacts ==
    ASSUME TypeOK
    PROVE  /\ \A p \in Working \cup Terminal : Advance(p) => Wrote(p, journal.reason)
           /\ \A p \in Working \cup Terminal, r \in {"failed", "rollback_failed"} :
                 End(p, r) => Wrote(p, r)
           /\ {"handed", "stopping", "staged", "switching", "switched", "rolling_back",
               "verified", "rolled_back", "failed"} = Working \cup Terminal
           /\ RecoverSwitched \/ RecoverEnded => Wrote(journal.phase, journal.reason)
           /\ UNCHANGED journal => Wrote(journal.phase, journal.reason)
<1>1. \A p \in Working \cup Terminal : Advance(p) => Wrote(p, journal.reason)
  BY AdvanceFields DEF Wrote
<1>2. \A p \in Working \cup Terminal, r \in {"failed", "rollback_failed"} :
         End(p, r) => Wrote(p, r)
  BY EndFields DEF Wrote
<1>3. RecoverSwitched \/ RecoverEnded => Wrote(journal.phase, journal.reason)
  BY RecoverFields DEF Wrote
<1>4. UNCHANGED journal => Wrote(journal.phase, journal.reason)
  BY DEF Wrote
<1>5. {"handed", "stopping", "staged", "switching", "switched", "rolling_back",
       "verified", "rolled_back", "failed"} = Working \cup Terminal
  BY DEF Working, Terminal
<1> QED
  BY <1>1, <1>2, <1>3, <1>4, <1>5

LEMMA NextJournal ==
    ASSUME UInv, [Next]_vars
    PROVE  JournalInv'
<1> TypeOK /\ JournalInv /\ ProcInv /\ ServiceInv
  BY DEF UInv
<1> USE WroteFacts DEF JournalInv, ByHand
<1>1. CASE HandOver
  <2>1. service.version \in Version
    BY <1>1 DEF HandOver, ServiceInv
  <2> QED
    BY <1>1, <2>1, HandOverFields DEF Working
<1>2. CASE UpdaterStops \/ UpdaterStopped \/ RestartOld \/ BeginSwitch
  BY <1>2 DEF UpdaterStops, UpdaterStopped, RestartOld, BeginSwitch, ProcInv, Wrote, Working
<1>3. CASE Stage
  BY <1>3, StageFields DEF Stage, ProcInv, Working
<1>4. CASE Switch \/ SwitchFails \/ Switched
  BY <1>4 DEF Switch, SwitchFails, Switched, ProcInv, Wrote, Working
<1>5. CASE StartNew \/ Verified \/ NotProven \/ StopNew
  BY <1>5 DEF StartNew, Verified, NotProven, StopNew, ProcInv, Wrote, Working
<1>6. CASE NewStarted
  BY <1>6, NewStartedFields DEF Working
<1>7. CASE RollBack \/ RollBackDone \/ RollBackClear \/ SetDatabaseAside \/ PutCopyBack
  BY <1>7 DEF RollBack, RollBackDone, RollBackClear, SetDatabaseAside, PutCopyBack
<1>8. CASE TakeBackFails
  BY <1>8 DEF TakeBackFails, ProcInv, Taking, Wrote, Working
<1>9. CASE StartOld \/ OldAnswers \/ OldDoesNotAnswer \/ RecoveredTakeBack
  BY <1>9 DEF StartOld, OldAnswers, OldDoesNotAnswer, RecoveredTakeBack, ProcInv, Wrote, Working
<1>10. CASE StartService \/ RecoverNothing
  BY <1>10 DEF StartService, RecoverNothing
<1>11. CASE RecoverUnswitched
  BY <1>11 DEF RecoverUnswitched, Wrote, Working
<1>12. CASE RecoverTakesBack
  BY <1>12, RecoverTakesBackFields DEF Working
<1>13. CASE RecoverSwitched \/ RecoverEnded
  BY <1>13 DEF Wrote
<1>14. CASE Open \/ StopService \/ ServiceDies \/ UpdaterDies
  BY <1>14 DEF Open, StopService, ServiceDies, UpdaterDies
<1>15. CASE Confirm
  BY <1>15 DEF Confirm, Wrote, Working
<1>16. CASE UNCHANGED vars
  BY <1>16 DEF vars
<1> HIDE DEF JournalInv
<1> QED
  BY <1>1, <1>2, <1>3, <1>4, <1>5, <1>6, <1>7, <1>8, <1>9, <1>10, <1>11, <1>12, <1>13,
     <1>14, <1>15, <1>16 DEF Next, Updater, TakeBack, Service

LEMMA NextProc ==
    ASSUME UInv, [Next]_vars
    PROVE  ProcInv'
<1> TypeOK /\ ProcInv
  BY DEF UInv
<1> USE WroteFacts DEF ProcInv, Taking
<1>a. Down.at = "down" /\ (Spawn => service'.at = "recovering") /\ (GoOn => service'.at = "opening")
  BY DEF Down, Spawn, GoOn, TypeOK
<1>1. CASE HandOver
  <2>1. journal'.phase = "handed"
    BY <1>1, HandOverFields DEF HandOver, UInv, ServiceInv, ByHand
  <2> QED
    BY <1>1, <2>1 DEF HandOver, jobVars
<1>2. CASE UpdaterStops \/ UpdaterStopped
  BY <1>a, <1>2 DEF UpdaterStops, UpdaterStopped, jobVars, Wrote
<1>3. CASE Stage
  BY <1>3, StageFields DEF Stage, jobVars
<1>4. CASE RestartOld \/ BeginSwitch
  BY <1>a, <1>4 DEF RestartOld, BeginSwitch, jobVars, Wrote
<1>5. CASE Switch \/ SwitchFails \/ Switched
  BY <1>5 DEF Switch, SwitchFails, Switched, BeginTakeBack, Wrote
<1>6. CASE StartNew
  BY <1>a, <1>6 DEF StartNew, BeginTakeBack, jobVars, Wrote
<1>7. CASE NewStarted
  BY <1>7, NewStartedFields DEF NewStarted, jobVars
<1>8. CASE Verified \/ NotProven \/ StopNew
  BY <1>a, <1>8 DEF Verified, NotProven, StopNew, BeginTakeBack, jobVars, Wrote
<1>9. CASE RollBack \/ RollBackDone \/ RollBackClear \/ SetDatabaseAside \/ PutCopyBack
  BY <1>9 DEF RollBack, RollBackDone, RollBackClear, SetDatabaseAside, PutCopyBack
<1>10. CASE TakeBackFails
  BY <1>a, <1>10 DEF TakeBackFails, Wrote
<1>11. CASE StartOld \/ OldAnswers \/ OldDoesNotAnswer
  BY <1>a, <1>11 DEF StartOld, OldAnswers, OldDoesNotAnswer, jobVars, Wrote
<1>12. CASE RecoveredTakeBack
  <2>1. service'.at \in {"recovering", "opening"}
    BY <1>a, <1>12 DEF RecoveredTakeBack, TypeOK
  <2> QED
    BY <1>12, <2>1 DEF RecoveredTakeBack, Wrote
<1>13. CASE StartService \/ RecoverNothing
  BY <1>a, <1>13 DEF StartService, RecoverNothing, jobVars
<1>14. CASE RecoverUnswitched
  BY <1>a, <1>14 DEF RecoverUnswitched, Unattended, jobVars, Wrote
<1>15. CASE RecoverTakesBack
  <2>1. service'.at = "taking_back" /\ service.at = "recovering" /\ updater = "none"
    BY <1>15 DEF RecoverTakesBack, Unattended, TypeOK
  <2> QED
    BY <1>15, <2>1, RecoverTakesBackFields DEF RecoverTakesBack, BeginTakeBack
<1>16. CASE RecoverSwitched
  <2>1. service'.at = "opening" /\ service.at = "recovering" /\ UNCHANGED <<updater, job>>
    BY <1>a, <1>16 DEF RecoverSwitched, Unattended, jobVars
  <2> QED
    BY <1>16, <2>1 DEF Wrote
<1>17. CASE RecoverEnded
  <2>1. service'.at = "opening" /\ service.at = "recovering" /\ UNCHANGED <<updater, job>>
    BY <1>a, <1>17 DEF RecoverEnded, Unattended, jobVars
  <2> QED
    BY <1>17, <2>1 DEF Wrote
<1>18. CASE Open
  <2>1. service'.at \in {"down", "serving"} /\ service.at = "opening"
        /\ UNCHANGED <<updater, job, journal>>
    BY <1>a, <1>18 DEF Open, TypeOK, jobVars
  <2> QED
    BY <2>1
<1>19. CASE Confirm \/ StopService
  BY <1>a, <1>19 DEF Confirm, StopService, jobVars, Wrote
<1>20. CASE ServiceDies \/ UpdaterDies
  BY <1>a, <1>20 DEF ServiceDies, UpdaterDies
<1>21. CASE UNCHANGED vars
  BY <1>21 DEF vars, jobVars
<1> HIDE DEF ProcInv
<1> QED
  BY <1>1, <1>2, <1>3, <1>4, <1>5, <1>6, <1>7, <1>8, <1>9, <1>10, <1>11, <1>12, <1>13,
     <1>14, <1>15, <1>16, <1>17, <1>18, <1>19, <1>20, <1>21 DEF Next, Updater, TakeBack, Service

-----------------------------------------------------------------------------
(* Where the entries are.                                                  *)

\* The entries are where they were.
LEMMA SameFolder ==
    ASSUME UNCHANGED folderVars, journal'.from = journal.from,
           journal'.target = journal.target, journal'.replaced = journal.replaced
    PROVE  /\ Torn' <=> Torn
           /\ AllBack' <=> AllBack
           /\ AllNew' <=> AllNew
           /\ \A e : Back(e)' <=> Back(e)
           /\ \A e : Waits(e)' <=> Waits(e)
           /\ Entries' = Entries
<1> USE DEF folderVars
<1>1. \A e, x : OldFits(e, x)' <=> OldFits(e, x)
  BY DEF OldFits
<1>2. /\ \A e : Back(e)' <=> Back(e)
      /\ \A e : Emptied(e)' <=> Emptied(e)
      /\ \A e : New(e)' <=> New(e)
  BY <1>1 DEF Back, Emptied, New
<1>3. \A e : Waits(e)' <=> Waits(e)
  BY DEF Waits
<1>4. Entries' = Entries
  BY DEF Entries
<1>5. Torn' <=> Torn
  BY <1>2 DEF Torn
<1>6. AllBack' <=> AllBack
  BY <1>2 DEF AllBack
<1>7. AllNew' <=> AllNew
  BY <1>2 DEF AllNew
<1> QED
  BY <1>2, <1>3, <1>4, <1>5, <1>6, <1>7

LEMMA SameInstall == ASSUME UNCHANGED install PROVE \A v : Whole(v)' <=> Whole(v)
  BY DEF Whole

\* A folder switched or taken back altogether is one version's, and the program
\* is of one of the two wherever the switch stopped.
LEMMA WholeFacts ==
    ASSUME TypeOK, journal.target = journal.from + 1
    PROVE  /\ AllNew => Whole(journal.target) /\ Torn
           /\ AllBack => Whole(journal.from) /\ Torn
           /\ Torn => install["program"] \in {Gone, journal.from, journal.target}
           /\ \A v \in Version : Whole(v) => install["program"] = v
<1>1. journal.from \in Version /\ journal.target \in Version
  BY DEF TypeOK
<1>2. \A e \in Entry : install[e] \in Version \cup {Gone}
  BY DEF TypeOK, Folder
<1> USE VersionFacts
<1>3. ASSUME AllNew PROVE Whole(journal.target) /\ Torn
  <2>1. \A e \in EntriesOf(journal.target) : New(e)
    BY <1>1, <1>3 DEF AllNew
  <2>2. \A e \in Entry : e \notin EntriesOf(journal.target) => Back(e)
    BY <1>3 DEF AllNew
  <2>3. \A e \in EntriesOf(journal.target) : install[e] = journal.target
    BY <2>1 DEF New
  <2>4. \A e \in Entry : e \notin EntriesOf(journal.target) => install[e] <= journal.from
    BY <2>2 DEF Back, OldFits
  <2>5. \A e \in Entry : install[e] <= journal.target
    BY <1>1, <1>2, <2>3, <2>4
  <2> QED
    BY <2>1, <2>2, <2>3, <2>5 DEF Whole, Torn
<1>4. ASSUME AllBack PROVE Whole(journal.from) /\ Torn
  BY <1>1, <1>4 DEF AllBack, Whole, Torn, Back, OldFits
<1>5. ASSUME Torn PROVE install["program"] \in {Gone, journal.from, journal.target}
  <2>1. "program" \in Entry /\ "program" \in EntriesOf(journal.from)
    BY <1>1
  <2>2. Back("program") \/ Emptied("program") \/ New("program")
    BY <1>5, <2>1 DEF Torn
  <2> QED
    BY <2>1, <2>2 DEF Back, Emptied, New, OldFits
<1>6. \A v \in Version : Whole(v) => install["program"] = v
  BY DEF Whole
<1> QED
  BY <1>3, <1>4, <1>5, <1>6

\* An entry that does not move keeps its place.
Still(e) == install'[e] = install[e] /\ previous'[e] = previous[e] /\ staged'[e] = staged[e]

LEMMA StillFacts ==
    ASSUME UNCHANGED journal, NEW e, Still(e)
    PROVE  /\ Back(e)' <=> Back(e)
           /\ Emptied(e)' <=> Emptied(e)
           /\ New(e)' <=> New(e)
           /\ Waits(e)' <=> Waits(e)
  BY DEF Still, Back, Emptied, New, Waits, OldFits

\* One half of one entry's switch.
LEMMA SwitchEntry ==
    ASSUME UInv, Switch
    PROVE  Switching' /\ Torn'
<1>a. TypeOK /\ Switching /\ Torn
  BY DEF UInv, Switch, FolderInv, ProcInv
<1>b. journal.target \in Version /\ n \in Nat \ {0} /\ half \in {"out", "in"}
  BY <1>a DEF TypeOK
<1>c. journal' = journal /\ Entries' = Entries /\ n <= Len(Entries)
  BY DEF Switch, Entries
<1>d. n \in DOMAIN Entries /\ DOMAIN Entries = 1 .. Len(Entries) /\ Len(Entries) \in Nat
  BY <1>b, <1>c, EntryFacts
<1>1. PICK e : e = Entries[n]
  OBVIOUS
<1>2. /\ e \in EntriesOf(journal.target) /\ e \in Entry
      /\ \A k \in DOMAIN Entries : Entries[k] \in Entry
      /\ \A k \in DOMAIN Entries : Entries[k] = e => k = n
  BY <1>1, <1>b, <1>d, EntryFacts, VersionFacts
<1>3. \A f \in Entry : f # e => Still(f)
  BY <1>1 DEF Switch, Still, TypeOK, Folder, UInv
<1>x. \A f \in Entry : f # e => /\ Back(f)' <=> Back(f)
                                /\ Emptied(f)' <=> Emptied(f)
                                /\ New(f)' <=> New(f)
                                /\ Waits(f)' <=> Waits(f)
  BY <1>c, <1>3, StillFacts
<1>y. \A f \in Entry \ EntriesOf(journal.target)' : Back(f)'
  BY <1>a, <1>c, <1>2, <1>x DEF Switching
<1>4. CASE half = "out"
  <2>1. Back(e) /\ Waits(e)
    BY <1>a, <1>b, <1>d, <1>1, <1>4 DEF Switching
  <2>2. install'[e] = Gone /\ previous'[e] = install[e] /\ staged'[e] = staged[e]
    BY <1>a, <1>1, <1>2, <1>4 DEF Switch, TypeOK, Folder
  <2>3. Emptied(e)' /\ Waits(e)'
    BY <1>c, <1>2, <2>1, <2>2 DEF Back, Waits, Emptied, OldFits
  <2>4. n' = n /\ half' = "in"
    BY <1>4 DEF Switch, NextHalf
  <2>5. \A k \in DOMAIN Entries :
           IF k < n THEN New(Entries[k])'
           ELSE IF k = n THEN Emptied(Entries[k])' /\ Waits(Entries[k])'
           ELSE Back(Entries[k])' /\ Waits(Entries[k])'
    <3> SUFFICES ASSUME NEW k \in DOMAIN Entries
                 PROVE  IF k < n THEN New(Entries[k])'
                        ELSE IF k = n THEN Emptied(Entries[k])' /\ Waits(Entries[k])'
                        ELSE Back(Entries[k])' /\ Waits(Entries[k])'
      OBVIOUS
    <3>1. CASE k = n
      BY <1>b, <1>c, <1>1, <2>3, <3>1
    <3>2. CASE k # n
      <4>1. PICK f : f = Entries[k]
        OBVIOUS
      <4>2. f \in Entry /\ f # e /\ f = Entries'[k]
        BY <1>c, <1>2, <3>2, <4>1
      <4>3. IF k < n THEN New(f) ELSE Back(f) /\ Waits(f)
        BY <1>a, <1>b, <1>4, <3>2, <4>1 DEF Switching
      <4> QED
        BY <1>x, <3>2, <4>2, <4>3
    <3> QED
      BY <3>1, <3>2
  <2>6. Switching'
    BY <1>c, <1>y, <2>4, <2>5 DEF Switching
  <2>7. Torn'
    BY <1>a, <1>x, <2>3 DEF Torn
  <2> QED
    BY <2>6, <2>7
<1>5. CASE half = "in"
  <2>1. Emptied(e) /\ Waits(e)
    BY <1>a, <1>b, <1>d, <1>1, <1>5 DEF Switching
  <2>2. install'[e] = staged[e] /\ previous'[e] = previous[e] /\ staged'[e] = Gone
    BY <1>a, <1>1, <1>2, <1>5 DEF Switch, TypeOK, Folder
  <2>3. New(e)'
    BY <1>c, <1>2, <2>1, <2>2 DEF Waits, Emptied, New, OldFits
  <2>4. n' = n + 1 /\ half' = "out"
    BY <1>5 DEF Switch, NextHalf
  <2>5. \A k \in DOMAIN Entries :
           IF k < n + 1 THEN New(Entries[k])' ELSE Back(Entries[k])' /\ Waits(Entries[k])'
    <3> SUFFICES ASSUME NEW k \in DOMAIN Entries
                 PROVE  IF k < n + 1 THEN New(Entries[k])'
                        ELSE Back(Entries[k])' /\ Waits(Entries[k])'
      OBVIOUS
    <3>1. CASE k = n
      BY <1>b, <1>c, <1>1, <2>3, <3>1
    <3>2. CASE k # n
      <4>1. PICK f : f = Entries[k]
        OBVIOUS
      <4>2. f \in Entry /\ f # e /\ f = Entries'[k]
        BY <1>c, <1>2, <3>2, <4>1
      <4>3. IF k < n + 1 THEN New(f) ELSE Back(f) /\ Waits(f)
        BY <1>a, <1>b, <1>d, <1>5, <3>2, <4>1 DEF Switching
      <4> QED
        BY <1>x, <3>2, <4>2, <4>3
    <3> QED
      BY <3>1, <3>2
  <2>6. Switching'
    BY <1>c, <1>y, <2>4, <2>5 DEF Switching
  <2>7. Torn'
    BY <1>a, <1>x, <2>3 DEF Torn
  <2> QED
    BY <2>6, <2>7
<1> QED
  BY <1>b, <1>4, <1>5

\* One half of one entry's way back.
LEMMA RollEntry ==
    ASSUME UInv, RollBack
    PROVE  Rolling' /\ Torn'
<1>a. TypeOK /\ Rolling /\ Torn
  BY DEF UInv, RollBack, FolderInv, ProcInv, Taking
<1>b. /\ journal.target \in Version /\ journal.from \in Version
      /\ n \in Nat \ {0} /\ half \in {"out", "in"}
  BY <1>a DEF TypeOK
<1>c. journal' = journal /\ Entries' = Entries /\ n <= Len(Entries) /\ staged' = staged
  BY DEF RollBack, Entries
<1>d. n \in DOMAIN Entries /\ DOMAIN Entries = 1 .. Len(Entries) /\ Len(Entries) \in Nat
  BY <1>b, <1>c, EntryFacts
<1>1. PICK e : e = Entries[n]
  OBVIOUS
<1>2. /\ e \in EntriesOf(journal.target) /\ e \in Entry
      /\ \A k \in DOMAIN Entries : Entries[k] \in Entry
      /\ \A k \in DOMAIN Entries : Entries[k] = e => k = n
  BY <1>1, <1>b, <1>d, EntryFacts, VersionFacts
<1>3. \A f \in Entry : f # e => Still(f)
  BY <1>1 DEF RollBack, Still, TypeOK, Folder, UInv
<1>x. \A f \in Entry : f # e => /\ Back(f)' <=> Back(f)
                                /\ Emptied(f)' <=> Emptied(f)
                                /\ New(f)' <=> New(f)
                                /\ Waits(f)' <=> Waits(f)
  BY <1>c, <1>3, StillFacts
<1>y. \A k \in DOMAIN Entries : k < n => Back(Entries[k])'
  <2> SUFFICES ASSUME NEW k \in DOMAIN Entries, k < n PROVE Back(Entries[k])'
    OBVIOUS
  <2>1. PICK f : f = Entries[k]
    OBVIOUS
  <2>2. f \in Entry /\ f # e /\ f = Entries'[k] /\ Back(f)
    BY <1>a, <1>b, <1>c, <1>d, <1>2, <2>1 DEF Rolling
  <2> QED
    BY <1>x, <2>2
<1>4. CASE half = "out"
  <2>1. Back(e) \/ Emptied(e) \/ New(e)
    BY <1>a, <1>2 DEF Torn
  <2>2. /\ install'[e] = IF LiveIsNew(e) THEN Gone ELSE install[e]
        /\ previous'[e] = previous[e]
    BY <1>a, <1>1, <1>2, <1>4 DEF RollBack, TypeOK, Folder
  <2>3. Back(e)' \/ Emptied(e)'
    <3>1. CASE Back(e)
      <4>1. ~LiveIsNew(e)
        BY <1>2, <3>1 DEF Back, OldFits, LiveIsNew
      <4> QED
        BY <1>c, <2>2, <3>1, <4>1 DEF Back, OldFits
    <3>2. CASE Emptied(e)
      BY <1>c, <2>2, <3>2 DEF Emptied, OldFits
    <3>3. CASE New(e)
      <4>1. LiveIsNew(e)
        BY <1>b, <1>2, <3>3, VersionFacts DEF New, OldFits, LiveIsNew
      <4> QED
        BY <1>c, <2>2, <3>3, <4>1 DEF New, Emptied, OldFits
    <3> QED
      BY <2>1, <3>1, <3>2, <3>3
  <2>4. n' = n /\ half' = "in"
    BY <1>4 DEF RollBack, NextHalf
  <2>5. Back(Entries[n])' \/ Emptied(Entries[n])'
    BY <1>c, <1>1, <2>3, <2>4
  <2>6. Rolling'
    BY <1>c, <1>y, <2>4, <2>5 DEF Rolling
  <2>7. Torn'
    BY <1>a, <1>x, <2>3 DEF Torn
  <2> QED
    BY <2>6, <2>7
<1>5. CASE half = "in"
  <2>1. Back(e) \/ Emptied(e)
    BY <1>a, <1>b, <1>d, <1>1, <1>5 DEF Rolling
  <2>2. /\ install'[e] = IF previous[e] # Gone THEN previous[e] ELSE install[e]
        /\ previous'[e] = Gone
    BY <1>a, <1>1, <1>2, <1>5 DEF RollBack, TypeOK, Folder
  <2>3. Back(e)'
    BY <1>c, <1>2, <2>1, <2>2 DEF Back, Emptied, OldFits
  <2>4. n' = n + 1 /\ half' = "out"
    BY <1>5 DEF RollBack, NextHalf
  <2>5. \A k \in DOMAIN Entries : k < n + 1 => Back(Entries[k])'
    <3> SUFFICES ASSUME NEW k \in DOMAIN Entries, k < n + 1 PROVE Back(Entries[k])'
      OBVIOUS
    <3>1. CASE k = n
      BY <1>c, <1>1, <2>3, <3>1
    <3>2. CASE k # n
      BY <1>b, <1>d, <1>y, <3>2
    <3> QED
      BY <3>1, <3>2
  <2>6. Rolling'
    BY <1>c, <2>4, <2>5 DEF Rolling
  <2>7. Torn'
    BY <1>a, <1>x, <2>3 DEF Torn
  <2> QED
    BY <2>6, <2>7
<1> QED
  BY <1>b, <1>4, <1>5

\* Every entry has been passed.
LEMMA SwitchedAll ==
    ASSUME UInv, job = "switch", n > Len(Entries)
    PROVE  AllNew
<1>1. TypeOK /\ Switching /\ journal.target \in Version /\ n \in Nat
  BY DEF UInv, FolderInv, TypeOK
<1>2. \A k \in DOMAIN Entries : k < n
  BY <1>1, EntryFacts
<1>3. \A e \in EntriesOf(journal.target) : New(e)
  BY <1>1, <1>2, EntryFacts DEF Switching
<1> QED
  BY <1>1, <1>3 DEF Switching, AllNew

LEMMA RolledAll ==
    ASSUME UInv, job = "roll", n > Len(Entries)
    PROVE  AllBack
<1>1. TypeOK /\ Rolling /\ Torn /\ journal.target \in Version /\ n \in Nat
  BY DEF UInv, FolderInv, TypeOK, ProcInv, Taking
<1>2. \A k \in DOMAIN Entries : k < n
  BY <1>1, EntryFacts
<1>3. \A e \in EntriesOf(journal.target) : Back(e)
  BY <1>1, <1>2, EntryFacts DEF Rolling
<1> QED
  BY <1>1, <1>3 DEF Torn, AllBack, Emptied, New

\* Nothing is staged or kept any more: what was switched or taken back stays so.
LEMMA Cleared ==
    ASSUME TypeOK, UNCHANGED install, staged' = Nowhere,
           journal'.from = journal.from, journal'.target = journal.target,
           journal'.replaced = journal.replaced
    PROVE  /\ AllNew /\ previous' = previous => AllNew'
           /\ AllBack /\ previous' = Nowhere => AllBack'
<1>1. \A e, x : OldFits(e, x)' <=> OldFits(e, x)
  BY DEF OldFits
<1>2. \A e \in Entry : Nowhere[e] = Gone
  BY DEF Nowhere
<1>3. AllNew /\ previous' = previous => AllNew'
  BY <1>1, <1>2 DEF AllNew, New, Back
<1>4. AllBack /\ previous' = Nowhere => AllBack'
  BY <1>1, <1>2 DEF AllBack, Back
<1> QED
  BY <1>3, <1>4

LEMMA InitInv == Init => UInv
<1> SUFFICES ASSUME Init PROVE UInv
  OBVIOUS
<1> USE DEF Init
<1>1. /\ journal.phase = "none" /\ journal.from = 1 /\ journal.reason = "none"
      /\ service.at = "down"
  BY DEF NoJournal, Down
<1>2. TypeOK
  BY InitTypes
<1>3. JournalInv /\ ProcInv /\ ServiceInv
  BY <1>1 DEF JournalInv, ProcInv, ServiceInv, ByHand, Working, Taking
<1>4. Whole(1)
  BY VersionFacts DEF Whole
<1>5. FolderInv
  BY <1>1, <1>4 DEF FolderInv, Current, Taking
<1>6. DatabaseInv
  BY <1>1 DEF DatabaseInv, Current, Fits, Working
<1> QED
  BY <1>2, <1>3, <1>5, <1>6 DEF UInv

\* The version of a service that may be working is the one in the folder.
LEMMA ServesWhole ==
    ASSUME UInv, ~ByHand, service.at \in {"opening", "serving"}
    PROVE  Whole(service.version) /\ service.version \in Version /\ Fits(service.version)
<1>1. CASE journal.phase \notin {"switching", "rolling_back"}
  BY <1>1 DEF UInv, ServiceInv, FolderInv, DatabaseInv
<1>2. CASE journal.phase \in {"switching", "rolling_back"}
  <2>1. /\ TypeOK /\ journal.target = journal.from + 1 /\ service.version \in Version
        /\ \/ service.version = journal.target /\ AllNew /\ Fits(journal.target)
           \/ service.version = journal.from /\ AllBack /\ Fits(journal.from)
    BY <1>2 DEF UInv, JournalInv, ServiceInv, Underway
  <2> QED
    BY <2>1, WholeFacts
<1> QED
  BY <1>1, <1>2

\* The folder and the phase stay, and no switch or roll-back begins.
LEMMA FolderKept ==
    ASSUME UInv, UNCHANGED <<folderVars, n, half>>,
           journal'.phase = journal.phase, journal'.reason = journal.reason,
           journal'.from = journal.from, journal'.target = journal.target,
           journal'.replaced = journal.replaced,
           job' = job \/ job' = "none" \/ {job, job'} \subseteq Taking \ {"roll"}
    PROVE  FolderInv'
<1>1. FolderInv /\ Entries' = Entries /\ UNCHANGED folderVars
  BY SameFolder DEF UInv
<1>2. /\ Torn' <=> Torn
      /\ AllBack' <=> AllBack
      /\ AllNew' <=> AllNew
      /\ \A e \in Entry : Back(e)' <=> Back(e)
      /\ \A e \in Entry : Waits(e)' <=> Waits(e)
  BY <1>1, SameFolder
<1>3. \A v : Whole(v)' <=> Whole(v)
  BY <1>1 DEF Whole, folderVars
<1>4. Current' = Current /\ (ByHand' <=> ByHand)
  BY DEF Current, ByHand
<1>5. Whole(Current) => Whole(Current)'
  BY <1>1, <1>4 DEF Whole, folderVars
<1>6. Switching => Switching'
  BY <1>1 DEF Switching, Back, Emptied, New, Waits, OldFits, folderVars
<1>7. Rolling => Rolling'
  BY <1>1 DEF Rolling, Back, Emptied, OldFits, folderVars
<1>8. job' = "switch" => job = "switch"
  BY DEF Taking
<1>9. job' = "roll" => job = "roll"
  BY DEF Taking
<1>10. job' \in Taking \ {"roll"} => job \in Taking \ {"roll"}
  BY DEF Taking
<1>11. /\ journal.phase \notin {"switching", "rolling_back"} /\ ~ByHand => Whole(Current)
       /\ journal.phase = "staged" => \A e \in Entry : Back(e) /\ Waits(e)
       /\ journal.phase = "switched" => AllNew
       /\ journal.phase \in {"switching", "rolling_back"} => Torn
       /\ job = "switch" => Switching
       /\ job = "roll" => Rolling
       /\ job \in Taking \ {"roll"} => AllBack
  BY <1>1 DEF FolderInv
<1> HIDE DEF Torn, AllBack, AllNew
<1> QED
  BY <1>2, <1>4, <1>5, <1>6, <1>7, <1>8, <1>9, <1>10, <1>11 DEF FolderInv

\* Outside a switch only the version matters.
LEMMA FolderEnded ==
    ASSUME journal'.phase \in Terminal \cup {"stopping"}, job' = "none",
           ByHand' \/ Whole(Current)'
    PROVE  FolderInv'
  BY DEF FolderInv, Taking, Terminal

\* A roll-back begins, wherever the switch has stopped.
LEMMA TakeBackBegins ==
    ASSUME TypeOK, Torn, BeginTakeBack, UNCHANGED folderVars, journal'.phase = "rolling_back",
           journal'.from = journal.from, journal'.target = journal.target,
           journal'.replaced = journal.replaced
    PROVE  FolderInv'
<1>1. Torn' /\ Entries' = Entries
  BY SameFolder
<1>2. journal.target \in Version
  BY DEF TypeOK
<1>3. job' = "roll" /\ n' = 1 /\ half' = "out"
  BY DEF BeginTakeBack
<1>4. \A k \in DOMAIN Entries : ~(k < 1)
  BY <1>2, EntryFacts
<1>5. Rolling'
  BY <1>1, <1>3, <1>4 DEF Rolling
<1> QED
  BY <1>1, <1>3, <1>5 DEF FolderInv, Taking

LEMMA NextFolder ==
    ASSUME UInv, [Next]_vars
    PROVE  FolderInv'
<1> TypeOK /\ JournalInv /\ ProcInv /\ FolderInv /\ ServiceInv
  BY DEF UInv
<1>a. journal.phase # "none" => journal.target = journal.from + 1
  BY DEF JournalInv
<1> USE WroteFacts DEF ByHand, folderVars, jobVars
<1>1. CASE HandOver
  <2>1. Whole(service.version) /\ service.version \in Version
    BY <1>1, ServesWhole DEF HandOver
  <2>2. journal'.phase = "handed" /\ journal'.from = service.version
    BY <1>1, <2>1, HandOverFields
  <2>3. Whole(service.version)'
    BY <1>1, <2>1 DEF HandOver, Whole
  <2>4. job = "none" /\ job' = "none" /\ service' = service
    BY <1>1 DEF HandOver, ProcInv
  <2>5. Current' = service.version
    BY <2>2 DEF Current
  <2> QED
    BY <2>2, <2>3, <2>4, <2>5 DEF FolderInv, Taking, Whole
<1>2. CASE UpdaterStops
  <2>1. Wrote("stopping", journal.reason) /\ journal.phase = "handed" /\ job' = "none"
        /\ UNCHANGED install
    BY <1>2 DEF UpdaterStops, ProcInv, TypeOK, Taking
  <2>2. ByHand' \/ Whole(Current)'
    BY <2>1 DEF Wrote, FolderInv, Current, Whole
  <2> QED
    BY <2>1, <2>2, FolderEnded DEF Wrote
<1>3. CASE UpdaterStopped
  <2>1. CASE UNCHANGED journal
    BY <1>3, <2>1, FolderKept DEF UpdaterStopped
  <2>2. CASE Wrote("failed", "failed")
    <3>1. journal.phase = "stopping" /\ job' = "none" /\ UNCHANGED install
      BY <1>3 DEF UpdaterStopped, ProcInv, TypeOK, Taking
    <3>2. Whole(Current)'
      BY <2>2, <3>1 DEF Wrote, FolderInv, Current, Whole, JournalInv
    <3> QED
      BY <2>2, <3>1, <3>2, FolderEnded DEF Wrote, Terminal
  <2> QED
    BY <1>3, <2>1, <2>2 DEF UpdaterStopped
<1>4. CASE Stage
  <2>1. /\ journal.phase = "stopping" /\ job' = "none" /\ UNCHANGED install
        /\ previous' = Nowhere /\ ~ByHand
    BY <1>4 DEF Stage, ProcInv, TypeOK, Taking, JournalInv
  <2>2. Whole(journal.from)
    BY <2>1 DEF FolderInv, Current
  <2>3. journal'.from = journal.from /\ journal'.target = journal.target
    BY <1>4, StageFields
  <2>4. journal'.phase \in {"staged", "failed"}
    BY <1>4, StageFields
  <2>5. Whole(Current)'
    BY <2>1, <2>2, <2>3, <2>4 DEF Whole, Current
  <2>6. CASE journal'.phase = "failed"
    BY <2>1, <2>5, <2>6, FolderEnded DEF Terminal
  <2>7. CASE journal'.phase = "staged"
    <3>1. /\ journal'.replaced = {e \in EntriesOf(journal.target) : install[e] # Gone}
          /\ staged' = [e \in Entry |-> IF e \in EntriesOf(journal.target)
                                        THEN journal.target ELSE Gone]
      BY <1>4, <2>7, StageFields
    <3>2. ASSUME NEW e \in Entry PROVE Back(e)'
      BY <2>1, <2>2, <2>3, <3>1 DEF Back, OldFits, Whole, Nowhere
    <3>3. ASSUME NEW e \in Entry PROVE Waits(e)'
      BY <2>3, <3>1 DEF Waits
    <3> QED
      BY <2>1, <2>5, <2>7, <3>2, <3>3 DEF FolderInv, Taking
  <2> QED
    BY <2>4, <2>6, <2>7
<1>5. CASE RestartOld \/ StartService \/ RecoverNothing \/ Open \/ StopService
           \/ ServiceDies \/ UpdaterDies \/ StartOld
  BY <1>5, FolderKept DEF RestartOld, StartService, RecoverNothing, Open, StopService,
     ServiceDies, UpdaterDies, StartOld
<1>6. CASE BeginSwitch
  <2>1. /\ Wrote("switching", journal.reason) /\ journal.phase = "staged"
        /\ job' = "switch" /\ n' = 1 /\ half' = "out" /\ UNCHANGED folderVars
    BY <1>6 DEF BeginSwitch, ProcInv
  <2>2. \A e \in Entry : Back(e)' /\ Waits(e)'
    BY <2>1, SameFolder DEF FolderInv, Wrote
  <2>3. Torn'
    BY <2>2 DEF Torn
  <2>4. /\ Entries' = Entries /\ \A k \in DOMAIN Entries : k >= 1 /\ k \in Nat
        /\ \A k \in DOMAIN Entries : Entries[k] \in Entry
    BY <2>1, SameFolder, EntryFacts, VersionFacts DEF Wrote, TypeOK
  <2>5. Switching'
    BY <2>1, <2>2, <2>4 DEF Switching
  <2> QED
    BY <2>1, <2>3, <2>5 DEF FolderInv, Taking, Wrote
<1>7. CASE Switch
  <2>1. Switching' /\ Torn'
    BY <1>7, SwitchEntry
  <2>2. journal.phase = "switching" /\ journal' = journal /\ job' = "switch"
    BY <1>7 DEF Switch, ProcInv
  <2> QED
    BY <2>1, <2>2 DEF FolderInv, Taking
<1>8. CASE SwitchFails
  BY <1>8, TakeBackBegins DEF SwitchFails, ProcInv, FolderInv, Wrote
<1>9. CASE Switched
  <2>1. /\ AllNew /\ UNCHANGED <<install, previous>> /\ staged' = Nowhere /\ job' = "none"
        /\ Wrote("switched", journal.reason)
    BY <1>9, SwitchedAll DEF Switched
  <2>2. AllNew' /\ journal.phase = "switching"
    BY <1>9, <2>1, Cleared DEF Wrote, Switched, ProcInv
  <2>3. Whole(journal.target)
    BY <1>a, <2>1, <2>2, WholeFacts
  <2>4. Whole(Current)'
    BY <2>1, <2>3 DEF Whole, Current, Wrote
  <2> QED
    BY <2>1, <2>2, <2>4 DEF FolderInv, Taking, Wrote
<1>10. CASE StartNew
  <2>1. journal.phase = "switched" /\ AllNew
    BY <1>10 DEF StartNew, ProcInv, FolderInv
  <2>2. Torn
    BY <1>a, <2>1, WholeFacts
  <2>3. CASE UNCHANGED <<journal, jobVars>>
    BY <1>10, <2>3, FolderKept DEF StartNew
  <2>4. CASE BeginTakeBack /\ End("rolling_back", "failed")
    BY <1>10, <2>2, <2>4, TakeBackBegins DEF StartNew, Wrote
  <2> QED
    BY <1>10, <2>3, <2>4 DEF StartNew
<1>11. CASE NewStarted
  BY <1>11, NewStartedFields, FolderKept DEF NewStarted
<1>12. CASE Verified \/ Confirm
  <2>1. Wrote("verified", journal.reason) /\ journal.phase = "switched" /\ UNCHANGED <<install, job>>
    BY <1>12 DEF Verified, Confirm, ProcInv
  <2>2. job' = "none"
    BY <1>12, <2>1 DEF Verified, Confirm, ProcInv, Taking, TypeOK, Answers
  <2>3. ByHand' \/ Whole(Current)'
    BY <2>1 DEF FolderInv, Current, Whole, Wrote
  <2> QED
    BY <2>1, <2>2, <2>3, FolderEnded DEF Wrote, Terminal
<1>13. CASE NotProven
  <2>1. /\ journal.phase = "switched" /\ AllNew /\ job' = "none" /\ UNCHANGED folderVars
        /\ Wrote("rolling_back", "failed")
    BY <1>13 DEF NotProven, ProcInv, FolderInv, Taking, TypeOK
  <2>2. Torn'
    BY <1>a, <2>1, WholeFacts, SameFolder DEF Wrote
  <2> QED
    BY <2>1, <2>2 DEF FolderInv, Wrote, Taking
<1>14. CASE StopNew
  BY <1>14, TakeBackBegins DEF StopNew, ProcInv, FolderInv
<1>15. CASE RollBack
  <2>1. Rolling' /\ Torn'
    BY <1>15, RollEntry
  <2>2. journal.phase = "rolling_back" /\ journal' = journal /\ job' = "roll"
    BY <1>15 DEF RollBack, ProcInv, Taking
  <2> QED
    BY <2>1, <2>2 DEF FolderInv, Taking
<1>16. CASE RollBackDone
  <2>1. AllBack /\ UNCHANGED <<folderVars, journal>> /\ job' = "clear"
        /\ journal.phase = "rolling_back"
    BY <1>16, RolledAll DEF RollBackDone, ProcInv, Taking
  <2>2. AllBack' /\ Torn'
    BY <1>a, <2>1, SameFolder, WholeFacts
  <2> QED
    BY <2>1, <2>2 DEF FolderInv, Taking
<1>17. CASE RollBackClear
  <2>1. /\ AllBack /\ UNCHANGED <<install, journal>> /\ job' \in {"set_aside", "done"}
        /\ staged' = Nowhere /\ previous' = Nowhere /\ journal.phase = "rolling_back"
    BY <1>17 DEF RollBackClear, FolderInv, ProcInv, Taking
  <2>2. AllBack'
    BY <2>1, Cleared
  <2>3. Torn'
    BY <2>2 DEF AllBack, Torn
  <2> QED
    BY <2>1, <2>2, <2>3 DEF FolderInv, Taking
<1>18. CASE SetDatabaseAside \/ PutCopyBack
  BY <1>18, FolderKept DEF SetDatabaseAside, PutCopyBack, Taking
<1>19. CASE TakeBackFails \/ OldDoesNotAnswer
  <2>1. Wrote("failed", "rollback_failed") /\ job' = "none"
    BY <1>19 DEF TakeBackFails, OldDoesNotAnswer, ProcInv, Taking
  <2> QED
    BY <2>1, FolderEnded DEF Wrote, Terminal
<1>20. CASE OldAnswers
  <2>1. /\ journal.phase = "rolling_back" /\ service.version = journal.from
        /\ service.at = "serving" /\ ~ByHand /\ job' = "none" /\ UNCHANGED install
        /\ Wrote("rolled_back", journal.reason)
    BY <1>20 DEF OldAnswers, Answers, ProcInv, Taking, JournalInv
  <2>2. Whole(journal.from)
    BY <2>1, ServesWhole
  <2>3. Whole(Current)'
    BY <2>1, <2>2 DEF Whole, Current, Wrote
  <2> QED
    BY <2>1, <2>3, FolderEnded DEF Wrote, Terminal
<1>21. CASE RecoveredTakeBack
  <2>1. /\ AllBack /\ journal.phase = "rolling_back" /\ UNCHANGED install /\ job' = "none"
        /\ Wrote("rolled_back", journal.reason)
    BY <1>21 DEF RecoveredTakeBack, FolderInv, ProcInv, Taking
  <2>2. Whole(Current)'
    BY <1>a, <2>1, WholeFacts DEF Whole, Current, Wrote
  <2> QED
    BY <2>1, <2>2, FolderEnded DEF Wrote, Terminal
<1>22. CASE RecoverUnswitched
  <2>1. /\ Wrote("failed", "failed") /\ journal.phase \in {"handed", "stopping", "staged"}
        /\ UNCHANGED install /\ job' = "none"
    BY <1>22 DEF RecoverUnswitched, Unattended, ProcInv, Taking
  <2>2. Whole(Current)'
    BY <2>1 DEF FolderInv, JournalInv, Whole, Current, Wrote
  <2> QED
    BY <2>1, <2>2, FolderEnded DEF Wrote, Terminal
<1>23. CASE RecoverTakesBack
  <2>1. Torn
    BY <1>a, <1>23, RecoverTakesBackFields, WholeFacts DEF FolderInv
  <2> QED
    BY <1>23, <2>1, RecoverTakesBackFields, TakeBackBegins DEF RecoverTakesBack
<1>24. CASE RecoverSwitched
  <2>1. UNCHANGED <<folderVars, jobVars>>
    BY <1>24 DEF RecoverSwitched
  <2> QED
    BY <1>24, <2>1, FolderKept DEF Wrote
<1>25. CASE RecoverEnded
  <2>1. UNCHANGED <<install, job>> /\ journal.phase \in Terminal
        /\ Wrote(journal.phase, journal.reason) /\ job' = "none"
    BY <1>25 DEF RecoverEnded, Unattended, ProcInv, Taking
  <2>2. ByHand' \/ Whole(Current)'
    BY <2>1 DEF FolderInv, Whole, Current, Wrote, Terminal
  <2> QED
    BY <2>1, <2>2, FolderEnded DEF Wrote
<1>26. CASE UNCHANGED vars
  BY <1>26, FolderKept DEF vars
<1> QED
  BY <1>1, <1>2, <1>3, <1>4, <1>5, <1>6, <1>7, <1>8, <1>9, <1>10, <1>11, <1>12, <1>13,
     <1>14, <1>15, <1>16, <1>17, <1>18, <1>19, <1>20, <1>21, <1>22, <1>23, <1>24, <1>25,
     <1>26 DEF Next, Updater, TakeBack, Service

-----------------------------------------------------------------------------
(* The service and the database.                                           *)

\* A start runs the version the folder holds.
LEMMA SpawnFacts ==
    ASSUME TypeOK, JournalInv, Spawn
    PROVE  /\ service'.at = "recovering"
           /\ \A v \in Version : Whole(v) => service'.version = v
           /\ Torn /\ journal.phase # "none" /\ install["program"] # Gone =>
                 service'.version \in {journal.from, journal.target}
<1>1. service'.at = "recovering" /\ service'.version = install["program"]
  BY DEF Spawn
<1>2. \A v \in Version : Whole(v) => install["program"] = v
  BY VersionFacts DEF Whole
<1>3. Torn /\ journal.phase # "none" =>
         install["program"] \in {Gone, journal.from, journal.target}
  BY WholeFacts DEF JournalInv
<1> QED
  BY <1>1, <1>2, <1>3

\* No phase with a service alive, or a service of the version the phase names.
LEMMA ServiceFits ==
    ASSUME service'.at = "down" \/ ByHand' \/
             (/\ service'.version \in Version
              /\ journal'.phase \notin {"switching", "rolling_back"}
              /\ service'.version = Current')
    PROVE  ServiceInv'
  BY DEF ServiceInv

LEMMA NextService ==
    ASSUME UInv, [Next]_vars
    PROVE  ServiceInv'
<1> TypeOK /\ JournalInv /\ ProcInv /\ FolderInv /\ ServiceInv /\ DatabaseInv
  BY DEF UInv
<1>a. journal.phase # "none" => journal.target = journal.from + 1
  BY DEF JournalInv
<1>b. journal.from \in Version /\ journal.target \in Version
  BY DEF TypeOK
<1>c. Down.at = "down"
  BY DEF Down
<1>d. GoOn => service'.at = "opening" /\ service'.version = service.version
  BY DEF GoOn, TypeOK
<1> USE WroteFacts DEF ByHand, folderVars, jobVars
<1>1. CASE HandOver
  <2>1. service.version \in Version /\ service' = service
    BY <1>1, ServesWhole DEF HandOver
  <2>2. journal'.phase = "handed" /\ journal'.from = service.version
    BY <1>1, <2>1, HandOverFields
  <2> QED
    BY <2>1, <2>2, ServiceFits DEF Current
<1>2. CASE UpdaterStops \/ (UpdaterStopped /\ service' # Down)
  <2>1. /\ service' = service /\ journal.phase \in {"handed", "stopping"}
        /\ journal'.phase \in {"stopping", "failed"}
        /\ journal'.from = journal.from
    BY <1>2 DEF UpdaterStops, UpdaterStopped, ProcInv, Wrote
  <2>2. ~ByHand
    BY <2>1 DEF JournalInv
  <2> QED
    BY <2>1, <2>2, ServiceFits DEF Current, ServiceInv
<1>3. CASE (UpdaterStopped /\ service' = Down) \/ Stage \/ BeginSwitch \/ Switch \/ SwitchFails
           \/ Switched \/ (StartNew /\ updater' # "started") \/ StopNew \/ TakeBackFails
           \/ StopService \/ ServiceDies
  <2>1. service'.at = "down"
    BY <1>3, <1>c DEF Stage, BeginSwitch, Switch, SwitchFails, Switched, StartNew,
       StopNew, TakeBackFails, StopService, ServiceDies, ProcInv
  <2> QED
    BY <2>1, ServiceFits
<1>4. CASE RestartOld
  <2>1. journal.phase = "failed" /\ journal' = journal /\ Spawn
    BY <1>4 DEF RestartOld, ProcInv
  <2>2. ByHand \/ Whole(journal.from)
    BY <2>1 DEF FolderInv, Current
  <2>3. ByHand \/ service'.version = journal.from
    BY <1>b, <2>1, <2>2, SpawnFacts
  <2> QED
    BY <1>b, <2>1, <2>3, ServiceFits DEF Current
<1>5. CASE StartNew /\ updater' = "started"
  <2>1. journal.phase = "switched" /\ ~ByHand
    BY <1>5 DEF StartNew, ProcInv, JournalInv
  <2>2. service'.version = journal.target
    BY <1>b, <1>5, <2>1, SpawnFacts DEF StartNew, FolderInv, Current
  <2>3. journal'.phase = "switched" /\ journal'.target = journal.target
    BY <1>5, <2>1 DEF StartNew
  <2> QED
    BY <1>b, <2>2, <2>3, ServiceFits DEF Current
<1>6. CASE NewStarted
  <2>1. journal.phase = "switched" /\ ~ByHand /\ service' = service
    BY <1>6 DEF NewStarted, ProcInv, JournalInv
  <2>2. journal'.phase = "switched" /\ journal'.target = journal.target
    BY <1>6, <2>1, NewStartedFields
  <2> QED
    BY <2>1, <2>2, ServiceFits DEF Current, ServiceInv
<1>7. CASE Verified \/ Confirm
  <2>1. /\ Wrote("verified", journal.reason) /\ service' = service
        /\ service.version = journal.target
    BY <1>7 DEF Verified, Confirm, Answers
  <2> QED
    BY <1>b, <2>1, ServiceFits DEF Current, Wrote
<1>8. CASE NotProven
  <2>1. /\ journal.phase = "switched" /\ ~ByHand /\ updater = "proving" /\ service' = service
        /\ Wrote("rolling_back", "failed") /\ UNCHANGED <<folderVars, db>>
        /\ journal.new_started
    BY <1>8 DEF NotProven, ProcInv, JournalInv, dbVars
  <2>2. AllNew' /\ Fits(journal.target)
    BY <2>1, SameFolder DEF FolderInv, DatabaseInv, Current, Wrote
  <2>3. service.at # "down" => service.version = journal.target
    BY <2>1 DEF ServiceInv, Current
  <2> QED
    BY <1>b, <2>1, <2>2, <2>3 DEF ServiceInv, Fits, Wrote
<1>9. CASE RollBack \/ RollBackDone \/ RollBackClear \/ SetDatabaseAside \/ PutCopyBack
  <2>1. /\ journal.phase = "rolling_back" /\ UNCHANGED <<journal, service, updater>>
        /\ service.at \in {"down", "taking_back"} /\ ~ByHand
    BY <1>9 DEF RollBack, RollBackDone, RollBackClear, SetDatabaseAside, PutCopyBack,
       ProcInv, Taking, JournalInv
  <2> QED
    BY <2>1 DEF ServiceInv, Underway
<1>10. CASE StartOld
  <2>1. /\ journal.phase = "rolling_back" /\ AllBack /\ Fits(journal.from) /\ ~ByHand
        /\ Spawn /\ UNCHANGED <<folderVars, journal, db>>
    BY <1>10 DEF StartOld, ProcInv, FolderInv, DatabaseInv, JournalInv, Taking, dbVars
  <2>2. AllBack' /\ Whole(journal.from)
    BY <1>a, <2>1, SameFolder, WholeFacts
  <2>3. service'.version = journal.from
    BY <1>b, <2>1, <2>2, SpawnFacts
  <2> QED
    BY <1>b, <2>1, <2>2, <2>3 DEF ServiceInv, Fits
<1>11. CASE OldAnswers
  <2>1. /\ Wrote("rolled_back", journal.reason) /\ service' = service
        /\ service.version = journal.from
    BY <1>11 DEF OldAnswers, Answers
  <2> QED
    BY <1>b, <2>1, ServiceFits DEF Current, Wrote
<1>12. CASE OldDoesNotAnswer
  BY <1>12, ServiceFits DEF OldDoesNotAnswer, Wrote
<1>13. CASE RecoveredTakeBack
  <2>1. /\ Wrote("rolled_back", journal.reason) /\ AllBack /\ journal.phase = "rolling_back"
    BY <1>13 DEF RecoveredTakeBack, ProcInv, FolderInv, Taking
  <2>2. Whole(journal.from)
    BY <1>a, <2>1, WholeFacts
  <2>3. service'.version = journal.from
    <3>1. CASE service.version = journal.from
      BY <1>13, <3>1 DEF RecoveredTakeBack, TypeOK
    <3>2. CASE service.version # journal.from
      BY <1>b, <1>13, <2>2, <3>2, SpawnFacts DEF RecoveredTakeBack
    <3> QED
      BY <3>1, <3>2
  <2> QED
    BY <1>b, <2>1, <2>3, ServiceFits DEF Current, Wrote
<1>14. CASE StartService
  <2>1. /\ Spawn /\ UNCHANGED <<journal, updater>> /\ updater = "none"
        /\ install["program"] # Gone
    BY <1>14 DEF StartService
  <2>2. service'.at = "recovering"
    BY <2>1, SpawnFacts
  <2>3. CASE journal.phase \in {"switching", "rolling_back"}
    <3>1. service'.version \in {journal.from, journal.target}
      BY <2>1, <2>3, SpawnFacts DEF FolderInv
    <3> QED
      BY <1>b, <2>1, <2>2, <2>3, <3>1 DEF ServiceInv, Underway
  <2>4. CASE journal.phase \notin {"switching", "rolling_back"}
    <3>1. Current \in Version /\ Current' = Current
      BY <1>b, <2>1 DEF Current
    <3>2. ByHand \/ service'.version = Current
      BY <2>1, <2>4, <3>1, SpawnFacts DEF FolderInv
    <3> QED
      BY <2>1, <2>4, <3>1, <3>2, ServiceFits
  <2> QED
    BY <2>3, <2>4
<1>15. CASE RecoverNothing
  <2>1. /\ service.at = "recovering" /\ (journal.phase = "none" \/ updater # "none")
        /\ service'.at = "opening" /\ service'.version = service.version
        /\ UNCHANGED <<folderVars, journal, updater, db>>
    BY <1>d, <1>15 DEF RecoverNothing, Unattended, dbVars
  <2>2. journal.phase # "switching"
    BY <2>1 DEF ProcInv, TypeOK
  <2>3. (AllNew' <=> AllNew) /\ (AllBack' <=> AllBack)
    BY <2>1, SameFolder
  <2>4. CASE journal.phase = "rolling_back"
    BY <2>1, <2>3, <2>4 DEF ServiceInv, Underway, Fits
  <2>5. CASE journal.phase # "rolling_back"
    BY <2>1, <2>2, <2>5, ServiceFits DEF ServiceInv, Current
  <2> QED
    BY <2>4, <2>5
<1>16. CASE RecoverUnswitched
  <2>1. /\ Wrote("failed", "failed") /\ journal.phase \in {"handed", "stopping", "staged"}
        /\ service'.version = service.version /\ service.at = "recovering" /\ ~ByHand
    BY <1>d, <1>16 DEF RecoverUnswitched, Unattended, JournalInv
  <2> QED
    BY <2>1, ServiceFits DEF ServiceInv, Current, Wrote
<1>17. CASE RecoverTakesBack
  <2>1. /\ service'.at = "taking_back" /\ service'.version = service.version
        /\ service.at = "recovering" /\ UNCHANGED updater
    BY <1>17 DEF RecoverTakesBack, Unattended, TypeOK
  <2>2. /\ journal'.phase = "rolling_back" /\ journal'.from = journal.from
        /\ journal'.target = journal.target
        /\ journal.phase \in {"switching", "rolling_back", "switched"}
    BY <1>17, RecoverTakesBackFields
  <2>3. service.version \in {journal.from, journal.target}
    BY <2>1, <2>2 DEF ServiceInv, JournalInv, Current
  <2> QED
    BY <1>b, <2>1, <2>2, <2>3 DEF ServiceInv, Underway
<1>18. CASE RecoverSwitched \/ RecoverEnded
  <2>1. /\ service.at = "recovering" /\ service'.version = service.version
        /\ journal.phase \in Terminal \cup {"switched"}
    BY <1>d, <1>18 DEF RecoverSwitched, RecoverEnded, Unattended
  <2>2. Wrote(journal.phase, journal.reason)
    BY <1>18
  <2> QED
    BY <2>1, <2>2, ServiceFits DEF ServiceInv, Current, Wrote, Terminal
<1>19. CASE Open
  <2>1. /\ service.at = "opening" /\ UNCHANGED <<folderVars, journal, updater>>
        /\ \/ service'.at = "down"
           \/ /\ service'.at = "serving" /\ service'.version = service.version
              /\ db'.schema = service.version
    BY <1>c, <1>19 DEF Open, TypeOK
  <2>2. (AllNew' <=> AllNew) /\ (AllBack' <=> AllBack)
    BY <2>1, SameFolder
  <2>3. CASE journal.phase = "rolling_back" /\ service'.at = "serving" /\ ~ByHand
    <3>1. \/ service.version = journal.target /\ AllNew /\ journal.new_started
          \/ service.version = journal.from /\ AllBack
      BY <2>1, <2>3 DEF ServiceInv, Underway
    <3>2. Fits(service.version)'
      BY <1>b, <2>1, <2>3, <3>1, VersionFacts DEF Fits
    <3> QED
      BY <1>b, <2>1, <2>2, <2>3, <3>1, <3>2 DEF ServiceInv, Fits
  <2>4. CASE journal.phase # "rolling_back" \/ service'.at # "serving" \/ ByHand
    BY <2>1, <2>4, ServiceFits DEF ServiceInv, Current
  <2> QED
    BY <2>3, <2>4
<1>20. CASE UpdaterDies \/ UNCHANGED vars
  <2>1. /\ UNCHANGED <<folderVars, journal, service, db>>
        /\ updater' = updater \/ updater' = "none"
    BY <1>20 DEF UpdaterDies, vars, dbVars
  <2>2. (AllNew' <=> AllNew) /\ (AllBack' <=> AllBack)
    BY <2>1, SameFolder
  <2> QED
    BY <2>1, <2>2 DEF ServiceInv, Underway, Fits, Current
<1> QED
  BY <1>1, <1>2, <1>3, <1>4, <1>5, <1>6, <1>7, <1>8, <1>9, <1>10, <1>11, <1>12, <1>13,
     <1>14, <1>15, <1>16, <1>17, <1>18, <1>19, <1>20 DEF Next, Updater, TakeBack, Service

LEMMA NextDatabase ==
    ASSUME UInv, [Next]_vars
    PROVE  DatabaseInv'
<1> TypeOK /\ JournalInv /\ ProcInv /\ ServiceInv /\ DatabaseInv
  BY DEF UInv
<1>a. journal.phase # "none" => journal.target = journal.from + 1
  BY DEF JournalInv
<1>b. /\ journal.from \in Version /\ journal.target \in Version
      /\ journal.from \in Nat /\ journal.target \in Nat
  BY VersionFacts DEF TypeOK
<1>c. Fits(journal.from) /\ journal.phase # "none" => Fits(journal.target)
  BY <1>a, <1>b DEF Fits
<1>d. journal.phase \in Working => ~ByHand /\ journal.phase # "none"
  BY DEF JournalInv, ByHand, Working
<1> USE WroteFacts DEF ByHand, jobVars, dbVars
<1>1. CASE HandOver
  <2>1. service.version \in Version /\ Fits(service.version)
    BY <1>1, ServesWhole DEF HandOver
  <2>2. /\ journal'.phase = "handed" /\ journal'.from = service.version
    BY <1>1, <2>1, HandOverFields
  <2>3. db'.schema = db.schema /\ copy' = db.schema /\ updater' = "handed" /\ job' # "done"
    BY <1>1 DEF HandOver, TypeOK, ProcInv, Taking
  <2> QED
    BY <2>1, <2>2, <2>3 DEF DatabaseInv, Fits, Current
<1>2. CASE UpdaterStops \/ UpdaterStopped
  <2>1. /\ journal.phase \in {"handed", "stopping"}
        /\ journal'.phase \in {"stopping", "failed"} /\ journal'.from = journal.from
        /\ updater' # "starting" /\ job' # "done" /\ UNCHANGED dbVars
    BY <1>2 DEF UpdaterStops, UpdaterStopped, ProcInv, Taking, Wrote
  <2> QED
    BY <1>d, <2>1 DEF DatabaseInv, Fits, Current, Working
<1>3. CASE Stage
  <2>1. /\ journal.phase = "stopping" /\ updater' # "starting" /\ job' # "done"
        /\ UNCHANGED dbVars
    BY <1>3 DEF Stage, ProcInv, Taking
  <2>2. journal'.phase \in {"staged", "failed"} /\ journal'.from = journal.from
    BY <1>3, StageFields
  <2> QED
    BY <1>d, <2>1, <2>2 DEF DatabaseInv, Fits, Current, Working
<1>4. CASE RestartOld \/ Switch \/ StopNew \/ RollBack \/ RollBackDone \/ StartOld
           \/ StartService \/ RecoverNothing \/ StopService \/ ServiceDies \/ UpdaterDies
           \/ UNCHANGED vars
  <2>1. /\ UNCHANGED <<journal, dbVars>> /\ (updater' = "starting" => updater = "starting")
        /\ job' = "done" => job = "done"
    BY <1>4 DEF RestartOld, Switch, StopNew, RollBack, RollBackDone, StartOld,
       StartService, RecoverNothing, StopService, ServiceDies, UpdaterDies, vars, BeginTakeBack
  <2> QED
    BY <2>1 DEF DatabaseInv, Fits, Current
<1>5. CASE BeginSwitch
  <2>1. /\ Wrote("switching", journal.reason) /\ journal.phase = "staged"
        /\ updater' # "starting" /\ job' # "done" /\ UNCHANGED dbVars
    BY <1>5 DEF BeginSwitch, ProcInv
  <2> QED
    BY <1>d, <2>1 DEF DatabaseInv, Fits, Current, Working, Wrote
<1>6. CASE SwitchFails \/ (StartNew /\ updater' # "started")
  <2>1. /\ Wrote("rolling_back", "failed")
        /\ journal.phase \in {"switching", "switched"} /\ updater' # "starting"
        /\ job' # "done" /\ UNCHANGED dbVars
        /\ journal.phase = "switching" \/ updater = "starting"
    BY <1>6 DEF SwitchFails, StartNew, ProcInv, BeginTakeBack
  <2>2. Fits(journal.from)
    BY <1>d, <2>1 DEF DatabaseInv, Current, Working
  <2> QED
    BY <1>d, <2>1, <2>2 DEF DatabaseInv, Fits, Working, Wrote
<1>7. CASE Switched
  <2>1. /\ Wrote("switched", journal.reason) /\ journal.phase = "switching"
        /\ job' = "none" /\ UNCHANGED dbVars
    BY <1>7 DEF Switched, ProcInv
  <2>2. Fits(journal.from) /\ Fits(journal.target)
    BY <1>c, <1>d, <2>1 DEF DatabaseInv, Current, Working
  <2> QED
    BY <1>d, <2>1, <2>2 DEF DatabaseInv, Fits, Current, Working, Wrote
<1>8. CASE StartNew /\ updater' = "started"
  <2>1. UNCHANGED <<journal, dbVars, job>>
    BY <1>8 DEF StartNew
  <2> QED
    BY <1>8, <2>1 DEF DatabaseInv, Fits, Current
<1>9. CASE NewStarted
  <2>1. /\ journal.phase = "switched" /\ UNCHANGED <<dbVars, job>> /\ updater' # "starting"
        /\ job # "done"
    BY <1>9 DEF NewStarted, ProcInv, Taking
  <2>2. journal'.phase = "switched" /\ journal'.from = journal.from
        /\ journal'.target = journal.target
    BY <1>9, <2>1, NewStartedFields
  <2> QED
    BY <1>d, <2>1, <2>2 DEF DatabaseInv, Fits, Current, Working
<1>10. CASE Verified \/ Confirm
  <2>1. /\ Wrote("verified", journal.reason) /\ journal.phase = "switched"
        /\ UNCHANGED <<dbVars, job>> /\ updater' = "none" /\ job # "done"
    BY <1>10 DEF Verified, Confirm, ProcInv, Answers, Taking
  <2> QED
    BY <1>d, <2>1 DEF DatabaseInv, Fits, Current, Working, Wrote
<1>11. CASE NotProven
  <2>1. /\ Wrote("rolling_back", "failed") /\ journal.phase = "switched"
        /\ journal.new_started /\ UNCHANGED <<dbVars, job>> /\ updater' # "starting"
        /\ job # "done"
    BY <1>11 DEF NotProven, ProcInv, Taking
  <2> QED
    BY <1>d, <2>1 DEF DatabaseInv, Fits, Working, Wrote
<1>12. CASE RollBackClear \/ SetDatabaseAside \/ PutCopyBack
  <2>1. /\ journal.phase = "rolling_back" /\ UNCHANGED <<journal, copy, updater>>
        /\ updater # "starting"
    BY <1>12 DEF RollBackClear, SetDatabaseAside, PutCopyBack, ProcInv, Taking
  <2>2. copy \in 1 .. journal.from
    BY <1>d, <2>1 DEF DatabaseInv, Working
  <2>3. CASE RollBackClear
    <3>1. /\ job' = "done" => ~journal.new_started
          /\ UNCHANGED db
      BY <2>3 DEF RollBackClear
    <3> QED
      BY <1>d, <2>1, <2>2, <3>1 DEF DatabaseInv, Fits, Working
  <2>4. CASE SetDatabaseAside
    <3>1. job' = "copy" /\ journal.new_started
      BY <2>4 DEF SetDatabaseAside, ProcInv
    <3> QED
      BY <2>1, <2>2, <3>1 DEF DatabaseInv
  <2>5. CASE PutCopyBack
    <3>1. db'.schema = copy
      BY <2>5 DEF PutCopyBack
    <3> QED
      BY <2>1, <2>2, <3>1 DEF DatabaseInv, Fits
  <2> QED
    BY <1>12, <2>3, <2>4, <2>5
<1>13. CASE TakeBackFails \/ OldDoesNotAnswer
  <2>1. Wrote("failed", "rollback_failed")
    BY <1>13 DEF TakeBackFails, OldDoesNotAnswer
  <2> QED
    BY <2>1 DEF DatabaseInv, Wrote
<1>14. CASE OldAnswers
  <2>1. /\ Wrote("rolled_back", journal.reason) /\ journal.phase = "rolling_back"
        /\ service.at = "serving" /\ service.version = journal.from
        /\ UNCHANGED <<dbVars, job>> /\ updater' = "none" /\ job # "done"
    BY <1>14 DEF OldAnswers, Answers, ProcInv, Taking
  <2>2. Fits(journal.from)
    BY <1>d, <2>1, ServesWhole DEF Working
  <2> QED
    BY <2>1, <2>2 DEF DatabaseInv, Fits, Current, Working, Wrote
<1>15. CASE RecoveredTakeBack
  <2>1. /\ Wrote("rolled_back", journal.reason) /\ journal.phase = "rolling_back"
        /\ job = "done" /\ job' = "none" /\ UNCHANGED <<dbVars, updater>>
        /\ updater # "starting"
    BY <1>15 DEF RecoveredTakeBack, ProcInv
  <2> QED
    BY <1>d, <2>1 DEF DatabaseInv, Fits, Current, Working, Wrote
<1>16. CASE RecoverUnswitched
  <2>1. /\ Wrote("failed", "failed") /\ journal.phase \in {"handed", "stopping", "staged"}
        /\ UNCHANGED <<dbVars, job>> /\ updater' = "none" /\ job # "done"
    BY <1>16 DEF RecoverUnswitched, Unattended, ProcInv, Taking
  <2> QED
    BY <1>d, <2>1 DEF DatabaseInv, Fits, Current, Working, Wrote
<1>17. CASE RecoverTakesBack
  <2>1. UNCHANGED dbVars /\ job' = "roll" /\ updater' = "none"
    BY <1>17 DEF RecoverTakesBack, Unattended, BeginTakeBack
  <2>2. /\ journal'.phase = "rolling_back" /\ journal'.from = journal.from
        /\ \/ /\ journal'.new_started = journal.new_started
              /\ journal.phase \in {"switching", "rolling_back"}
           \/ journal'.new_started = TRUE /\ journal.phase = "switched"
    BY <1>17, RecoverTakesBackFields
  <2> QED
    BY <1>d, <2>1, <2>2 DEF DatabaseInv, Fits, Current, Working
<1>18. CASE RecoverSwitched \/ RecoverEnded
  <2>1. UNCHANGED <<dbVars, job>> /\ updater' = "none"
    BY <1>18 DEF RecoverSwitched, RecoverEnded, Unattended
  <2>2. Wrote(journal.phase, journal.reason)
    BY <1>18
  <2> QED
    BY <2>1, <2>2 DEF DatabaseInv, Fits, Current, Wrote
<1>19. CASE Open
  <2>1. /\ service.at = "opening" /\ UNCHANGED <<journal, copy, updater, job>>
        /\ updater # "starting" /\ job # "done"
        /\ db' = db \/ db'.schema = service.version
    BY <1>19 DEF Open, ProcInv, Taking, TypeOK
  <2>2. CASE db' = db
    BY <2>1, <2>2 DEF DatabaseInv, Fits, Current
  <2>3. CASE db'.schema = service.version /\ ~ByHand
    <3>1. service.version \in 1 .. service.version
      BY <2>1, <2>3, VersionFacts DEF ServiceInv
    <3>2. /\ journal.phase # "switching"
          /\ journal.phase # "rolling_back" => service.version = Current
          /\ journal.phase = "rolling_back" /\ ~journal.new_started =>
                service.version = journal.from
      BY <2>1, <2>3 DEF ServiceInv, Underway
    <3> QED
      BY <2>1, <2>3, <3>1, <3>2 DEF DatabaseInv, Fits, Current
  <2>4. CASE ByHand
    BY <2>1, <2>4 DEF DatabaseInv
  <2> QED
    BY <2>1, <2>2, <2>3, <2>4
<1> QED
  BY <1>1, <1>2, <1>3, <1>4, <1>5, <1>6, <1>7, <1>8, <1>9, <1>10, <1>11, <1>12, <1>13,
     <1>14, <1>15, <1>16, <1>17, <1>18, <1>19 DEF Next, Updater, TakeBack, Service

-----------------------------------------------------------------------------
(* The theorems.                                                           *)

LEMMA UpdateInvariant == Spec => []UInv
<1>1. UInv /\ [Next]_vars => UInv'
  BY NextTypes, NextJournal, NextProc, NextFolder, NextService, NextDatabase DEF UInv
<1> QED
  BY InitInv, <1>1, PTL DEF Spec

\* Type correctness of the update: every field of the journal, the folder and the
\* database keeps its domain, whatever fails.
THEOREM TypesAreRight == Spec => []TypeOK
<1>1. UInv => TypeOK
  BY DEF UInv
<1> QED
  BY <1>1, UpdateInvariant, PTL

\* A start that has gone past `recover_at_start` runs from a folder that holds its
\* own version of every entry and none of a later one, for any archives and any
\* stops and faults of the updater and the service.
THEOREM FolderIsOneVersion == Spec => []OneVersion
<1>1. UInv => OneVersion
  BY ServesWhole DEF OneVersion
<1> QED
  BY <1>1, UpdateInvariant, PTL

\* `switch` and `roll_back`, stopped after any rename and run again any number of
\* times, leave what an update replaces in its place or in `.previous/`.
THEOREM ThereIsAWayBack == Spec => []WayBack
<1>1. UInv => WayBack
  <2> SUFFICES ASSUME UInv, journal.phase \in Working \ {"handed", "stopping"},
                      NEW e \in journal.replaced
               PROVE  \E v \in {install[e], previous[e]} \ {Gone} :
                         /\ v <= journal.from
                         /\ e \in EntriesOf(journal.from) => v = journal.from
    BY DEF WayBack
  <2>1. /\ TypeOK /\ journal.target = journal.from + 1 /\ ~ByHand
        /\ e \in EntriesOf(journal.target) /\ e \in Entry
    BY DEF UInv, JournalInv, TypeOK, Working
  <2>2. Torn
    <3>1. CASE journal.phase = "staged"
      BY <3>1 DEF UInv, FolderInv, Torn
    <3>2. CASE journal.phase = "switched"
      BY <2>1, <3>2, WholeFacts DEF UInv, FolderInv
    <3>3. CASE journal.phase \in {"switching", "rolling_back"}
      BY <3>3 DEF UInv, FolderInv
    <3> QED
      BY <3>1, <3>2, <3>3 DEF Working
  <2>3. OldFits(e, install[e]) \/ OldFits(e, previous[e])
    BY <2>1, <2>2 DEF Torn, Back, Emptied, New
  <2> QED
    BY <2>1, <2>3 DEF OldFits
<1> QED
  BY <1>1, UpdateInvariant, PTL

\* No start opens a database of a later schema than its own, nor misses one: the
\* copy is back before `recover_at_start` lets the old version go on.
THEOREM DatabaseAlwaysFits == Spec => []DatabaseFits
<1>1. UInv => DatabaseFits
  BY ServesWhole DEF DatabaseFits, Fits
<1> QED
  BY <1>1, UpdateInvariant, PTL

\* An ended update is never reopened: `end` is the last write to its journal but
\* for the mark that its leftovers are gone.
THEOREM EndStays == Spec => EndIsFinal
<1>1. UInv /\ [Next]_vars =>
         [journal.phase \in Terminal => journal'.phase \in {journal.phase, "handed"}]_vars
  <2> SUFFICES ASSUME UInv, [Next]_vars, journal.phase \in Terminal
               PROVE  journal'.phase \in {journal.phase, "handed"} \/ UNCHANGED vars
    OBVIOUS
  <2>1. TypeOK /\ ProcInv
    BY DEF UInv
  <2>2. updater \in {"none", "restarting_old"} /\ service.at # "taking_back"
        /\ job = "none"
    BY <2>1 DEF ProcInv, TypeOK, Terminal, Taking
  <2>3. CASE HandOver
    <3>1. service.version \in Version
      BY <2>3, ServesWhole DEF HandOver, ByHand
    <3> QED
      BY <2>1, <2>3, <3>1, HandOverFields
  <2>4. CASE RecoverSwitched \/ RecoverEnded
    BY <2>1, <2>4, WroteFacts DEF Wrote
  <2>5. CASE RestartOld \/ StartService \/ RecoverNothing \/ Open \/ StopService
             \/ ServiceDies \/ UpdaterDies \/ UNCHANGED vars
    BY <2>5 DEF RestartOld, StartService, RecoverNothing, Open, StopService,
       ServiceDies, UpdaterDies, vars
  <2>6. ~(RecoverUnswitched \/ RecoverTakesBack \/ RecoveredTakeBack \/ Confirm)
    BY <2>2 DEF RecoverUnswitched, RecoverTakesBack, RecoveredTakeBack, Confirm, Terminal
  <2>7. ~(TakeBack \/ SwitchFails \/ TakeBackFails)
    BY <2>2 DEF TakeBack, RollBack, RollBackDone, RollBackClear, SetDatabaseAside,
       PutCopyBack, SwitchFails, TakeBackFails
  <2>8. Updater => RestartOld
    BY <2>2 DEF Updater, UpdaterStops, UpdaterStopped, Stage, BeginSwitch, Switch, Switched,
       StartNew, NewStarted, Verified, NotProven, StopNew, StartOld, OldAnswers,
       OldDoesNotAnswer
  <2> QED
    BY <2>3, <2>4, <2>5, <2>6, <2>7, <2>8 DEF Next, Service
<1> QED
  BY <1>1, UpdateInvariant, PTL DEF Spec, EndIsFinal

=============================================================================

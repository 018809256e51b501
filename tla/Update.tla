-------------------------------- MODULE Update --------------------------------
(***************************************************************************)
(* Installing an update of a portable installation and taking it back: the  *)
(* service writes the journal and starts the updater, the updater stops the *)
(* service, switches the program files by renames, starts the new version   *)
(* and waits for it to answer (crates/rdownloader/src/updater_cli.rs,       *)
(* crates/rd-update/src/install); a start without a living updater ends     *)
(* what the journal records (recover.rs).                                   *)
(*                                                                         *)
(* The program folder, `.previous/` and `.update-<version>/` hold for every *)
(* entry the version it is of.  The database is known by the version whose  *)
(* schema it has.  The journal is written atomically, so each write is a    *)
(* step of its own and a process may end between any two.                   *)
(***************************************************************************)
EXTENDS Naturals, Sequences

CONSTANTS
    Archive,        \* for each version, the sorted entries of its archive
    MaxFaults,      \* bound: faults in a behaviour
    Faults          \* the faults met

Version == DOMAIN Archive
EntriesOf(v) == {Archive[v][k] : k \in DOMAIN Archive[v]}
Entry   == UNION {EntriesOf(v) : v \in Version}
Gone    == 0
Nowhere == [e \in Entry |-> Gone]

ASSUME UpdateAssumption ==
    /\ Archive \in Seq(Seq(STRING)) /\ Archive # <<>>
    /\ \A v \in Version : "program" \in EntriesOf(v)
    /\ \A v \in Version : \A k, l \in DOMAIN Archive[v] :
          Archive[v][k] = Archive[v][l] => k = l        \* the names of one folder
    /\ MaxFaults \in Nat
    /\ Faults \subseteq {"service", "updater", "stop", "stage", "rename", "spawn",
                         "timeout", "roll_back", "late", "unstartable"}

VARIABLES
    install, previous, staged,   \* the program folder
    db, copy,                    \* the database, and the copy the update made
    journal,                     \* <data>/update/journal.json
    updater,                     \* where the updater stands; it holds its lock
    service,                     \* the service process
    job, n, half,                \* `switch` and `roll_back` under way
    broken,                      \* the versions that never come to answer
    faults                       \* bound

folderVars == <<install, previous, staged>>
dbVars     == <<db, copy>>
jobVars    == <<job, n, half>>
vars == <<folderVars, dbVars, journal, updater, service, jobVars, broken, faults>>

Working  == {"handed", "stopping", "staged", "switching", "switched", "rolling_back"}
Terminal == {"verified", "rolled_back", "failed"}

NoJournal == [phase |-> "none", from |-> 1, target |-> 1, replaced |-> {},
              new_started |-> FALSE, start_attempts |-> 0, reason |-> "none",
              cleaned |-> TRUE]
NoDb == [schema |-> Gone, put_back |-> FALSE, used |-> FALSE]
Down == [version |-> Gone, at |-> "down"]

Folder == [Entry -> Version \cup {Gone}]

TypeOK ==
    /\ install \in Folder /\ previous \in Folder /\ staged \in Folder
    /\ db \in [schema : Version \cup {Gone}, put_back : BOOLEAN, used : BOOLEAN]
    /\ copy \in Version \cup {Gone}
    /\ journal \in [phase : {"none"} \cup Working \cup Terminal, from : Version,
                    target : Version, replaced : SUBSET Entry, new_started : BOOLEAN,
                    start_attempts : 0 .. 1, reason : {"none", "failed", "rollback_failed"},
                    cleaned : BOOLEAN]
    /\ updater \in {"none", "handed", "stopping", "staging", "switching", "starting",
                    "started", "proving", "restarting_old", "stopping_new",
                    "taking_back", "starting_old", "awaiting_old"}
    /\ service \in [version : Version \cup {Gone},
                    at : {"down", "recovering", "taking_back", "opening", "serving"}]
    /\ job \in {"none", "switch", "roll", "clear", "set_aside", "copy", "done"}
    /\ n \in Nat \ {0} /\ half \in {"out", "in"}
    /\ broken \subseteq Version
    /\ faults \in 0 .. MaxFaults

Fault(kind) ==
    /\ kind \in Faults
    /\ faults < MaxFaults
    /\ faults' = faults + 1

Entries == Archive[journal.target]

Advance(phase) == journal' = [journal EXCEPT !.phase = phase]

\* `Journal::end`.
End(phase, reason) == journal' = [journal EXCEPT !.phase = phase, !.reason = reason]

\* A process of the program in the folder; it begins with `recover_at_start`.
Spawn == service' = [version |-> install["program"], at |-> "recovering"]

-----------------------------------------------------------------------------
(* The service hands over.                                                 *)

\* `update_install_service::run`: the copy of the database, the journal, the
\* updater.  The service goes on serving until the updater stops it.
HandOver ==
    /\ service.at = "serving" /\ updater = "none"
    /\ service.version + 1 \in Version
    /\ journal.reason # "rollback_failed"   \* bound: a person recovers by hand first
    /\ copy' = db.schema
    /\ db' = [db EXCEPT !.put_back = FALSE]
    /\ journal' = [NoJournal EXCEPT !.phase = "handed", !.from = service.version,
                                    !.target = service.version + 1, !.cleaned = FALSE]
    /\ updater' = "handed"
    /\ UNCHANGED <<folderVars, service, jobVars, broken, faults>>

-----------------------------------------------------------------------------
(* The updater, up to the new version's answer: `apply`.                   *)

UpdaterStops ==
    /\ updater = "handed"
    /\ Advance("stopping")
    /\ updater' = "stopping"
    /\ UNCHANGED <<folderVars, dbVars, service, jobVars, broken, faults>>

\* The service has ended, or could not be made to.
UpdaterStopped ==
    /\ updater = "stopping"
    /\ \/ /\ service' = Down
          /\ updater' = "staging"
          /\ UNCHANGED <<journal, faults>>
       \/ /\ Fault("stop")
          /\ End("failed", "failed")
          /\ updater' = "none"
          /\ UNCHANGED service
    /\ UNCHANGED <<folderVars, dbVars, jobVars, broken>>

\* `preflight` and `portable::stage`: the leftovers of an earlier update go, the
\* new files are unpacked beside the program.
Stage ==
    /\ updater = "staging"
    /\ previous' = Nowhere
    /\ \/ /\ staged' = [e \in Entry |-> IF e \in EntriesOf(journal.target)
                                        THEN journal.target ELSE Gone]
          /\ journal' = [journal EXCEPT !.phase = "staged",
                            !.replaced = {e \in EntriesOf(journal.target) :
                                              install[e] # Gone}]
          /\ updater' = "switching"
          /\ UNCHANGED faults
       \/ /\ Fault("stage")
          /\ staged' = Nowhere
          /\ End("failed", "failed")
          /\ updater' = "restarting_old"
    /\ UNCHANGED <<install, dbVars, service, jobVars, broken>>

RestartOld ==
    /\ updater = "restarting_old"
    /\ Spawn
    /\ updater' = "none"
    /\ UNCHANGED <<folderVars, dbVars, journal, jobVars, broken, faults>>

\* Mutant: the journal says `switching` only once the entries have moved.
BeginSwitch_unwritten ==
    /\ updater = "switching" /\ job = "none"
    /\ job' = "switch" /\ n' = 1 /\ half' = "out"
    /\ UNCHANGED <<folderVars, dbVars, journal, updater, service, broken, faults>>

\* `portable::switch`, its first write.
BeginSwitch ==
    /\ updater = "switching" /\ job = "none"
    /\ Advance("switching")
    /\ job' = "switch" /\ n' = 1 /\ half' = "out"
    /\ UNCHANGED <<folderVars, dbVars, updater, service, broken, faults>>

NextHalf ==
    IF half = "out" THEN half' = "in" /\ n' = n ELSE half' = "out" /\ n' = n + 1

\* One entry: the live one aside, the new one in its place.
Switch ==
    /\ job = "switch" /\ n <= Len(Entries)
    /\ LET e == Entries[n] IN
       IF half = "out"
       THEN /\ install' = [install EXCEPT ![e] = Gone]
            /\ previous' = [previous EXCEPT ![e] = install[e]]
            /\ UNCHANGED staged
       ELSE /\ install' = [install EXCEPT ![e] = staged[e]]
            /\ staged' = [staged EXCEPT ![e] = Gone]
            /\ UNCHANGED previous
    /\ NextHalf
    /\ UNCHANGED <<dbVars, journal, updater, service, job, broken, faults>>

BeginTakeBack == job' = "roll" /\ n' = 1 /\ half' = "out"

\* A rename fails: `take_back` with nothing started.
SwitchFails ==
    /\ job = "switch"
    /\ Fault("rename")
    /\ End("rolling_back", "failed")
    /\ updater' = "taking_back"
    /\ BeginTakeBack
    /\ UNCHANGED <<folderVars, dbVars, service, broken>>

Switched ==
    /\ job = "switch" /\ n > Len(Entries)
    /\ staged' = Nowhere
    /\ Advance("switched")
    /\ updater' = "starting"
    /\ job' = "none"
    /\ UNCHANGED <<install, previous, dbVars, service, n, half, broken, faults>>

StartNew ==
    /\ updater = "starting"
    /\ \/ /\ Spawn
          /\ updater' = "started"
          /\ UNCHANGED <<journal, jobVars, faults>>
       \/ /\ Fault("spawn")
          /\ End("rolling_back", "failed")
          /\ updater' = "taking_back"
          /\ BeginTakeBack
          /\ UNCHANGED service
    /\ UNCHANGED <<folderVars, dbVars, broken>>

\* Mutant: that the new version was started is not written down.
NewStarted_unwritten ==
    /\ updater = "started"
    /\ updater' = "proving"
    /\ UNCHANGED <<folderVars, dbVars, journal, service, jobVars, broken, faults>>

NewStarted ==
    /\ updater = "started"
    /\ journal' = [journal EXCEPT !.new_started = TRUE]
    /\ updater' = "proving"
    /\ UNCHANGED <<folderVars, dbVars, service, jobVars, broken, faults>>

Answers(version) == service = [version |-> version, at |-> "serving"]

Verified ==
    /\ updater = "proving"
    /\ Answers(journal.target)
    /\ Advance("verified")
    /\ updater' = "none"
    /\ UNCHANGED <<folderVars, dbVars, service, jobVars, broken, faults>>

\* The new version ended, or did not answer in time: `take_back`.
NotProven ==
    /\ updater = "proving"
    /\ \/ service.at = "down" /\ UNCHANGED faults
       \/ Fault("timeout")
    /\ End("rolling_back", "failed")
    /\ updater' = "stopping_new"
    /\ UNCHANGED <<folderVars, dbVars, service, jobVars, broken>>

StopNew ==
    /\ updater = "stopping_new"
    /\ service' = Down
    /\ updater' = "taking_back"
    /\ BeginTakeBack
    /\ UNCHANGED <<folderVars, dbVars, journal, broken, faults>>

-----------------------------------------------------------------------------
(* Taking the switch back: by the updater, or by a start without one.      *)

\* Mutant: an entry that left the staging is the new one.
LiveIsNew_came_out(e) ==
    install[e] # Gone /\ (previous[e] # Gone \/ staged[e] = Gone)

LiveIsNew(e) ==
    /\ install[e] # Gone
    /\ previous[e] # Gone \/ (staged[e] = Gone /\ e \notin journal.replaced)

\* `portable::roll_back`, one entry.
RollBack ==
    /\ job = "roll" /\ n <= Len(Entries)
    /\ LET e == Entries[n] IN
       IF half = "out"
       THEN /\ install' = [install EXCEPT ![e] = IF LiveIsNew(e) THEN Gone ELSE @]
            /\ UNCHANGED previous
       ELSE /\ install' = [install EXCEPT ![e] = IF previous[e] # Gone
                                                 THEN previous[e] ELSE @]
            /\ previous' = [previous EXCEPT ![e] = Gone]
    /\ NextHalf
    /\ UNCHANGED <<staged, dbVars, journal, updater, service, job, broken, faults>>

RollBackDone ==
    /\ job = "roll" /\ n > Len(Entries)
    /\ job' = "clear"
    /\ UNCHANGED <<folderVars, dbVars, journal, updater, service, n, half, broken, faults>>

RollBackClear ==
    /\ job = "clear"
    /\ staged' = Nowhere /\ previous' = Nowhere
    /\ job' = IF journal.new_started THEN "set_aside" ELSE "done"
    /\ UNCHANGED <<install, dbVars, journal, updater, service, n, half, broken, faults>>

\* `restore_database`: the live files go aside, then the copy is renamed in.
SetDatabaseAside ==
    /\ job = "set_aside"
    /\ db' = NoDb
    /\ job' = "copy"
    /\ UNCHANGED <<folderVars, copy, journal, updater, service, n, half, broken, faults>>

PutCopyBack ==
    /\ job = "copy"
    /\ db' = [schema |-> copy, put_back |-> TRUE, used |-> FALSE]
    /\ job' = "done"
    /\ UNCHANGED <<folderVars, copy, journal, updater, service, n, half, broken, faults>>

\* A rename of the roll-back fails: neither goes on, a person has to.
TakeBackFails ==
    /\ job \in {"roll", "clear", "set_aside", "copy"}
    /\ Fault("roll_back")
    /\ End("failed", "rollback_failed")
    /\ updater' = "none"
    /\ service' = Down
    /\ job' = "none"
    /\ UNCHANGED <<folderVars, dbVars, n, half, broken>>

\* The updater starts the old version before the journal says `rolled_back`.
StartOld ==
    /\ updater = "taking_back" /\ job = "done"
    /\ Spawn
    /\ updater' = "awaiting_old"
    /\ job' = "none"
    /\ UNCHANGED <<folderVars, dbVars, journal, n, half, broken, faults>>

OldAnswers ==
    /\ updater = "awaiting_old"
    /\ Answers(journal.from)
    /\ Advance("rolled_back")
    /\ updater' = "none"
    /\ UNCHANGED <<folderVars, dbVars, service, jobVars, broken, faults>>

OldDoesNotAnswer ==
    /\ updater = "awaiting_old"
    /\ \/ service.at = "down" /\ UNCHANGED faults
       \/ Fault("timeout")
    /\ End("failed", "rollback_failed")
    /\ updater' = "none"
    /\ UNCHANGED <<folderVars, dbVars, service, jobVars, broken>>

\* The start that took it back ends the journal and goes on, or starts the old
\* version in its place.
RecoveredTakeBack ==
    /\ service.at = "taking_back" /\ job = "done"
    /\ Advance("rolled_back")
    /\ job' = "none"
    /\ IF service.version = journal.from
       THEN service' = [service EXCEPT !.at = "opening"]
       ELSE Spawn
    /\ UNCHANGED <<folderVars, dbVars, updater, n, half, broken, faults>>

-----------------------------------------------------------------------------
(* A start: `recover_at_start`, the database, `confirm_started`.           *)

\* By hand, at login or by a supervisor.
StartService ==
    /\ service.at = "down" /\ updater = "none"
    /\ install["program"] # Gone
    /\ Spawn
    /\ UNCHANGED <<folderVars, dbVars, journal, updater, jobVars, broken, faults>>

IsNew == service.version = journal.target

GoOn == service' = [service EXCEPT !.at = "opening"]

\* Mutant: the lock of the updater is not looked at.
Unattended_regardless == service.at = "recovering" /\ journal.phase # "none"

Unattended == /\ service.at = "recovering"
              /\ journal.phase # "none"
              /\ updater = "none"

\* No update is recorded, or its updater is at work.
RecoverNothing ==
    /\ service.at = "recovering"
    /\ ~Unattended
    /\ GoOn
    /\ UNCHANGED <<folderVars, dbVars, journal, updater, jobVars, broken, faults>>

\* Nothing live has changed.
RecoverUnswitched ==
    /\ Unattended
    /\ journal.phase \in {"handed", "stopping", "staged"}
    /\ staged' = Nowhere
    /\ End("failed", "failed")
    /\ GoOn
    /\ UNCHANGED <<install, previous, dbVars, updater, jobVars, broken, faults>>

\* Half switched or half taken back; or switched, and an earlier start of the
\* new version never answered.
RecoverTakesBack ==
    /\ Unattended
    /\ \/ /\ journal.phase \in {"switching", "rolling_back"}
          /\ Advance("rolling_back")
       \/ /\ journal.phase = "switched" /\ IsNew /\ journal.start_attempts # 0
          /\ journal' = [journal EXCEPT !.phase = "rolling_back", !.new_started = TRUE]
    /\ service' = [service EXCEPT !.at = "taking_back"]
    /\ BeginTakeBack
    /\ UNCHANGED <<folderVars, dbVars, updater, broken, faults>>

\* Mutant: the starts of the new version are not counted.
RecoverSwitched_uncounted ==
    /\ Unattended
    /\ journal.phase = "switched"
    /\ GoOn
    /\ UNCHANGED <<folderVars, dbVars, journal, updater, jobVars, broken, faults>>

\* Mutant: they are counted, and never held against it.
RecoverSwitched_counting_on ==
    /\ Unattended
    /\ journal.phase = "switched"
    /\ journal' = [journal EXCEPT !.start_attempts = @ + 1]
    /\ GoOn
    /\ UNCHANGED <<folderVars, dbVars, updater, jobVars, broken, faults>>

\* The first start of the new version without an updater may prove it.
RecoverSwitched ==
    /\ Unattended
    /\ journal.phase = "switched" /\ ~(IsNew /\ journal.start_attempts # 0)
    /\ journal' = IF IsNew THEN [journal EXCEPT !.start_attempts = 1] ELSE journal
    /\ GoOn
    /\ UNCHANGED <<folderVars, dbVars, updater, jobVars, broken, faults>>

\* An ended update: `clean_up`, once, except what a manual recovery needs.
RecoverEnded ==
    /\ Unattended
    /\ journal.phase \in Terminal
    /\ LET clean == /\ ~journal.cleaned
                    /\ journal.reason # "rollback_failed"
                    /\ journal.phase = "verified" => IsNew
       IN  /\ staged' = IF clean THEN Nowhere ELSE staged
           /\ previous' = IF clean /\ journal.phase = "verified" THEN Nowhere ELSE previous
           /\ journal' = [journal EXCEPT !.cleaned = @ \/ clean]
    /\ GoOn
    /\ UNCHANGED <<install, dbVars, updater, jobVars, broken, faults>>

\* The database is opened and brought to the program's schema; a database of a
\* later schema, or a broken version, ends the start.
Open ==
    /\ service.at = "opening"
    /\ \/ /\ db.schema \in 1 .. service.version
          /\ db' = [db EXCEPT !.schema = service.version,
                              !.used = service.version \notin broken]
          /\ service' = IF service.version \in broken
                        THEN Down ELSE [service EXCEPT !.at = "serving"]
       \/ /\ db.schema \notin 1 .. service.version
          /\ service' = Down
          /\ UNCHANGED db
    /\ UNCHANGED <<folderVars, copy, journal, updater, jobVars, broken, faults>>

\* `confirm_started`: the new version answers and no updater is left to see it.
Confirm ==
    /\ Answers(journal.target)
    /\ journal.phase = "switched" /\ updater = "none"
    /\ Advance("verified")
    /\ UNCHANGED <<folderVars, dbVars, updater, service, jobVars, broken, faults>>

-----------------------------------------------------------------------------
(* Ends of the two processes.                                              *)

\* A process that ends while the program is out of its folder leaves nothing to
\* start; only where `unstartable` allows it.
Startable == install["program"] # Gone \/ "unstartable" \in Faults

\* An orderly stop.
StopService ==
    /\ service.at = "serving" /\ updater = "none"
    /\ service' = Down
    /\ UNCHANGED <<folderVars, dbVars, journal, updater, jobVars, broken, faults>>

ServiceDies ==
    /\ service.at # "down"
    /\ service.at = "taking_back" => Startable
    /\ Fault("service")
    /\ service' = Down
    /\ job' = IF service.at = "taking_back" THEN "none" ELSE job
    /\ UNCHANGED <<folderVars, dbVars, journal, updater, n, half, broken>>

\* The lock goes with the process.  `late` allows the end after the old version
\* was started again and before the journal says so.
UpdaterDies ==
    /\ updater # "none"
    /\ Startable
    /\ updater = "awaiting_old" => "late" \in Faults
    /\ Fault("updater")
    /\ updater' = "none"
    /\ job' = "none"
    /\ UNCHANGED <<folderVars, dbVars, journal, service, n, half, broken>>

-----------------------------------------------------------------------------

Init ==
    /\ install = [e \in Entry |-> IF e \in EntriesOf(1) THEN 1 ELSE Gone]
    /\ previous = Nowhere /\ staged = Nowhere
    /\ db = [schema |-> 1, put_back |-> FALSE, used |-> TRUE]
    /\ copy = Gone
    /\ journal = NoJournal
    /\ updater = "none"
    /\ service = Down
    /\ job = "none" /\ n = 1 /\ half = "out"
    /\ broken \in SUBSET (Version \ {1})
    /\ faults = 0

Updater ==
    \/ UpdaterStops \/ UpdaterStopped \/ Stage \/ RestartOld \/ BeginSwitch \/ Switch
    \/ Switched \/ StartNew \/ NewStarted \/ Verified \/ NotProven \/ StopNew
    \/ StartOld \/ OldAnswers \/ OldDoesNotAnswer

TakeBack == RollBack \/ RollBackDone \/ RollBackClear \/ SetDatabaseAside \/ PutCopyBack

Service ==
    \/ StartService \/ RecoverNothing \/ RecoverUnswitched \/ RecoverTakesBack
    \/ RecoverSwitched \/ RecoverEnded \/ RecoveredTakeBack \/ Open \/ Confirm

Next == HandOver \/ Updater \/ TakeBack \/ Service \/ SwitchFails \/ TakeBackFails
        \/ StopService \/ ServiceDies \/ UpdaterDies

Spec == Init /\ [][Next]_vars

\* Both processes run on, and a service that ended is started again.
Fairness == WF_vars(Updater) /\ WF_vars(TakeBack) /\ WF_vars(Service)

FairSpec == Spec /\ Fairness

-----------------------------------------------------------------------------
(* Correctness.                                                            *)

\* A person has been told to recover by hand.
ByHand == journal.reason = "rollback_failed"

Whole(version) ==
    /\ \A e \in EntriesOf(version) : install[e] = version
    /\ \A e \in Entry : install[e] <= version

\* "The program folder may then hold two versions, and nothing may start on it":
\* a start that has gone past recovery runs from a folder that holds its own
\* version of every entry and no entry of a later one.
OneVersion ==
    service.at \in {"opening", "serving"} /\ ~ByHand => Whole(service.version)

\* Until the new version is proven, everything it replaces is in its place or in
\* `.previous/`, from where it can be put back: a file of the version before it as
\* that version, and one an earlier version left behind as it was.
WayBack ==
    journal.phase \in Working \ {"handed", "stopping"} =>
        \A e \in journal.replaced :
            \E v \in {install[e], previous[e]} \ {Gone} :
                v <= journal.from /\ (e \in EntriesOf(journal.from) => v = journal.from)

\* A start never finds a database of a later version than its own, nor none: what
\* the new version migrated is put back before the old one opens it.
DatabaseFits ==
    service.at = "opening" /\ ~ByHand => db.schema \in 1 .. service.version

\* The outcome of an update is written once: nobody reopens an update that was
\* proven, taken back or failed, and only a new one replaces its record.
EndIsFinal ==
    [][journal.phase \in Terminal => journal'.phase \in {journal.phase, "handed"}]_vars

\* "A stop anywhere leaves a phase the next start can act on": every update ends,
\* or its updater is gone while a service serves, which leaves the journal to the
\* next start.
UpdateEnds ==
    journal.phase \in Working ~>
        journal.phase \in Terminal \/ (updater = "none" /\ service.at = "serving")

\* "Run again after a stop, it puts the copy back again, which is the same
\* result": a database that was put back, and that the old version has worked
\* with since, is not put aside for the copy once more.
WorkIsKept == [][db.put_back /\ db.used => db' # NoDb]_vars

=============================================================================

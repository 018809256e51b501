------------------------------- MODULE Restore -------------------------------
(***************************************************************************)
(* Restoring a backup: the running service stages the restored state beside *)
(* the live one (crates/rd-api-admin), and the next start switches to it by *)
(* renames before the database is opened, rolls it back where its first     *)
(* start does not complete, and commits to it where it does                 *)
(* (crates/rd-backup/src/restore/cutover.rs, crates/rdownloader).           *)
(*                                                                         *)
(* A generation is one installation's state: 1 the one the behaviour begins *)
(* with, the later ones the restored copies in the order they were checked. *)
(* Each place of the data directory holds, for every item the switch moves, *)
(* the generation the item is of, or `Gone`.  A crash may come between any  *)
(* two renames.                                                             *)
(***************************************************************************)
EXTENDS Naturals, Sequences

CONSTANTS
    MaxRestores,    \* bound: restores checked in a behaviour
    MaxFaults,      \* bound: crashes, failed renames and damaged markers
    Faults          \* the faults met

Fresh      == MaxRestores + 2       \* an empty database, made where there was none
Generation == 1 .. Fresh
Gone       == 0

\* `Layout::items`, in the order the switch takes them; the two journal files
\* have no counterpart in a staging.
Items   == << "wal", "shm", "database", "torrent-session", "torrents" >>
Item    == {Items[n] : n \in DOMAIN Items}
Journal == {"wal", "shm"}
Staged  == Item \ Journal

ASSUME RestoreAssumption ==
    /\ MaxRestores \in Nat /\ MaxFaults \in Nat
    /\ Faults \subseteq {"crash", "rename", "open", "start", "damage", "unmark",
                         "leftover", "interrupted_roll_back"}

VARIABLES
    live, staging, previous, failed,  \* the data directory
    stagingDir,                       \* restore-staged/ exists
    marker,                           \* restore-pending.json
    vault,                            \* the generations whose secrets it holds
    proc,                             \* where the service process stands
    n, half, touched,                 \* locals of `switch` and `roll_back`
    cutover, undone,                  \* what `apply_pending` answered
    request,                          \* the restore request the service serves
    made, faults,                     \* bounds
    own, has, tried                   \* history

dirVars    == <<live, staging, previous, failed, stagingDir>>
localVars  == <<n, half, touched>>
boundVars  == <<made, faults>>
history    == <<own, has, tried>>
vars == <<dirVars, marker, vault, proc, localVars, cutover, undone, request,
          boundVars, history>>

Nowhere  == [i \in Item |-> Gone]
NoMarker == [phase |-> "none", gen |-> Gone]
Idle     == [step |-> "idle", gen |-> Gone]

Place == [Item -> Generation \cup {Gone}]

TypeOK ==
    /\ live \in Place /\ staging \in Place /\ previous \in Place /\ failed \in Place
    /\ stagingDir \in BOOLEAN
    /\ marker \in [phase : {"none", "staged", "switched", "unreadable"},
                   gen : Generation \cup {Gone}]
    /\ vault \subseteq Generation
    /\ proc \in {"down", "switching", "rolling_back", "clearing", "opening",
                 "tidying", "starting", "finishing", "serving"}
    /\ n \in 1 .. Len(Items) + 1 /\ half \in {"out", "in"}
    /\ touched \in BOOLEAN
    /\ cutover \in {"nothing", "switched", "rolled_back"}
    /\ undone \in Generation \cup {Gone}
    /\ request \in [step : {"idle", "checked", "placed", "unmarked", "dropped"},
                    gen : Generation \cup {Gone}]
    /\ made \in 0 .. MaxRestores /\ faults \in 0 .. MaxFaults
    /\ own \in Generation /\ has \subseteq Item /\ tried \subseteq Generation

Fault(kind) ==
    /\ kind \in Faults
    /\ faults < MaxFaults
    /\ faults' = faults + 1

-----------------------------------------------------------------------------
(* The running service: at most one restore request at a time (`Busy`).    *)

\* `start_restore` up to the end of `check`: the restored database is prepared
\* in a work folder and its credentials are put into the vault.
Check ==
    /\ proc = "serving" /\ request = Idle
    /\ marker.phase = "none"
    /\ made < MaxRestores
    /\ made' = made + 1
    /\ request' = [step |-> "checked", gen |-> made + 2]
    /\ vault' = vault \cup {made + 2}
    /\ UNCHANGED <<dirVars, marker, proc, localVars, cutover, undone, faults, history>>

\* The checks failed, or `stage` refuses: the credentials are taken out again.
Refuse ==
    /\ request.step = "checked"
    /\ vault' = vault \ {request.gen}
    /\ request' = Idle
    /\ UNCHANGED <<dirVars, marker, proc, localVars, cutover, undone, boundVars, history>>

\* `stage`, its rename: refused while a marker or a staging is there.
StagePlace ==
    /\ request.step = "checked"
    /\ marker.phase = "none" /\ ~stagingDir
    /\ staging' = [i \in Item |-> IF i \in Staged THEN request.gen ELSE Gone]
    /\ stagingDir' = TRUE
    /\ request' = [step |-> "placed", gen |-> request.gen]
    /\ UNCHANGED <<live, previous, failed, marker, vault, proc, localVars, cutover,
                   undone, boundVars, history>>

RemoveStaging == staging' = Nowhere /\ stagingDir' = FALSE

\* Mutant: the marker is written as the caller gave it, without its phase.
StageMark_as_given ==
    /\ request.step = "placed"
    /\ marker' = [phase |-> request.step, gen |-> request.gen]
    /\ request' = Idle
    /\ UNCHANGED <<dirVars, vault, proc, localVars, cutover, undone, boundVars, history>>

\* `stage`, its marker; without one the staging goes again.
StageMark ==
    /\ request.step = "placed"
    /\ \/ /\ marker' = [phase |-> "staged", gen |-> request.gen]
          /\ UNCHANGED <<staging, stagingDir, vault, faults>>
       \/ /\ Fault("rename")
          /\ RemoveStaging
          /\ vault' = vault \ {request.gen}
          /\ UNCHANGED marker
    /\ request' = Idle
    /\ UNCHANGED <<live, previous, failed, proc, localVars, cutover, undone, made,
                   history>>

\* `discard`: the marker first, then the staging and a kept failure, then the
\* credentials.  A restore that has switched is left to the next start.
DiscardMarker ==
    /\ proc = "serving" /\ request = Idle
    /\ marker.phase \in {"none", "staged"}
    /\ marker' = NoMarker
    /\ request' = [step |-> "unmarked", gen |-> marker.gen]
    /\ UNCHANGED <<dirVars, vault, proc, localVars, cutover, undone, boundVars, history>>

DiscardFolders ==
    /\ request.step = "unmarked"
    /\ RemoveStaging
    /\ failed' = Nowhere
    /\ request' = [step |-> "dropped", gen |-> request.gen]
    /\ UNCHANGED <<live, previous, marker, vault, proc, localVars, cutover, undone,
                   boundVars, history>>

ForgetMinted ==
    /\ request.step = "dropped"
    /\ vault' = vault \ {request.gen}
    /\ request' = Idle
    /\ UNCHANGED <<dirVars, marker, proc, localVars, cutover, undone, boundVars, history>>

-----------------------------------------------------------------------------
(* The start: `apply_pending`.                                             *)

CameOut(i) == stagingDir /\ staging[i] = Gone

\* `roll_back` up to its loop.
BeginRollBack ==
    /\ proc' = "rolling_back"
    /\ failed' = Nowhere
    /\ touched' = (previous["database"] # Gone \/ CameOut("database"))
    /\ n' = 1 /\ half' = "out"

\* Without a marker, the leftovers of a staging or of a finished restore go.
StartClean ==
    /\ proc = "down" /\ marker.phase = "none"
    /\ RemoveStaging
    /\ previous' = Nowhere
    /\ proc' = "opening"
    /\ cutover' = "nothing" /\ undone' = Gone
    /\ UNCHANGED <<live, failed, marker, vault, localVars, request, boundVars, history>>

StartSwitch ==
    /\ proc = "down" /\ marker.phase = "staged"
    /\ proc' = "switching"
    /\ n' = 1 /\ half' = "out"
    /\ cutover' = "switched" /\ undone' = Gone
    /\ UNCHANGED <<dirVars, marker, vault, touched, request, boundVars, history>>

\* Mutant: a marker that cannot be read ends the start.
StartRollBack_readable ==
    /\ proc = "down" /\ marker.phase \in {"switched", "unreadable"}
    /\ IF marker.phase = "switched"
       THEN BeginRollBack /\ cutover' = "rolled_back"
       ELSE UNCHANGED <<failed, proc, localVars, cutover>>
    /\ UNCHANGED <<live, staging, stagingDir, previous, marker, vault, undone, request,
                   boundVars, history>>

\* Mutant: a start that did not complete is tried again.
StartRollBack_trying_again ==
    /\ proc = "down" /\ marker.phase \in {"switched", "unreadable"}
    /\ IF marker.phase = "unreadable"
       THEN BeginRollBack /\ cutover' = "rolled_back"
       ELSE /\ proc' = "opening" /\ cutover' = "switched"
            /\ UNCHANGED <<failed, localVars>>
    /\ UNCHANGED <<live, staging, stagingDir, previous, marker, vault, undone, request,
                   boundVars, history>>

\* A restore whose first start did not complete, or whose marker cannot be read,
\* is rolled back rather than tried again.
StartRollBack ==
    /\ proc = "down" /\ marker.phase \in {"switched", "unreadable"}
    /\ BeginRollBack
    /\ cutover' = "rolled_back" /\ undone' = Gone
    /\ UNCHANGED <<live, staging, stagingDir, previous, marker, vault, request, boundVars,
                   history>>

\* One half of an item done, on to the next.
Advance ==
    IF half = "out" THEN half' = "in" /\ n' = n ELSE half' = "out" /\ n' = n + 1

GoesAside(i) == live[i] # Gone /\ (i \in Journal \/ staging[i] # Gone)

\* `switch`, one item: out to `previous`, then in from the staging.
Switch ==
    /\ proc = "switching"
    /\ n <= Len(Items)
    /\ LET i == Items[n] IN
       \/ /\ half = "out"
          /\ GoesAside(i) => previous[i] = Gone
          /\ IF GoesAside(i)
             THEN /\ previous' = [previous EXCEPT ![i] = live[i]]
                  /\ live' = [live EXCEPT ![i] = Gone]
             ELSE UNCHANGED <<previous, live>>
          /\ UNCHANGED staging
       \/ /\ half = "in"
          /\ IF staging[i] # Gone
             THEN /\ live' = [live EXCEPT ![i] = staging[i]]
                  /\ staging' = [staging EXCEPT ![i] = Gone]
             ELSE UNCHANGED <<live, staging>>
          /\ UNCHANGED previous
    /\ Advance
    /\ UNCHANGED <<failed, stagingDir, marker, vault, proc, touched, cutover,
                   undone, request, boundVars, history>>

\* A rename fails, or an item and its previous copy both exist: the switch is
\* taken back in the same start.
SwitchFails ==
    /\ proc = "switching"
    /\ \/ Fault("rename")
       \/ /\ n <= Len(Items) /\ half = "out"
          /\ GoesAside(Items[n]) /\ previous[Items[n]] # Gone
          /\ UNCHANGED faults
    /\ BeginRollBack
    /\ cutover' = "rolled_back"
    /\ UNCHANGED <<live, staging, previous, stagingDir, marker, vault, undone, request,
                   made, history>>

\* Mutant: the marker is left at `staged`.
MarkSwitched_not ==
    /\ proc = "switching"
    /\ n > Len(Items)
    /\ proc' = "opening"
    /\ UNCHANGED <<dirVars, marker, vault, localVars, cutover, undone, request,
                   boundVars, history>>

MarkSwitched ==
    /\ proc = "switching"
    /\ n > Len(Items)
    /\ marker' = [phase |-> "switched", gen |-> marker.gen]
    /\ proc' = "opening"
    /\ UNCHANGED <<dirVars, vault, localVars, cutover, undone, request, boundVars,
                   history>>

-----------------------------------------------------------------------------
(* Putting the previous installation back: `roll_back`.                    *)

LiveIsRestored(i) ==
    previous[i] # Gone \/ (IF i \in Staged THEN CameOut(i) ELSE touched)

RollBack ==
    /\ proc = "rolling_back"
    /\ n <= Len(Items)
    /\ LET i == Items[n] IN
       \/ /\ half = "out"
          /\ IF live[i] # Gone /\ LiveIsRestored(i)
             THEN /\ failed' = [failed EXCEPT ![i] = live[i]]
                  /\ live' = [live EXCEPT ![i] = Gone]
             ELSE UNCHANGED <<failed, live>>
          /\ UNCHANGED previous
       \/ /\ half = "in"
          /\ IF previous[i] # Gone
             THEN /\ live' = [live EXCEPT ![i] = previous[i]]
                  /\ previous' = [previous EXCEPT ![i] = Gone]
             ELSE UNCHANGED <<live, previous>>
          /\ UNCHANGED failed
    /\ Advance
    /\ UNCHANGED <<staging, stagingDir, marker, vault, proc, touched, cutover, undone,
                   request, boundVars, history>>

\* The outcome is written and the marker goes; `undone` is the marker it
\* answers with, none where it could not be read.
RollBackUnmark ==
    /\ proc = "rolling_back"
    /\ n > Len(Items)
    /\ undone' = IF marker.phase = "unreadable" THEN Gone ELSE marker.gen
    /\ marker' = NoMarker
    /\ proc' = "clearing"
    /\ UNCHANGED <<dirVars, vault, localVars, cutover, request, boundVars, history>>

RollBackClear ==
    /\ proc = "clearing"
    /\ RemoveStaging
    /\ previous' = Nowhere
    /\ proc' = "opening"
    /\ UNCHANGED <<live, failed, marker, vault, localVars, cutover, undone, request,
                   boundVars, history>>

-----------------------------------------------------------------------------
(* The rest of the start: `open_store` and `finish_restore`.               *)

\* Opening a database makes its journal files, and the database itself, where
\* there are none (SQLite, `create_if_missing`).
Database == IF live["database"] = Gone THEN Fresh ELSE live["database"]

Opened ==
    /\ live' = [i \in Item |-> IF live[i] = Gone /\ i \in Journal \cup {"database"}
                               THEN Database ELSE live[i]]
    /\ has' = IF Database = own THEN has \cup Journal ELSE has

Open ==
    /\ proc = "opening"
    /\ Opened
    /\ tried' = tried \cup {Database}
    /\ proc' = "tidying"
    /\ UNCHANGED <<staging, previous, failed, stagingDir, marker, vault, localVars,
                   cutover, undone, request, boundVars, own>>

\* The restored database does not open: it is rolled back in the same start.
\* Any other database that does not open ends the start.
OpenFails ==
    /\ proc = "opening"
    /\ Fault("open")
    /\ tried' = tried \cup {Database}
    /\ Opened \/ UNCHANGED <<live, has>>
    /\ IF cutover = "switched"
       THEN BeginRollBack /\ cutover' = "rolled_back"
       ELSE proc' = "down" /\ UNCHANGED <<failed, localVars, cutover>>
    /\ UNCHANGED <<staging, previous, stagingDir, marker, vault, undone, request, made,
                   own>>

\* Mutant: the vault is swept in every start.
Tidy_every_start ==
    /\ proc = "tidying"
    /\ vault' = vault \cap {live["database"]}
    /\ proc' = "starting"
    /\ UNCHANGED <<dirVars, marker, localVars, cutover, undone, request, boundVars,
                   history>>

\* The credentials of a restore that was put back go; the vault is swept of what
\* the database does not name only where no restore was met.
Tidy ==
    /\ proc = "tidying"
    /\ cutover = "nothing"     => vault' = vault \cap {live["database"]}
    /\ cutover = "rolled_back" => vault' = vault \ {undone}
    /\ cutover = "switched"    => vault' = vault
    /\ proc' = "starting"
    /\ UNCHANGED <<dirVars, marker, localVars, cutover, undone, request, boundVars,
                   history>>

\* `finish`, its commit: the marker of a switched start goes once the start
\* completed.  A marker that cannot be removed is only warned about.
Finish ==
    /\ proc = "starting"
    /\ \/ /\ cutover = "switched"
          /\ marker' = NoMarker
          /\ own' = live["database"]
          /\ has' = {i \in Item : live[i] # Gone}
          /\ proc' = "finishing"
          /\ UNCHANGED faults
       \/ /\ cutover = "switched" => Fault("unmark")
          /\ cutover # "switched" => UNCHANGED faults
          /\ proc' = "serving"
          /\ UNCHANGED <<marker, own, has>>
    /\ UNCHANGED <<dirVars, vault, localVars, cutover, undone, request, made, tried>>

\* Mutant: the folders go before the marker.
FinishClear_first ==
    /\ proc = "starting" /\ cutover = "switched"
    /\ RemoveStaging
    /\ previous' = Nowhere
    /\ UNCHANGED <<live, failed, marker, vault, proc, localVars, cutover, undone,
                   request, boundVars, history>>

\* `finish`, its folders, one by one; one that cannot be removed is only warned
\* about.
FinishClear ==
    /\ proc = "finishing"
    /\ proc' = "serving"
    /\ RemoveStaging
    /\ previous' \in {Nowhere} \cup {p \in {previous} : "leftover" \in Faults}
    /\ UNCHANGED <<live, failed, marker, vault, localVars, cutover, undone, request,
                   boundVars, history>>

\* `prepare_state` fails: the start ends as a stop does.
StartFails ==
    /\ proc = "starting"
    /\ Fault("start")
    /\ proc' = "down"
    /\ UNCHANGED <<dirVars, marker, vault, localVars, cutover, undone, request, made,
                   history>>

\* A torrent folder is made when the first torrent needs it.
UseTorrents ==
    /\ proc = "serving"
    /\ \E i \in Staged \ {"database"} :
          /\ live[i] = Gone
          /\ live' = [live EXCEPT ![i] = live["database"]]
          /\ has' = IF live["database"] = own THEN has \cup {i} ELSE has
    /\ UNCHANGED <<staging, previous, failed, stagingDir, marker, vault, proc, localVars,
                   cutover, undone, request, boundVars, own, tried>>

\* An orderly stop: the last connection folds the journal files into the
\* database and removes them (SQLite).
Stop ==
    /\ proc = "serving" /\ request = Idle
    /\ live' = [i \in Item |-> IF i \in Journal THEN Gone ELSE live[i]]
    /\ has' = IF live["database"] = own THEN has \ Journal ELSE has
    /\ proc' = "down"
    /\ UNCHANGED <<staging, previous, failed, stagingDir, marker, vault, localVars,
                   cutover, undone, request, boundVars, own, tried>>

\* The process ends between two steps; a request under way goes with it.  A
\* roll-back that cannot rename an item ends the start in the same way; one is
\* stopped half-way only where `interrupted_roll_back` allows it.
Crash ==
    /\ proc # "down"
    /\ proc = "rolling_back" => "interrupted_roll_back" \in Faults
    /\ Fault("crash")
    /\ proc' = "down"
    /\ request' = Idle
    /\ UNCHANGED <<dirVars, marker, vault, localVars, cutover, undone, made, history>>

\* The marker is damaged from outside while the service is down.
Damage ==
    /\ proc = "down"
    /\ marker.phase \in {"staged", "switched"}
    /\ Fault("damage")
    /\ marker' = [phase |-> "unreadable", gen |-> marker.gen]
    /\ UNCHANGED <<dirVars, vault, proc, localVars, cutover, undone, request, made,
                   history>>

-----------------------------------------------------------------------------

Init ==
    /\ \E torrents \in SUBSET (Staged \ {"database"}), journals \in {{}, Journal} :
          has = {"database"} \cup torrents \cup journals
    /\ live = [i \in Item |-> IF i \in has THEN 1 ELSE Gone]
    /\ staging = Nowhere /\ previous = Nowhere /\ failed = Nowhere
    /\ stagingDir = FALSE
    /\ marker = NoMarker
    /\ vault = {1}
    /\ proc = "down"
    /\ n = 1 /\ half = "out" /\ touched = FALSE
    /\ cutover = "nothing" /\ undone = Gone
    /\ request = Idle
    /\ made = 0 /\ faults = 0
    /\ own = 1 /\ tried = {1}

Request == Check \/ Refuse \/ StagePlace \/ StageMark \/ DiscardMarker
           \/ DiscardFolders \/ ForgetMinted

Service == StartClean \/ StartSwitch \/ StartRollBack \/ Switch \/ MarkSwitched
           \/ RollBack \/ RollBackUnmark \/ RollBackClear \/ Open \/ Tidy
           \/ Finish \/ FinishClear

Next == Request \/ Service \/ SwitchFails \/ OpenFails \/ StartFails \/ UseTorrents
        \/ Stop \/ Crash \/ Damage

Spec == Init /\ [][Next]_vars

\* The process is started again after every end, and a start that was begun goes
\* on.
Fairness == WF_vars(Service)

FairSpec == Spec /\ Fairness

-----------------------------------------------------------------------------
(* Correctness.                                                            *)

\* "The previous installation stays startable until then": whatever is
\* interrupted, every item of the installation in use, journal files included,
\* is in its live place or set aside where a roll-back finds it.
OwnIsKept == \A i \in has : live[i] = own \/ previous[i] = own

\* The database a start opens has beside it only its own journal files and its
\* own torrent folders, and is the one in use or the restored one the marker
\* still names.
NeverMixed ==
    proc \in {"tidying", "starting", "finishing", "serving"} =>
        /\ \A i \in Item : live[i] \in {Gone, live["database"]}
        /\ \/ live["database"] = own /\ \A i \in has : live[i] = own
           \/ marker = [phase |-> "switched", gen |-> live["database"]]

\* A restored state whose first start did not complete is not started again: the
\* next start rolls it back.
TriedOnce ==
    [][proc = "opening" /\ proc' = "tidying" /\ live["database"] # own =>
          live["database"] \notin tried]_vars

\* The vault is never swept of the credentials of the installation in use, nor of
\* those of the restored one that is being started.
CredentialsAreKept ==
    /\ own \in vault
    /\ proc \in {"starting", "serving"} => live["database"] \in vault

\* Whatever was interrupted, the service comes to serve again, and a restore that
\* was waiting is then committed to or rolled back (a `switched` marker is one
\* that could not be removed).
RestoreIsSettled ==
    proc = "down" ~> proc = "serving" /\ marker.phase \in {"none", "switched"}

=============================================================================

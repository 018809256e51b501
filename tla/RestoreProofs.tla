---------------------------- MODULE RestoreProofs ----------------------------
(***************************************************************************)
(* Theorems about Restore, for any number of restores and of the faults the *)
(* code repairs.  The inductive invariant says, for every step of a switch  *)
(* and of a roll-back, where each item of the installation in use is.       *)
(***************************************************************************)
EXTENDS Restore, TLAPS

\* A roll-back that is not itself interrupted, and a finished restore whose
\* previous installation could be removed: the two faults the code does not
\* repair are left out.
Repaired == {"crash", "rename", "open", "start", "damage", "unmark"}

-----------------------------------------------------------------------------
(* The invariant.                                                          *)

\* What the installation in use has of an item, and what the restore brings.
Kept(i)     == IF i \in has THEN own ELSE Gone
Incoming(i) == IF i \in Staged THEN marker.gen ELSE Gone

\* The three stages of an item in a switch: not yet moved, out, and out with
\* the restored one in (the journal files of a restored database appear when it
\* is opened).
Untouched(i) == live[i] = Kept(i) /\ previous[i] = Gone /\ staging[i] = Incoming(i)
SetAside(i)  == live[i] = Gone /\ previous[i] = Kept(i) /\ staging[i] = Incoming(i)
Replaced(i)  == /\ live[i] = marker.gen \/ (i \in Journal /\ live[i] = Gone)
                /\ previous[i] = Kept(i)
                /\ staging[i] = Gone

Moving(i) == Untouched(i) \/ SetAside(i) \/ Replaced(i)

\* A switch stopped anywhere.  The journal files go first: once the database has
\* left, none of them is the installation's own.
Torn ==
    /\ \A i \in Staged : Moving(i)
    /\ \A j \in Journal :
          IF Untouched("database") THEN Untouched(j) \/ SetAside(j) ELSE Replaced(j)
    /\ marker.phase = "staged" => \A j \in Journal : Untouched(j) \/ SetAside(j)
    /\ marker.phase = "switched" => \A i \in Item : Replaced(i)

\* A switch under way: the items before `n` are done.
Switching ==
    /\ \A k \in 1 .. 5 : k < n => Replaced(Items[k])
    /\ n <= 5 /\ half = "in" => SetAside(Items[n]) \/ Replaced(Items[n])

\* A roll-back under way: the items before `n` are back, those behind it are as
\* the switch left them.
Pending(i) ==
    IF i \in Staged THEN Moving(i)
    ELSE IF touched THEN Replaced(i) ELSE Untouched(i) \/ SetAside(i)

Back(i)    == live[i] = Kept(i) /\ previous[i] = Gone
Emptied(i) == live[i] = Gone /\ previous[i] = Kept(i)

Rolling ==
    \A k \in 1 .. 5 :
        IF k < n THEN Back(Items[k])
        ELSE IF k = n /\ half = "in" THEN Back(Items[k]) \/ Emptied(Items[k])
        ELSE Pending(Items[k])

\* Generations are used once, and what was tried is not waiting.
GenInv ==
    /\ own \in 1 .. made + 1
    /\ tried \subseteq 1 .. made + 1
    /\ marker.phase = "none" => marker.gen = Gone
    /\ marker.phase # "none" => marker.gen \in (1 .. made + 1) \ {own}
    /\ request.step # "idle" => request.gen \in (0 .. made + 1) \ {own}
    /\ request.step \in {"checked", "placed"} =>
          request.gen \in (1 .. made + 1) \ tried
    /\ marker.phase = "staged" => marker.gen \notin tried
    /\ marker.phase = "switched" /\ proc = "opening" => marker.gen \notin tried

\* Which marker there is while the process stands where it does.
ProcInv ==
    /\ request.step # "idle" => proc = "serving" /\ marker.phase = "none"
    /\ proc = "switching" => marker.phase = "staged" /\ cutover = "switched"
    /\ proc = "rolling_back" => marker.phase # "none"
    /\ proc = "rolling_back" => cutover = "rolled_back"
    /\ proc = "clearing" => marker.phase = "none" /\ cutover = "rolled_back"
    /\ proc = "finishing" => marker.phase = "none"
    /\ proc \in {"opening", "tidying", "starting"} =>
          marker.phase = IF cutover = "switched" THEN "switched" ELSE "none"
    /\ proc = "serving" => marker.phase # "unreadable"

\* Where everything is.
PlaceInv ==
    /\ "database" \in has
    /\ marker.phase = "none" => \A i \in Item : live[i] = Kept(i)
    /\ marker.phase = "none" /\ proc \in {"opening", "tidying", "starting", "serving"} =>
          previous = Nowhere
    /\ request.step = "placed" =>
          /\ stagingDir
          /\ staging = [i \in Item |-> IF i \in Staged THEN request.gen ELSE Gone]
    /\ marker.phase # "none" => stagingDir
    /\ marker.phase # "none" /\ proc # "rolling_back" => Torn
    /\ marker.phase = "staged" /\ proc = "serving" => \A i \in Item : Untouched(i)
    /\ proc = "switching" => Switching
    /\ proc = "rolling_back" => Rolling

\* Whose credentials are in the vault, and whose may go.
VaultInv ==
    /\ own \in vault
    /\ marker.phase \in {"staged", "switched"} => marker.gen \in vault
    /\ request.step \in {"checked", "placed"} => request.gen \in vault
    /\ proc \in {"clearing", "opening", "tidying"} /\ cutover = "rolled_back" =>
          undone # own

RInv == TypeOK /\ GenInv /\ ProcInv /\ PlaceInv /\ VaultInv

-----------------------------------------------------------------------------
(* The items.                                                              *)

LEMMA ItemFacts ==
    /\ Len(Items) = 5
    /\ Item = Staged \cup Journal
    /\ Staged \cap Journal = {}
    /\ "database" \in Staged
    /\ Journal = {"wal", "shm"}
    /\ Staged = {"database", "torrent-session", "torrents"}
<1>1. DOMAIN Items = 1 .. 5 /\ Len(Items) = 5
  BY DEF Items
<1>2. Item = {"wal", "shm", "database", "torrent-session", "torrents"}
  BY <1>1 DEF Item, Items
<1> QED
  BY <1>1, <1>2 DEF Staged, Journal

\* Each item has one place in the order, and the journal files come before the
\* database.
LEMMA OrderFacts ==
    /\ \A k \in 1 .. 5 : Items[k] \in Item
    /\ \A i \in Item : \E k \in 1 .. 5 : Items[k] = i
    /\ \A k, l \in 1 .. 5 : Items[k] = Items[l] => k = l
    /\ Items[3] = "database"
    /\ \A j \in Journal : \E k \in 1 .. 2 : Items[k] = j
    /\ \A k \in 1 .. 2 : Items[k] \in Journal
<1>1. /\ Items[1] = "wal" /\ Items[2] = "shm" /\ Items[3] = "database"
      /\ Items[4] = "torrent-session" /\ Items[5] = "torrents"
  BY DEF Items
<1>2. Item = {"wal", "shm", "database", "torrent-session", "torrents"}
  BY ItemFacts
<1> QED
  BY <1>1, <1>2, ItemFacts

-----------------------------------------------------------------------------
(* Types.                                                                  *)

LEMMA InitInv == Init => RInv
<1> SUFFICES ASSUME Init PROVE RInv
  OBVIOUS
<1> USE RestoreAssumption, ItemFacts
<1>1. has \subseteq Item /\ "database" \in has
  BY DEF Init
<1>2. TypeOK
  <2>1. 1 \in Generation
    BY DEF Generation, Fresh
  <2>2. Nowhere \in Place /\ live \in Place
    BY <1>1, <2>1 DEF Init, Nowhere, Place
  <2>3. stagingDir \in BOOLEAN /\ touched \in BOOLEAN
    BY Zenon DEF Init
  <2>4. marker \in [phase : {"none"}, gen : {Gone}] /\ request \in [step : {"idle"}, gen : {Gone}]
    BY DEF Init, NoMarker, Idle
  <2> QED
    BY <1>1, <2>1, <2>2, <2>3, <2>4 DEF Init, TypeOK
<1>3. GenInv /\ ProcInv /\ VaultInv
  BY DEF Init, GenInv, ProcInv, VaultInv, NoMarker, Idle, Gone
<1>4. PlaceInv
  BY <1>1 DEF Init, PlaceInv, NoMarker, Idle, Kept
<1> QED
  BY <1>2, <1>3, <1>4 DEF RInv

LEMMA BooleanFacts ==
    /\ BeginRollBack => touched' \in BOOLEAN
    /\ RemoveStaging => stagingDir' \in BOOLEAN
  BY Zenon DEF BeginRollBack, RemoveStaging

LEMMA NextTypes == RInv /\ [Next]_vars => TypeOK'
<1> SUFFICES ASSUME RInv, [Next]_vars PROVE TypeOK'
  OBVIOUS
<1> USE RestoreAssumption, ItemFacts, OrderFacts
        DEF TypeOK, dirVars, localVars, boundVars, history, Fault
<1> TypeOK
  BY DEF RInv
<1>1. Nowhere \in Place
  BY DEF Nowhere, Place
<1>2. RemoveStaging => staging' \in Place /\ stagingDir' \in BOOLEAN
  BY <1>1, BooleanFacts DEF RemoveStaging
<1>3. BeginRollBack => /\ proc' = "rolling_back" /\ failed' \in Place
                       /\ touched' \in BOOLEAN
                       /\ n' = 1 /\ half' = "out"
  BY <1>1, BooleanFacts DEF BeginRollBack
<1> Fresh \in Generation /\ \A m \in 0 .. MaxRestores - 1 : m + 2 \in Generation
  BY DEF Generation, Fresh
<1>4. NoMarker \in [phase : {"none"}, gen : {Gone}] /\ Idle \in [step : {"idle"}, gen : {Gone}]
  BY DEF NoMarker, Idle
<1>5. CASE Check
  BY <1>4, <1>5 DEF Check
<1>6. CASE Refuse
  BY <1>4, <1>6 DEF Refuse
<1>7. CASE StagePlace
  BY <1>7 DEF StagePlace, Place
<1>8. CASE StageMark
  BY <1>2, <1>4, <1>8 DEF StageMark
<1>9. CASE DiscardMarker
  BY <1>4, <1>9 DEF DiscardMarker
<1>10. CASE DiscardFolders
  BY <1>1, <1>2, <1>10 DEF DiscardFolders
<1>11. CASE ForgetMinted
  BY <1>4, <1>11 DEF ForgetMinted
<1>12. CASE StartClean
  BY <1>1, <1>2, <1>12 DEF StartClean
<1>13. CASE StartSwitch
  BY <1>13 DEF StartSwitch
<1>14. CASE StartRollBack
  BY <1>3, <1>14 DEF StartRollBack
<1>15. CASE Switch
  BY <1>15 DEF Switch, Advance, Place
<1>16. CASE MarkSwitched
  BY <1>16 DEF MarkSwitched
<1>17. CASE RollBack
  BY <1>17 DEF RollBack, Advance, Place
<1>18. CASE RollBackUnmark
  BY <1>4, <1>18 DEF RollBackUnmark
<1>19. CASE RollBackClear
  BY <1>1, <1>2, <1>19 DEF RollBackClear
<1>20. Database \in Generation
  BY DEF Database, Place
<1>21. Opened => live' \in Place /\ has' \subseteq Item
  BY <1>20 DEF Opened, Place
<1>22. CASE Open
  BY <1>20, <1>21, <1>22 DEF Open
<1>23. CASE Tidy
  BY <1>23 DEF Tidy
<1>24. CASE Finish
  <2>1. proc = "starting" /\ cutover = "switched" => live["database"] \in Generation
    BY DEF RInv, PlaceInv, ProcInv, Torn, Replaced, GenInv, Place, Generation, Fresh
  <2>2. own' \in Generation /\ has' \subseteq Item
    BY <1>24, <2>1 DEF Finish
  <2>3. marker' \in [phase : {"none", "staged", "switched", "unreadable"},
                     gen : Generation \cup {Gone}]
    BY <1>4, <1>24 DEF Finish
  <2>4. faults' \in 0 .. MaxFaults
    BY <1>24 DEF Finish
  <2> QED
    BY <1>24, <2>2, <2>3, <2>4 DEF Finish
<1>25. CASE FinishClear
  BY <1>1, <1>2, <1>25 DEF FinishClear
<1>26. CASE SwitchFails
  BY <1>3, <1>26 DEF SwitchFails
<1>27. CASE OpenFails
  <2>1. live' \in Place /\ has' \subseteq Item
    BY <1>21, <1>27 DEF OpenFails
  <2>2. /\ proc' \in {"rolling_back", "down"}
        /\ failed' \in Place /\ touched' \in BOOLEAN
        /\ n' \in 1 .. Len(Items) + 1 /\ half' \in {"out", "in"}
        /\ cutover' \in {"nothing", "switched", "rolled_back"}
    BY <1>3, <1>27 DEF OpenFails
  <2> QED
    BY <1>20, <1>27, <2>1, <2>2 DEF OpenFails
<1>28. CASE StartFails
  BY <1>28 DEF StartFails
<1>29. CASE UseTorrents
  BY <1>29 DEF UseTorrents, Place
<1>30. CASE Stop
  BY <1>30 DEF Stop, Place
<1>31. CASE Crash
  BY <1>4, <1>31 DEF Crash
<1>32. CASE Damage
  BY <1>32 DEF Damage
<1>33. CASE UNCHANGED vars
  BY <1>33 DEF vars
<1> HIDE DEF TypeOK, Fault
<1> QED
  BY <1>5, <1>6, <1>7, <1>8, <1>9, <1>10, <1>11, <1>12, <1>13, <1>14, <1>15, <1>16,
     <1>17, <1>18, <1>19, <1>22, <1>23, <1>24, <1>25, <1>26, <1>27, <1>28, <1>29,
     <1>30, <1>31, <1>32, <1>33 DEF Next, Request, Service

-----------------------------------------------------------------------------
(* The database a start opens.                                             *)

Started == {"opening", "tidying", "starting", "finishing", "serving"}

LEMMA DatabaseFacts ==
    RInv /\ proc \in Started =>
        /\ live["database"] = IF marker.phase = "switched" THEN marker.gen ELSE own
        /\ live["database"] \in 1 .. made + 1
        /\ live["database"] # Gone
        /\ Database = live["database"]
<1> SUFFICES ASSUME RInv, proc \in Started
             PROVE  /\ live["database"] = IF marker.phase = "switched" THEN marker.gen ELSE own
                    /\ live["database"] \in 1 .. made + 1
                    /\ live["database"] # Gone
                    /\ Database = live["database"]
  OBVIOUS
<1> USE ItemFacts
<1>1. marker.phase \in {"none", "staged", "switched"}
  BY DEF RInv, ProcInv, TypeOK, Started
<1>2. marker.phase = "none" => live["database"] = own
  BY DEF RInv, PlaceInv, Kept
<1>3. marker.phase = "staged" => live["database"] = own
  BY DEF RInv, PlaceInv, ProcInv, Kept, Untouched, Started
<1>4. marker.phase = "switched" => live["database"] = marker.gen
  BY DEF RInv, PlaceInv, Torn, Replaced, Started
<1>5. live["database"] \in 1 .. made + 1
  BY <1>1, <1>2, <1>3, <1>4 DEF RInv, GenInv
<1>6. live["database"] # Gone
  BY <1>5 DEF Gone, RInv, TypeOK
<1> QED
  BY <1>1, <1>2, <1>3, <1>4, <1>5, <1>6 DEF Database

-----------------------------------------------------------------------------
(* Generations.                                                            *)

LEMMA NextGen == RInv /\ [Next]_vars => GenInv'
<1> SUFFICES ASSUME RInv, [Next]_vars PROVE GenInv'
  OBVIOUS
<1> GenInv /\ ProcInv /\ made \in Nat
  BY RestoreAssumption DEF RInv, TypeOK
<1> USE DEF GenInv, dirVars, localVars, boundVars, history
<1>1. NoMarker.phase = "none" /\ NoMarker.gen = 0 /\ Gone = 0
  BY DEF NoMarker, Gone
<1>2. Idle.step = "idle"
  BY DEF Idle
<1>3. CASE Check
  <2>1. request'.step = "checked" /\ request'.gen = made + 2 /\ made' = made + 1
    BY <1>3 DEF Check
  <2>2. own # made + 2 /\ made + 2 \notin tried
    OBVIOUS
  <2> QED
    BY <1>3, <2>1, <2>2 DEF Check
<1>4. CASE Refuse \/ StagePlace \/ DiscardFolders \/ ForgetMinted
  <2>1. /\ request'.step # "idle" => request.step # "idle" /\ request'.gen = request.gen
        /\ request'.step \in {"checked", "placed"} => request.step \in {"checked", "placed"}
    BY <1>2, <1>4 DEF Refuse, StagePlace, DiscardFolders, ForgetMinted
  <2>2. UNCHANGED <<marker, proc, made, own, tried>>
    BY <1>4 DEF Refuse, StagePlace, DiscardFolders, ForgetMinted
  <2> QED
    BY <2>1, <2>2
<1>5. CASE StageMark
  <2>1. request'.step = "idle" /\ proc' = proc /\ made' = made /\ UNCHANGED <<own, tried>>
    BY <1>2, <1>5 DEF StageMark
  <2>2. request.step = "placed" /\ proc = "serving"
    BY <1>5 DEF StageMark, ProcInv
  <2>3. \/ marker'.phase = "staged" /\ marker'.gen = request.gen
        \/ marker' = marker
    BY <1>5 DEF StageMark
  <2> QED
    BY <2>1, <2>2, <2>3
<1>6. CASE DiscardMarker
  BY <1>1, <1>6 DEF DiscardMarker
<1>7. CASE StartClean \/ StartSwitch \/ StartRollBack
  BY <1>7 DEF StartClean, StartSwitch, StartRollBack, BeginRollBack
<1>8. CASE MarkSwitched
  BY <1>8 DEF MarkSwitched, ProcInv
<1>9. CASE RollBackUnmark \/ RollBackClear
  BY <1>1, <1>9 DEF RollBackUnmark, RollBackClear, ProcInv
<1>10. CASE Open \/ OpenFails
  <2>1. tried' \subseteq 1 .. made' + 1
    BY <1>10, DatabaseFacts DEF Open, OpenFails, Started
  <2>2. proc = "opening" /\ marker.phase # "staged" /\ proc' # "opening" /\ request.step = "idle"
    BY <1>10 DEF Open, OpenFails, BeginRollBack, ProcInv
  <2> QED
    BY <1>10, <2>1, <2>2 DEF Open, OpenFails
<1>11. CASE Tidy \/ StartFails \/ FinishClear
  BY <1>11 DEF Tidy, StartFails, FinishClear
<1>12. CASE Finish
  <2>1. request.step = "idle" /\ proc' # "opening" /\ own' \in 1 .. made + 1
    BY <1>12, DatabaseFacts DEF Finish, ProcInv, Started
  <2> QED
    BY <1>1, <1>12, <2>1 DEF Finish
<1>13. CASE Switch \/ RollBack \/ UseTorrents
  BY <1>13 DEF Switch, RollBack, UseTorrents
<1>14. CASE SwitchFails \/ Stop \/ Crash \/ Damage
  BY <1>2, <1>14 DEF SwitchFails, BeginRollBack, Stop, Crash, Damage
<1>15. CASE UNCHANGED vars
  BY <1>15 DEF vars
<1> HIDE DEF GenInv
<1> QED
  BY <1>3, <1>4, <1>5, <1>6, <1>7, <1>8, <1>9, <1>10, <1>11, <1>12, <1>13, <1>14, <1>15
     DEF Next, Request, Service

-----------------------------------------------------------------------------
(* The process and the marker.                                             *)

LEMMA NextProc ==
    ASSUME RInv, [Next]_vars
    PROVE  ProcInv'
<1> ProcInv /\ TypeOK
  BY DEF RInv
<1> USE DEF ProcInv, dirVars, localVars, boundVars, history
<1>1. NoMarker.phase = "none"
  BY DEF NoMarker
<1>2. Idle.step = "idle"
  BY DEF Idle
<1>3. CASE Check \/ Refuse \/ StagePlace \/ StageMark
  BY <1>2, <1>3 DEF Check, Refuse, StagePlace, StageMark
<1>4. CASE DiscardMarker \/ DiscardFolders \/ ForgetMinted
  BY <1>1, <1>2, <1>4 DEF DiscardMarker, DiscardFolders, ForgetMinted
<1>5. CASE StartClean \/ StartSwitch \/ StartRollBack
  BY <1>5 DEF StartClean, StartSwitch, StartRollBack, BeginRollBack
<1>6. CASE MarkSwitched
  <2>1. cutover = "switched"
    BY <1>6 DEF MarkSwitched
  <2> QED
    BY <1>6, <2>1 DEF MarkSwitched
<1>7. CASE RollBackUnmark \/ RollBackClear
  BY <1>1, <1>7 DEF RollBackUnmark, RollBackClear
<1>8. CASE Open \/ OpenFails
  BY <1>8 DEF Open, OpenFails, BeginRollBack
<1>9. CASE Tidy \/ StartFails \/ FinishClear
  BY <1>9 DEF Tidy, StartFails, FinishClear
<1>10. CASE Finish
  BY <1>1, <1>10 DEF Finish
<1>11. CASE Switch \/ RollBack \/ UseTorrents
  BY <1>11 DEF Switch, RollBack, UseTorrents
<1>12. CASE SwitchFails
  BY <1>12 DEF SwitchFails, BeginRollBack
<1>13. CASE Stop \/ Crash \/ Damage
  BY <1>2, <1>13 DEF Stop, Crash, Damage
<1>14. CASE UNCHANGED vars
  BY <1>14 DEF vars
<1> HIDE DEF ProcInv
<1> QED
  BY <1>3, <1>4, <1>5, <1>6, <1>7, <1>8, <1>9, <1>10, <1>11, <1>12, <1>13, <1>14
     DEF Next, Request, Service

-----------------------------------------------------------------------------
(* Places.                                                                 *)

\* What a step leaves alone stays as it is.
LEMMA SamePlaces ==
    UNCHANGED <<live, staging, previous, own, has, marker>> =>
        /\ \A i \in Item : Kept(i)' = Kept(i)
        /\ \A i \in Item : Untouched(i)' <=> Untouched(i)
        /\ Torn' <=> Torn
<1> SUFFICES ASSUME UNCHANGED <<live, staging, previous, own, has, marker>>
             PROVE  /\ \A i \in Item : Kept(i)' = Kept(i)
                    /\ \A i \in Item : Untouched(i)' <=> Untouched(i)
                    /\ Torn' <=> Torn
  OBVIOUS
<1>1. \A i : Kept(i)' = Kept(i) /\ Incoming(i)' = Incoming(i)
  BY DEF Kept, Incoming
<1>2. \A i : /\ Untouched(i)' <=> Untouched(i)
             /\ SetAside(i)' <=> SetAside(i)
             /\ Replaced(i)' <=> Replaced(i)
  BY <1>1 DEF Untouched, SetAside, Replaced
<1>3. Torn' <=> Torn
  BY <1>2 DEF Torn, Moving
<1> QED
  BY <1>1, <1>2, <1>3

\* A restore of which nothing has been moved yet.
LEMMA AllUntouched ==
    ASSUME \A i \in Item : Untouched(i)', marker'.phase # "switched"
    PROVE  Torn'
  BY ItemFacts DEF Torn, Moving

\* A restore that has switched: the installation in use is not the restored one.
LEMMA AllReplaced ==
    ASSUME \A i \in Item : Replaced(i)', marker'.phase # "staged",
           "database" \in has', own' # marker'.gen
    PROVE  Torn'
<1>1. ~Untouched("database")'
  BY ItemFacts DEF Untouched, Replaced, Kept, Incoming
<1> QED
  BY <1>1, ItemFacts DEF Torn, Moving

\* The state a roll-back begins in, whatever the switch was stopped at.
LEMMA TornRolls ==
    ASSUME Torn', stagingDir' = TRUE, marker'.gen # Gone, own' # Gone, "database" \in has',
           BeginRollBack, UNCHANGED <<previous, staging, stagingDir>>
    PROVE  Rolling'
<1>1. touched' = (previous["database"] # Gone \/ CameOut("database"))
  BY DEF BeginRollBack
<1>2. CameOut("database") <=> staging["database"] = Gone
  BY DEF CameOut
<1>3. CASE Untouched("database")'
  <2>1. previous["database"] = Gone /\ staging["database"] # Gone
    BY <1>3, ItemFacts DEF Untouched, Incoming
  <2>2. ~touched'
    BY <1>1, <1>2, <2>1
  <2>3. \A i \in Item : Pending(i)'
    BY <1>3, <2>2, ItemFacts DEF Torn, Pending
  <2> QED
    BY <2>3, OrderFacts DEF Rolling, BeginRollBack
<1>4. CASE ~Untouched("database")'
  <2>1. previous["database"] # Gone \/ staging["database"] = Gone
    BY <1>4, ItemFacts DEF Torn, Moving, SetAside, Replaced, Kept
  <2>2. touched'
    BY <1>1, <1>2, <2>1
  <2>3. \A i \in Item : Pending(i)'
    BY <1>4, <2>2, ItemFacts DEF Torn, Pending
  <2> QED
    BY <2>3, OrderFacts DEF Rolling, BeginRollBack
<1> QED
  BY <1>3, <1>4

\* One step of the switch: the item it is at goes on, the others stay.
LEMMA SwitchItem ==
    ASSUME RInv, Switch, NEW i, i = Items[n]
    PROVE  /\ i \in Item /\ n \in 1 .. 5
           /\ \A k \in Item : Kept(k)' = Kept(k) /\ Incoming(k)' = Incoming(k)
           /\ \A k \in Item \ {i} : /\ live'[k] = live[k]
                                    /\ previous'[k] = previous[k]
                                    /\ staging'[k] = staging[k]
           /\ half = "out" => SetAside(i)' \/ Replaced(i)'
           /\ half = "in" => Replaced(i)'
           /\ i \in Journal => SetAside(i)' /\ Replaced(i)'
<1> USE ItemFacts, OrderFacts
<1>1. /\ n \in 1 .. 5 /\ i \in Item
      /\ live \in Place /\ previous \in Place /\ staging \in Place
      /\ own # Gone /\ marker.gen # Gone
      /\ marker.phase = "staged"
      /\ UNCHANGED <<marker, own, has>>
  BY DEF RInv, TypeOK, ProcInv, GenInv, Switch, Gone, history
<1>2. /\ Moving(i) /\ (i \in Journal => Untouched(i) \/ SetAside(i))
      /\ half = "in" => SetAside(i) \/ Replaced(i)
  BY <1>1 DEF RInv, PlaceInv, Torn, Switching, Moving, Switch
<1>3. \A k \in Item : Kept(k)' = Kept(k) /\ Incoming(k)' = Incoming(k)
  BY <1>1 DEF Kept, Incoming
<1>4. \A k \in Item \ {i} : /\ live'[k] = live[k]
                            /\ previous'[k] = previous[k]
                            /\ staging'[k] = staging[k]
  BY <1>1 DEF Switch, Place
<1>5. CASE half = "out"
  <2>1. CASE GoesAside(i)
    <3>1. live'[i] = Gone /\ previous'[i] = live[i] /\ staging'[i] = staging[i]
      BY <1>1, <1>5, <2>1 DEF Switch, Place
    <3>2. Untouched(i)
      BY <1>1, <1>2, <2>1 DEF GoesAside, Moving, SetAside, Replaced, Incoming
    <3>3. SetAside(i)' /\ (i \in Journal => Replaced(i)')
      BY <1>1, <1>3, <3>1, <3>2 DEF Untouched, SetAside, Replaced, Incoming
    <3> QED
      BY <1>1, <1>3, <1>4, <1>5, <3>3
  <2>2. CASE ~GoesAside(i)
    <3>1. live'[i] = live[i] /\ previous'[i] = previous[i] /\ staging'[i] = staging[i]
      BY <1>1, <1>5, <2>2 DEF Switch
    <3>2. /\ SetAside(i) \/ Replaced(i)
          /\ i \in Journal => SetAside(i) /\ Replaced(i)
      BY <1>1, <1>2, <2>2 DEF GoesAside, Moving, Untouched, SetAside, Replaced, Incoming, Kept
    <3>3. /\ SetAside(i)' \/ Replaced(i)'
          /\ i \in Journal => SetAside(i)' /\ Replaced(i)'
      BY <1>1, <1>3, <3>1, <3>2 DEF SetAside, Replaced
    <3> QED
      BY <1>1, <1>3, <1>4, <1>5, <3>3
  <2> QED
    BY <2>1, <2>2
<1>6. CASE half = "in"
  <2>1. CASE staging[i] # Gone
    <3>1. live'[i] = staging[i] /\ previous'[i] = previous[i] /\ staging'[i] = Gone
      BY <1>1, <1>6, <2>1 DEF Switch, Place
    <3>2. SetAside(i) /\ i \notin Journal /\ staging[i] = marker.gen
      BY <1>1, <1>2, <1>6, <2>1 DEF SetAside, Replaced, Incoming, Untouched
    <3>3. Replaced(i)'
      BY <1>1, <1>3, <3>1, <3>2 DEF SetAside, Replaced
    <3> QED
      BY <1>1, <1>3, <1>4, <1>6, <3>2, <3>3
  <2>2. CASE staging[i] = Gone
    <3>1. live'[i] = live[i] /\ previous'[i] = previous[i] /\ staging'[i] = staging[i]
      BY <1>1, <1>6, <2>2 DEF Switch
    <3>2. Replaced(i) /\ (i \in Journal => SetAside(i))
      BY <1>1, <1>2, <1>6, <2>2 DEF SetAside, Replaced, Incoming, Untouched
    <3>3. Replaced(i)' /\ (i \in Journal => SetAside(i)')
      BY <1>1, <1>3, <3>1, <3>2 DEF SetAside, Replaced
    <3> QED
      BY <1>1, <1>3, <1>4, <1>6, <3>3
  <2> QED
    BY <2>1, <2>2
<1> QED
  BY <1>5, <1>6 DEF RInv, TypeOK

\* The switch keeps every item where a roll-back finds it.
LEMMA SwitchPlaces ==
    ASSUME RInv, Switch
    PROVE  Torn' /\ Switching'
<1> USE ItemFacts, OrderFacts
<1>0. PICK i : i = Items[n]
  OBVIOUS
<1>1. /\ i \in Item /\ n \in 1 .. 5
      /\ \A k \in Item : Kept(k)' = Kept(k) /\ Incoming(k)' = Incoming(k)
      /\ \A k \in Item \ {i} : /\ live'[k] = live[k]
                               /\ previous'[k] = previous[k]
                               /\ staging'[k] = staging[k]
      /\ half = "out" => SetAside(i)' \/ Replaced(i)'
      /\ half = "in" => Replaced(i)'
      /\ i \in Journal => SetAside(i)' /\ Replaced(i)'
  BY <1>0, SwitchItem
<1>2. /\ marker' = marker /\ marker.phase = "staged"
      /\ marker.gen # own /\ own # Gone /\ "database" \in has
      /\ UNCHANGED <<own, has>>
      /\ Torn /\ Switching
      /\ half \in {"out", "in"} /\ n \in Nat
  BY DEF RInv, TypeOK, ProcInv, GenInv, PlaceInv, Switch, Gone, history
<1>3. \A k \in Item \ {i} : /\ Untouched(k)' <=> Untouched(k)
                            /\ SetAside(k)' <=> SetAside(k)
                            /\ Replaced(k)' <=> Replaced(k)
  BY <1>1, <1>2 DEF Untouched, SetAside, Replaced
<1>4. \A k \in Staged : Moving(k)'
  BY <1>1, <1>2, <1>3 DEF Torn, Moving
<1>5. \A j \in Journal : Untouched(j)' \/ SetAside(j)'
  BY <1>1, <1>2, <1>3 DEF Torn
<1>6. Switching'
  <2>1. \A k \in 1 .. 5 : k < n => Replaced(Items[k])'
    BY <1>0, <1>1, <1>2, <1>3 DEF Switching
  <2>2. CASE half = "out"
    BY <1>0, <1>1, <2>1, <2>2 DEF Switching, Switch, Advance
  <2>3. CASE half = "in"
    <3>1. half' = "out" /\ n' = n + 1
      BY <2>3 DEF Switch, Advance
    <3>2. \A k \in 1 .. 5 : k < n' => Replaced(Items[k])'
      BY <1>0, <1>1, <1>2, <2>1, <2>3, <3>1
    <3> QED
      BY <3>1, <3>2 DEF Switching
  <2> QED
    BY <1>2, <2>2, <2>3
<1>7. ~Untouched("database")' => \A j \in Journal : Replaced(j)'
  <2> SUFFICES ASSUME ~Untouched("database")' PROVE \A j \in Journal : Replaced(j)'
    OBVIOUS
  <2>1. CASE i = "database"
    <3>1. n = 3
      <4>1. n \in 1 .. 5 /\ 3 \in 1 .. 5 /\ Items[n] = Items[3]
        BY <1>0, <1>1, <2>1
      <4> QED
        BY <4>1
    <3>2. \A j \in Journal : j # i /\ Replaced(j)
      BY <1>2, <2>1, <3>1 DEF Switching
    <3> QED
      BY <1>3, <3>2
  <2>2. CASE i # "database"
    <3>1. \A j \in Journal : Replaced(j)
      BY <1>2, <1>3, <2>2 DEF Torn
    <3> QED
      BY <1>1, <1>3, <3>1
  <2> QED
    BY <2>1, <2>2
<1> QED
  BY <1>2, <1>4, <1>5, <1>6, <1>7 DEF Torn

\* One step of the roll-back.
LEMMA RollBackPlaces ==
    ASSUME RInv, RollBack
    PROVE  Rolling'
<1> USE ItemFacts, OrderFacts
<1>0. PICK i : i = Items[n]
  OBVIOUS
<1>1. /\ n \in 1 .. 5 /\ i \in Item
      /\ live \in Place /\ previous \in Place /\ staging \in Place
      /\ own # Gone /\ marker.gen # Gone /\ stagingDir = TRUE
      /\ half \in {"out", "in"}
      /\ Rolling
      /\ UNCHANGED <<marker, own, has, staging, stagingDir, touched>>
  BY <1>0 DEF RInv, TypeOK, ProcInv, GenInv, PlaceInv, RollBack, Gone, history
<1>2. \A k \in Item : Kept(k)' = Kept(k) /\ Incoming(k)' = Incoming(k)
  BY <1>1 DEF Kept, Incoming
<1>3. \A k \in Item \ {i} : live'[k] = live[k] /\ previous'[k] = previous[k]
  BY <1>0, <1>1 DEF RollBack, Place
<1>4. \A k \in Item \ {i} : /\ Back(k)' <=> Back(k)
                            /\ Pending(k)' <=> Pending(k)
  BY <1>1, <1>2, <1>3 DEF Back, Pending, Moving, Untouched, SetAside, Replaced
<1>5. CASE half = "out"
  <2>1. Pending(i) /\ half' = "in" /\ n' = n
    BY <1>0, <1>1, <1>5 DEF Rolling, RollBack, Advance
  <2>2. Back(i)' \/ Emptied(i)'
    <3>1. CASE live[i] # Gone /\ LiveIsRestored(i)
      <4>1. live'[i] = Gone /\ previous'[i] = previous[i]
        BY <1>0, <1>1, <1>5, <3>1 DEF RollBack, Place
      <4>2. Replaced(i)
        BY <1>1, <2>1, <3>1 DEF Pending, Moving, Untouched, SetAside, Incoming, Kept,
           LiveIsRestored, CameOut
      <4> QED
        BY <1>1, <1>2, <4>1, <4>2 DEF Replaced, Emptied
    <3>2. CASE ~(live[i] # Gone /\ LiveIsRestored(i))
      <4>1. live'[i] = live[i] /\ previous'[i] = previous[i]
        BY <1>0, <1>1, <1>5, <3>2 DEF RollBack
      <4>2. Back(i) \/ Emptied(i)
        BY <1>1, <2>1, <3>2 DEF Pending, Moving, Untouched, SetAside, Replaced, Incoming,
           Kept, LiveIsRestored, CameOut, Back, Emptied
      <4> QED
        BY <1>1, <1>2, <4>1, <4>2 DEF Back, Emptied
    <3> QED
      BY <3>1, <3>2
  <2> QED
    BY <1>0, <1>1, <1>4, <1>5, <2>1, <2>2 DEF Rolling
<1>6. CASE half = "in"
  <2>1. (Back(i) \/ Emptied(i)) /\ half' = "out" /\ n' = n + 1
    BY <1>0, <1>1, <1>6 DEF Rolling, RollBack, Advance
  <2>2. Back(i)'
    <3>1. CASE previous[i] # Gone
      BY <1>0, <1>1, <1>2, <1>6, <2>1, <3>1 DEF RollBack, Place, Back, Emptied
    <3>2. CASE previous[i] = Gone
      BY <1>0, <1>1, <1>2, <1>6, <2>1, <3>2 DEF RollBack, Back, Emptied
    <3> QED
      BY <3>1, <3>2
  <2> QED
    BY <1>0, <1>1, <1>4, <1>6, <2>1, <2>2 DEF Rolling
<1> QED
  BY <1>1, <1>5, <1>6

\* Opening the database makes its own journal files, never another's.
LEMMA OpeningPlaces ==
    ASSUME RInv, proc = "opening", Opened \/ UNCHANGED <<live, has>>,
           UNCHANGED <<marker, own, previous, staging>>
    PROVE  /\ "database" \in has'
           /\ marker.phase = "none" => \A i \in Item : live'[i] = Kept(i)'
           /\ marker.phase # "none" => marker.phase = "switched" /\ Torn'
<1> USE ItemFacts
<1>1. /\ "database" \in has /\ own # Gone /\ Database = live["database"]
      /\ live["database"] = IF marker.phase = "switched" THEN marker.gen ELSE own
      /\ marker.phase # "none" => marker.phase = "switched" /\ marker.gen # own
  BY DatabaseFacts DEF RInv, PlaceInv, ProcInv, GenInv, Gone, Started
<1>2. "database" \in has'
  BY <1>1 DEF Opened
<1>3. ASSUME marker.phase = "none" PROVE \A i \in Item : live'[i] = Kept(i)'
  <2>1. \A i \in Item : live[i] = Kept(i)
    BY <1>3 DEF RInv, PlaceInv
  <2>2. CASE Opened
    BY <1>1, <1>3, <2>1, <2>2 DEF Opened, Kept
  <2>3. CASE UNCHANGED <<live, has>>
    BY <2>1, <2>3 DEF Kept
  <2> QED
    BY <2>2, <2>3
<1>4. ASSUME marker.phase # "none" PROVE Torn'
  <2>1. \A i \in Item : Replaced(i)
    BY <1>1, <1>4 DEF RInv, PlaceInv, Torn
  <2>2. has' = has /\ \A i \in Item : live'[i] = live[i] \/ (i \in Journal /\ live'[i] = marker.gen)
    BY <1>1, <1>4, <2>1 DEF Opened, Replaced
  <2>3. \A i \in Item : Replaced(i)'
    BY <2>1, <2>2 DEF Replaced, Kept
  <2> QED
    BY <1>1, <1>2, <1>4, <2>3, AllReplaced
<1> QED
  BY <1>1, <1>2, <1>3, <1>4

LEMMA NextPlace ==
    ASSUME Faults \subseteq Repaired, RInv, [Next]_vars
    PROVE  PlaceInv'
<1> USE ItemFacts DEF dirVars, localVars, boundVars, history
<1> TypeOK /\ GenInv /\ ProcInv /\ PlaceInv
  BY DEF RInv
<1>a. /\ NoMarker.phase = "none" /\ Idle.step = "idle"
      /\ \A i \in Item : Nowhere[i] = Gone
  BY DEF NoMarker, Idle, Nowhere
<1>b. own # Gone /\ (marker.phase # "none" => marker.gen # Gone /\ marker.gen # own)
  BY DEF GenInv, Gone
<1>1. ASSUME UNCHANGED <<live, previous, staging, stagingDir, marker, own, has>>,
             proc' = proc \/ proc' \in {"down", "tidying", "starting"} \/ proc = "starting",
             proc' \notin {"switching", "rolling_back", "opening"},
             proc # "rolling_back",
             proc' = "serving" /\ proc # "serving" => marker.phase # "staged",
             request'.step # "placed" \/ request' = request,
             proc' \in {"tidying", "starting", "serving"} =>
                 proc \in {"opening", "tidying", "starting", "serving"}
      PROVE  PlaceInv'
  BY <1>1, SamePlaces DEF PlaceInv
<1>2. CASE Check
  BY <1>1, <1>2 DEF Check, ProcInv
<1>3. CASE Refuse \/ ForgetMinted
  BY <1>a, <1>1, <1>3 DEF Refuse, ForgetMinted, ProcInv
<1>4. CASE StagePlace
  BY <1>4 DEF StagePlace, PlaceInv, ProcInv, Kept
<1>5. CASE StageMark
  <2>1. /\ request.step = "placed" /\ proc = "serving" /\ marker.phase = "none"
        /\ request'.step = "idle"
        /\ UNCHANGED <<live, previous, proc, own, has>>
        /\ \A i \in Item : live[i] = Kept(i) /\ previous[i] = Gone
    BY <1>a, <1>5 DEF StageMark, ProcInv, PlaceInv
  <2>2. CASE marker' = [phase |-> "staged", gen |-> request.gen] /\ UNCHANGED <<staging, stagingDir>>
    <3>1. \A i \in Item : Untouched(i)'
      BY <2>1, <2>2 DEF Untouched, Kept, Incoming, PlaceInv
    <3>2. Torn' /\ stagingDir'
      BY <2>1, <2>2, <3>1, AllUntouched DEF PlaceInv
    <3> QED
      BY <2>1, <2>2, <3>1, <3>2 DEF PlaceInv
  <2>3. CASE UNCHANGED marker
    BY <2>1, <2>3 DEF PlaceInv, Kept
  <2> QED
    BY <1>5, <2>2, <2>3 DEF StageMark
<1>6. CASE DiscardMarker
  <2>1. \A i \in Item : live[i] = Kept(i) /\ previous[i] = Gone
    BY <1>a, <1>6 DEF DiscardMarker, PlaceInv, Untouched
  <2>2. previous = Nowhere
    BY <2>1 DEF Nowhere, TypeOK, Place
  <2> QED
    BY <1>a, <1>6, <2>1, <2>2 DEF DiscardMarker, PlaceInv, Kept
<1>7. CASE DiscardFolders
  BY <1>7 DEF DiscardFolders, RemoveStaging, PlaceInv, ProcInv, Kept
<1>8. CASE StartClean
  BY <1>8 DEF StartClean, RemoveStaging, PlaceInv, ProcInv, Kept
<1>9. CASE StartSwitch
  <2>1. Switching'
    BY <1>9 DEF StartSwitch, Switching
  <2>2. Torn' /\ stagingDir'
    BY <1>9, SamePlaces DEF StartSwitch, PlaceInv
  <2> QED
    BY <1>9, <2>1, <2>2 DEF StartSwitch, PlaceInv, ProcInv
<1>10. CASE StartRollBack \/ SwitchFails
  <2>1. Torn' /\ stagingDir /\ marker.phase # "none" /\ request.step = "idle"
    BY <1>10, SamePlaces DEF StartRollBack, SwitchFails, PlaceInv, ProcInv
  <2>2. Rolling'
    BY <1>b, <1>10, <2>1, TornRolls DEF StartRollBack, SwitchFails, PlaceInv
  <2> QED
    BY <1>10, <2>1, <2>2 DEF StartRollBack, SwitchFails, BeginRollBack, PlaceInv
<1>11. CASE Switch
  BY <1>11, SwitchPlaces DEF Switch, PlaceInv, ProcInv
<1>12. CASE MarkSwitched
  <2>1. \A i \in Item : Replaced(i)
    BY <1>12, OrderFacts DEF MarkSwitched, PlaceInv, Switching, TypeOK
  <2>2. \A i \in Item : Replaced(i)'
    BY <1>12, <2>1 DEF MarkSwitched, Replaced, Kept
  <2>3. Torn'
    BY <1>b, <1>12, <2>2, AllReplaced DEF MarkSwitched, PlaceInv, ProcInv
  <2> QED
    BY <1>12, <2>3 DEF MarkSwitched, PlaceInv, ProcInv
<1>13. CASE RollBack
  BY <1>13, RollBackPlaces DEF RollBack, PlaceInv, ProcInv
<1>14. CASE RollBackUnmark
  <2>1. \A i \in Item : Back(i)
    BY <1>14, OrderFacts DEF RollBackUnmark, PlaceInv, Rolling, TypeOK
  <2> QED
    BY <1>a, <1>14, <2>1 DEF RollBackUnmark, PlaceInv, ProcInv, Back, Kept
<1>15. CASE RollBackClear
  BY <1>15 DEF RollBackClear, RemoveStaging, PlaceInv, ProcInv, Kept
<1>16. CASE Open
  <2>1. /\ "database" \in has'
        /\ marker.phase = "none" => \A i \in Item : live'[i] = Kept(i)'
        /\ marker.phase # "none" => marker.phase = "switched" /\ Torn'
    BY <1>16, OpeningPlaces DEF Open
  <2> QED
    BY <1>16, <2>1 DEF Open, PlaceInv, ProcInv
<1>17. CASE OpenFails
  <2>1. /\ "database" \in has'
        /\ marker.phase = "none" => \A i \in Item : live'[i] = Kept(i)'
        /\ marker.phase # "none" => marker.phase = "switched" /\ Torn'
    BY <1>17, OpeningPlaces DEF OpenFails
  <2>2. CASE cutover = "switched"
    <3>1. BeginRollBack /\ marker.phase = "switched" /\ stagingDir /\ request.step = "idle"
      BY <1>17, <2>2 DEF OpenFails, ProcInv, PlaceInv
    <3>2. Rolling'
      BY <1>b, <1>17, <2>1, <3>1, TornRolls DEF OpenFails
    <3> QED
      BY <1>17, <2>1, <3>1, <3>2 DEF OpenFails, BeginRollBack, PlaceInv
  <2>3. CASE cutover # "switched"
    BY <1>17, <2>1, <2>3 DEF OpenFails, ProcInv, PlaceInv
  <2> QED
    BY <2>2, <2>3
<1>18. CASE Tidy \/ StartFails
  BY <1>1, <1>18 DEF Tidy, StartFails, ProcInv
<1>19. CASE Finish
  <2>1. CASE UNCHANGED <<marker, own, has>> /\ proc' = "serving"
    BY <1>1, <1>19, <2>1 DEF Finish, ProcInv
  <2>2. CASE /\ cutover = "switched" /\ marker' = NoMarker /\ own' = live["database"]
             /\ has' = {i \in Item : live[i] # Gone} /\ proc' = "finishing"
    <3>1. \A i \in Item : live[i] \in {Gone, marker.gen}
      BY <1>19, <2>2 DEF Finish, ProcInv, PlaceInv, Torn, Replaced
    <3>2. live["database"] = marker.gen /\ marker.gen # Gone /\ request.step = "idle"
      BY <1>b, <1>19, <2>2, DatabaseFacts DEF Finish, ProcInv, Started
    <3> QED
      BY <1>a, <1>19, <2>2, <3>1, <3>2 DEF Finish, PlaceInv, Kept
  <2> QED
    BY <1>19, <2>1, <2>2 DEF Finish
<1>20. CASE FinishClear
  <2>1. previous' = Nowhere
    BY <1>20 DEF FinishClear, Repaired
  <2> QED
    BY <1>20, <2>1 DEF FinishClear, PlaceInv, ProcInv, Kept
<1>21. CASE UseTorrents
  <2>1. PICK i \in Staged \ {"database"} :
          /\ live[i] = Gone
          /\ live' = [live EXCEPT ![i] = live["database"]]
          /\ has' = IF live["database"] = own THEN has \cup {i} ELSE has
    BY <1>21 DEF UseTorrents
  <2>2. marker.phase \in {"none", "staged"} /\ live["database"] = own /\ proc = "serving"
    BY <1>b, <1>21, <2>1, DatabaseFacts
       DEF UseTorrents, ProcInv, PlaceInv, Torn, Replaced, TypeOK, Started
  <2>3. /\ live'[i] = own /\ has' = has \cup {i} /\ Kept(i)' = own
        /\ \A k \in Item \ {i} : live'[k] = live[k] /\ Kept(k)' = Kept(k)
    BY <1>21, <2>1, <2>2 DEF UseTorrents, Kept, TypeOK, Place
  <2>4. CASE marker.phase = "none"
    BY <1>21, <2>2, <2>3, <2>4 DEF UseTorrents, PlaceInv
  <2>5. CASE marker.phase = "staged"
    <3>1. \A k \in Item : Untouched(k)'
      BY <1>21, <2>2, <2>3, <2>5 DEF UseTorrents, PlaceInv, Untouched, Incoming
    <3> QED
      BY <1>21, <2>2, <2>3, <2>5, <3>1, AllUntouched DEF UseTorrents, PlaceInv
  <2> QED
    BY <2>2, <2>4, <2>5
<1>22. CASE Stop
  <2>1. /\ \A i \in Staged : live'[i] = live[i]
        /\ \A i \in Journal : live'[i] = Gone
        /\ proc = "serving" /\ marker.phase \in {"none", "staged", "switched"}
        /\ live["database"] = IF marker.phase = "switched" THEN marker.gen ELSE own
    BY <1>22, DatabaseFacts DEF Stop, ProcInv, TypeOK, Started
  <2>2. CASE marker.phase = "switched"
    <3>1. \A i \in Item : Replaced(i)'
      BY <1>b, <1>22, <2>1, <2>2 DEF Stop, PlaceInv, Torn, Replaced, Kept
    <3> QED
      BY <1>b, <1>22, <2>1, <2>2, <3>1, AllReplaced DEF Stop, PlaceInv
  <2>3. CASE marker.phase # "switched"
    <3>1. \A i \in Item : live[i] = Kept(i) => live'[i] = Kept(i)'
      BY <1>22, <2>1, <2>3 DEF Stop, Kept
    <3>2. "database" \in has'
      BY <1>22 DEF Stop, PlaceInv
    <3>3. CASE marker.phase = "none"
      BY <1>22, <3>1, <3>2, <3>3 DEF Stop, PlaceInv
    <3>4. CASE marker.phase = "staged"
      <4>1. \A i \in Item : Untouched(i)'
        BY <1>22, <2>1, <3>1, <3>4 DEF Stop, PlaceInv, Untouched, Incoming
      <4> QED
        BY <1>22, <3>2, <3>4, <4>1, AllUntouched DEF Stop, PlaceInv
    <3> QED
      BY <2>1, <2>3, <3>3, <3>4
  <2> QED
    BY <2>2, <2>3
<1>23. CASE Crash
  BY <1>a, <1>1, <1>23 DEF Crash, Repaired
<1>24. CASE Damage
  <2>1. Torn /\ stagingDir /\ proc = "down" /\ proc' = "down" /\ marker'.phase = "unreadable"
        /\ marker'.gen = marker.gen /\ UNCHANGED <<live, staging, previous, own, has>>
    BY <1>24 DEF Damage, PlaceInv
  <2>2. \A i : /\ Untouched(i)' <=> Untouched(i)
               /\ SetAside(i)' <=> SetAside(i)
               /\ Replaced(i)' <=> Replaced(i)
    BY <2>1 DEF Untouched, SetAside, Replaced, Kept, Incoming
  <2>3. Torn'
    BY <2>1, <2>2 DEF Torn, Moving
  <2> QED
    BY <1>24, <2>1, <2>3 DEF Damage, PlaceInv
<1>25. CASE UNCHANGED vars
  BY <1>25, SamePlaces DEF vars, PlaceInv, Switching, Rolling, Pending, Moving, Untouched,
     SetAside, Replaced, Back, Emptied, Kept, Incoming
<1> QED
  BY <1>2, <1>3, <1>4, <1>5, <1>6, <1>7, <1>8, <1>9, <1>10, <1>11, <1>12, <1>13, <1>14,
     <1>15, <1>16, <1>17, <1>18, <1>19, <1>20, <1>21, <1>22, <1>23, <1>24, <1>25
     DEF Next, Request, Service

-----------------------------------------------------------------------------
(* Credentials.                                                            *)

LEMMA NextVault ==
    ASSUME RInv, [Next]_vars
    PROVE  VaultInv'
<1> USE DEF VaultInv, dirVars, localVars, boundVars, history
<1> VaultInv /\ GenInv /\ ProcInv
  BY DEF RInv
<1>1. NoMarker.phase = "none" /\ Idle.step = "idle" /\ Gone # own
  BY DEF NoMarker, Idle, Gone, GenInv
<1>2. CASE Check \/ StagePlace
  BY <1>2 DEF Check, StagePlace, ProcInv
<1>3. CASE Refuse \/ ForgetMinted
  BY <1>1, <1>3 DEF Refuse, ForgetMinted, ProcInv, GenInv
<1>4. CASE StageMark
  BY <1>1, <1>4 DEF StageMark, ProcInv, GenInv
<1>5. CASE DiscardMarker \/ DiscardFolders
  BY <1>1, <1>5 DEF DiscardMarker, DiscardFolders, ProcInv
<1>6. CASE StartClean \/ StartSwitch \/ StartRollBack \/ SwitchFails
  BY <1>6 DEF StartClean, StartSwitch, StartRollBack, SwitchFails, BeginRollBack
<1>7. CASE Switch \/ RollBack
  BY <1>7 DEF Switch, RollBack
<1>8. CASE MarkSwitched
  BY <1>8 DEF MarkSwitched, ProcInv
<1>9. CASE RollBackUnmark
  BY <1>1, <1>9 DEF RollBackUnmark, ProcInv, GenInv
<1>10. CASE RollBackClear \/ Open
  BY <1>10 DEF RollBackClear, Open
<1>11. CASE OpenFails
  BY <1>11 DEF OpenFails, BeginRollBack
<1>12. CASE Tidy
  <2>1. /\ proc = "tidying" /\ proc' = "starting" /\ request.step = "idle"
        /\ UNCHANGED <<own, marker, request>>
        /\ cutover \in {"nothing", "switched", "rolled_back"}
    BY <1>12 DEF Tidy, ProcInv, RInv, TypeOK
  <2>2. CASE cutover = "nothing"
    <3>1. marker.phase = "none" /\ live["database"] = own
      BY <2>1, <2>2, DatabaseFacts DEF ProcInv, Started
    <3> QED
      BY <1>12, <2>1, <2>2, <3>1 DEF Tidy
  <2>3. CASE cutover = "rolled_back"
    BY <1>12, <2>1, <2>3 DEF Tidy, ProcInv
  <2>4. CASE cutover = "switched"
    BY <1>12, <2>1, <2>4 DEF Tidy
  <2> QED
    BY <2>1, <2>2, <2>3, <2>4
<1>13. CASE Finish
  <2>1. cutover = "switched" => live["database"] \in vault
    BY <1>13, DatabaseFacts DEF Finish, ProcInv, Started
  <2> QED
    BY <1>1, <1>13, <2>1 DEF Finish, ProcInv
<1>14. CASE FinishClear \/ StartFails \/ UseTorrents \/ Stop
  BY <1>14 DEF FinishClear, StartFails, UseTorrents, Stop
<1>15. CASE Crash \/ Damage
  BY <1>1, <1>15 DEF Crash, Damage
<1>16. CASE UNCHANGED vars
  BY <1>16 DEF vars
<1> HIDE DEF VaultInv
<1> QED
  BY <1>2, <1>3, <1>4, <1>5, <1>6, <1>7, <1>8, <1>9, <1>10, <1>11, <1>12, <1>13, <1>14,
     <1>15, <1>16 DEF Next, Request, Service

-----------------------------------------------------------------------------
(* The theorems.                                                           *)

LEMMA RestoreInvariant ==
    ASSUME Faults \subseteq Repaired
    PROVE  Spec => []RInv
<1>1. Init => RInv
  BY InitInv
<1>2. RInv /\ [Next]_vars => RInv'
  BY NextTypes, NextGen, NextProc, NextPlace, NextVault DEF RInv
<1> QED
  BY <1>1, <1>2, PTL DEF Spec

\* The data directory, the marker and the process are always in a state the
\* model names.
THEOREM TypesAreRight ==
    ASSUME Faults \subseteq Repaired
    PROVE  Spec => []TypeOK
<1>1. RInv => TypeOK
  BY DEF RInv
<1> QED
  BY <1>1, RestoreInvariant, PTL

\* Whatever a switch or a roll-back is stopped at, each item of the installation
\* in use is in its live place or in `previous`, where `roll_back` finds it.
THEOREM InstallationIsKept ==
    ASSUME Faults \subseteq Repaired
    PROVE  Spec => []OwnIsKept
<1>1. RInv => OwnIsKept
  <2> SUFFICES ASSUME RInv, NEW i \in has PROVE live[i] = own \/ previous[i] = own
    BY DEF OwnIsKept
  <2> USE ItemFacts, OrderFacts
  <2>1. i \in Item /\ Kept(i) = own
    BY DEF RInv, TypeOK, Kept
  <2>2. CASE marker.phase = "none"
    BY <2>1, <2>2 DEF RInv, PlaceInv
  <2>3. CASE proc = "rolling_back"
    <3>1. Back(i) \/ Emptied(i) \/ Moving(i)
      BY <2>1, <2>3 DEF RInv, PlaceInv, Rolling, Pending, Moving
    <3> QED
      BY <2>1, <3>1 DEF Back, Emptied, Moving, Untouched, SetAside, Replaced
  <2>4. CASE marker.phase # "none" /\ proc # "rolling_back"
    <3>1. Moving(i)
      BY <2>1, <2>4 DEF RInv, PlaceInv, Torn, Moving
    <3> QED
      BY <2>1, <3>1 DEF Moving, Untouched, SetAside, Replaced
  <2> QED
    BY <2>2, <2>3, <2>4
<1> QED
  BY <1>1, RestoreInvariant, PTL

\* The database a start opens has only its own journal files and torrent folders
\* beside it, and is the one in use or the one the marker still names.
THEOREM StartsAreWhole ==
    ASSUME Faults \subseteq Repaired
    PROVE  Spec => []NeverMixed
<1>1. RInv => NeverMixed
  <2> SUFFICES ASSUME RInv, proc \in {"tidying", "starting", "finishing", "serving"}
               PROVE  /\ \A i \in Item : live[i] \in {Gone, live["database"]}
                      /\ \/ live["database"] = own /\ \A i \in has : live[i] = own
                         \/ marker = [phase |-> "switched", gen |-> live["database"]]
    BY DEF NeverMixed
  <2> USE ItemFacts
  <2>1. /\ live["database"] = IF marker.phase = "switched" THEN marker.gen ELSE own
        /\ marker.phase \in {"none", "staged", "switched"}
        /\ has \subseteq Item
    BY DatabaseFacts DEF RInv, ProcInv, TypeOK, Started
  <2>2. CASE marker.phase = "switched"
    <3>1. \A i \in Item : live[i] \in {Gone, marker.gen}
      BY <2>2 DEF RInv, PlaceInv, Torn, Replaced
    <3>2. marker = [phase |-> "switched", gen |-> live["database"]]
      BY <2>1, <2>2 DEF RInv, TypeOK
    <3> QED
      BY <2>1, <2>2, <3>1, <3>2
  <2>3. CASE marker.phase # "switched"
    <3>1. \A i \in Item : live[i] = Kept(i)
      BY <2>1, <2>3 DEF RInv, ProcInv, PlaceInv, Untouched
    <3> QED
      BY <2>1, <2>3, <3>1 DEF Kept
  <2> QED
    BY <2>2, <2>3
<1> QED
  BY <1>1, RestoreInvariant, PTL

\* The credentials of the installation in use, and of the restored one that is
\* being started, stay in the vault through every sweep and take-back.
THEOREM CredentialsStay ==
    ASSUME Faults \subseteq Repaired
    PROVE  Spec => []CredentialsAreKept
<1>1. RInv => CredentialsAreKept
  BY DatabaseFacts DEF RInv, VaultInv, ProcInv, TypeOK, CredentialsAreKept, Started
<1> QED
  BY <1>1, RestoreInvariant, PTL

\* A restored database whose first start did not complete is rolled back and
\* never opened a second time.
THEOREM RestoredIsTriedOnce ==
    ASSUME Faults \subseteq Repaired
    PROVE  Spec => TriedOnce
<1>1. RInv /\ [Next]_vars =>
        [proc = "opening" /\ proc' = "tidying" /\ live["database"] # own =>
            live["database"] \notin tried]_vars
  BY DatabaseFacts DEF RInv, GenInv, Started
<1> QED
  BY <1>1, RestoreInvariant, PTL DEF Spec, TriedOnce
=============================================================================

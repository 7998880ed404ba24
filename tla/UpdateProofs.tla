---------------------------- MODULE UpdateProofs ----------------------------
(***************************************************************************)
(* Updates, for any number of checkers and releases.                       *)
(***************************************************************************)
EXTENDS Update, TLAPS

\* From the copy of the helper to the first rename, what is installed is what
\* the helper is a copy of; from then on to the end of a rollback the backup
\* is; after it, what is installed is again.  Between the two renames nothing is
\* installed, then, until a rollback, a newer release.
Untouched == {"dryMetadata", "dryCopy", "stop", "compare", "restage", "recopy", "unpack",
    "recompare", "away"}
Replaced == {"in", "sync", "start", "rollback", "replace"}

\* Before anything is unpacked.
Unpacked == {"recompare", "away", "in", "unreported"}

CheckerInv(c) ==
    /\ at[c] \notin Scripting => alone[c]
    /\ at[c] = "unpack" => meta[c] \in Releases /\ meta[c] > helper[c]
    /\ candidate[c] # Absent => at[c] \in Unpacked
    /\ at[c] \in {"recompare", "away", "in"} => candidate[c] # Absent
    /\ at[c] \in Replaced => backup[c] # Absent
    /\ at[c] \in Scripting /\ alone[c] =>
          /\ \A d \in Checkers : at[d] \in Scripting => d = c
          /\ at[c] \in Untouched => target = helper[c]
          /\ at[c] \in Replaced => backup[c] = helper[c]
          /\ at[c] = "in" => target = Absent
          /\ at[c] \in Replaced \ {"in"} => target \in Releases /\ target > helper[c]

UpdateInv ==
    /\ TypeOK
    /\ InstalledVerified
    /\ FailedUpdateUndone
    /\ \A c \in Checkers : CheckerInv(c)

\* What the invariants say of one checker.
Own(c) ==
    /\ CheckerInv(c)
    /\ backup[c] # Bogus
    /\ candidate[c] # Absent => candidate[c] \in Releases /\ candidate[c] > helper[c]
    /\ alone[c] /\ at[c] = "restored" => target = helper[c]
    /\ alone[c] /\ at[c] = "unreported" => helper[c] \in {target, backup[c]}

\* A step of one checker leaves the others alone; a check may end with the
\* service.
OthersStay(c) ==
    \A d \in Checkers \ {c} :
        /\ \/ at'[d] = at[d] /\ meta'[d] = meta[d]
           \/ at[d] \in Checking /\ at'[d] = "idle"
        /\ helper'[d] = helper[d] /\ candidate'[d] = candidate[d]
        /\ backup'[d] = backup[d] /\ alone'[d] = alone[d]

\* The invariant, checker by checker.
LEMMA OwnDef ==
    UpdateInv <=> /\ TypeOK /\ Bogus \notin {target, running} \cup kept
                  /\ \A c \in Checkers : Own(c)
BY DEF UpdateInv, InstalledVerified, FailedUpdateUndone, Own

\* It holds of a device that no update has reached yet.
LEMMA InitUpdate == Init => UpdateInv
<1> SUFFICES ASSUME Init PROVE UpdateInv
  OBVIOUS
<1>1. 0 \in Versions
  BY UpdateAssumption DEF Versions
<1>2. TypeOK
  BY <1>1 DEF Init, TypeOK, Checking
<1>3. \A c \in Checkers : Own(c)
  BY UpdateAssumption
     DEF Init, Own, CheckerInv, Scripting, Installing, Unpacked, Untouched, Replaced
<1> QED BY <1>2, <1>3, UpdateAssumption, OwnDef DEF Init

\* A step of a script does not disturb what is said of the others: while one
\* of them is alone, no other script takes steps.
LEMMA StepKeeps ==
    ASSUME UpdateInv, NEW c \in Checkers,
           TypeOK', target' # Bogus, running' # Bogus, Own(c)', OthersStay(c),
           kept' \subseteq kept \cup ({backup[c]} \ {Absent}),
           at'[c] \in Scripting => at[c] \in Scripting,
           target' = target \/ at[c] \in Scripting
    PROVE  UpdateInv'
<1>1. ASSUME NEW d \in Checkers \ {c}
      PROVE  Own(d)'
  <2>1. Own(d)
    BY OwnDef
  <2>2. at'[d] \in Scripting => at'[d] = at[d] /\ meta'[d] = meta[d]
    BY DEF OthersStay, Checking, Scripting, Installing
  <2>3. at'[d] \notin Scripting => at[d] \notin Scripting
    BY DEF OthersStay, Checking, Scripting, Installing
  <2>4. \A e \in Checkers : at'[e] \in Scripting => at[e] \in Scripting
    BY DEF OthersStay, Checking, Scripting, Installing
  <2>5. /\ helper'[d] = helper[d] /\ candidate'[d] = candidate[d]
        /\ backup'[d] = backup[d] /\ alone'[d] = alone[d]
    BY DEF OthersStay
  <2>6. at[d] \in Scripting /\ alone[d] => target' = target
    BY <2>1 DEF Own, CheckerInv
  <2>7. CASE at'[d] \in Scripting
    BY <2>1, <2>2, <2>4, <2>5, <2>6, <2>7 DEF Own, CheckerInv
  <2>8. CASE at'[d] \notin Scripting
    <3>1. at'[d] \notin Unpacked \cup Replaced \cup {"unpack", "restored"}
          /\ at[d] \notin Unpacked
      BY <2>3, <2>8 DEF Scripting, Installing, Unpacked, Replaced
    <3>2. candidate[d] = Absent /\ alone[d]
      BY <2>1, <2>3, <2>8, <3>1 DEF Own, CheckerInv
    <3> QED BY <2>1, <2>5, <2>8, <3>1, <3>2 DEF Own, CheckerInv, Unpacked, Replaced
  <2> QED BY <2>7, <2>8
<1>2. (TypeOK /\ Bogus \notin {target, running} \cup kept /\ \A d \in Checkers : Own(d))'
  <2>1. Bogus \notin kept \cup {backup[c]}
    BY OwnDef DEF Own
  <2> QED BY <1>1, <2>1
<1> QED BY <1>2, OwnDef DEF UpdateInv, InstalledVerified, FailedUpdateUndone, Own

\* A check or script that ends.
LEMMA EndKeeps ==
    ASSUME UpdateInv, NEW c \in Checkers, Ends(c), UNCHANGED <<download, target>>,
           running' = running \/ running' = target \/ running' = Absent
    PROVE  UpdateInv'
<1>1. 0 \in Versions
  BY UpdateAssumption DEF Versions
<1>2. TypeOK'
  BY <1>1 DEF Ends, Moves, UpdateInv, TypeOK, Checking, download
<1>3. Own(c)'
  BY UpdateAssumption DEF Ends, Moves, UpdateInv, TypeOK, Own, CheckerInv, Scripting, Installing,
     Unpacked, Untouched, Replaced
<1>4. OthersStay(c)
  BY DEF Ends, Moves, UpdateInv, TypeOK, OthersStay
<1>5. at'[c] \notin Scripting
  BY DEF Ends, Moves, UpdateInv, TypeOK, Scripting, Installing
<1> QED BY <1>2, <1>3, <1>4, <1>5, UpdateAssumption, StepKeeps
    DEF UpdateInv, InstalledVerified, download, Ends

\* A checker that only goes on, with nothing installed or unpacked yet.
LEMMA CheckingKeeps ==
    ASSUME UpdateInv, NEW c \in Checkers, at[c] \in Checking,
           NEW phase \in Checking, Moves(c, phase),
           UNCHANGED <<script, target, running>>, TypeOK',
           \A d \in Checkers \ {c} : meta'[d] = meta[d]
    PROVE  UpdateInv'
<1>1. OthersStay(c)
  BY DEF Moves, UpdateInv, TypeOK, OthersStay, script
<1>2. Own(c)'
  <2>1. Own(c)
    BY OwnDef
  <2> QED BY <2>1 DEF Moves, UpdateInv, TypeOK, Own, CheckerInv, Checking, Scripting, Installing,
        Unpacked, Untouched, Replaced, script
<1>3. at'[c] \notin Scripting
  BY DEF Moves, UpdateInv, TypeOK, Checking, Scripting, Installing
<1> QED BY <1>1, <1>2, <1>3, StepKeeps DEF UpdateInv, InstalledVerified, script

\* The steps of check_and_stage; with the last one a script begins, and from
\* there on no other script is alone.
LEMMA StagingKeeps ==
    ASSUME UpdateInv, NEW c \in Checkers, Staging(c)
    PROVE  UpdateInv'
<1>1. CASE Check(c)
  <2>1. TypeOK'
    BY <1>1 DEF Check, Moves, UpdateInv, TypeOK, Checking, download, script
  <2> QED BY <1>1, <2>1, CheckingKeeps DEF Check, Checking
<1>2. CASE CheckFails(c)
  BY <1>2, EndKeeps DEF CheckFails
<1>3. CASE DownloadArtifact(c)
  <2>1. TypeOK'
    BY <1>3 DEF DownloadArtifact, Moves, UpdateInv, TypeOK, Checking, script
  <2> QED BY <1>3, <2>1, CheckingKeeps DEF DownloadArtifact, Checking
<1>4. CASE DownloadManifest(c)
  <2>1. TypeOK'
    BY <1>4 DEF DownloadManifest, Moves, UpdateInv, TypeOK, Checking, script
  <2> QED BY <1>4, <2>1, CheckingKeeps DEF DownloadManifest, Checking
<1>5. CASE DownloadSignature(c)
  <2>1. TypeOK'
    BY <1>5 DEF DownloadSignature, Moves, UpdateInv, TypeOK, Checking, script
  <2> QED BY <1>5, <2>1, CheckingKeeps DEF DownloadSignature, Checking
<1>6. CASE ReadMetadata(c, "metadata", "copy")
  <2>1. TypeOK'
    BY <1>6 DEF ReadMetadata, Moves, UpdateInv, TypeOK, Checking, download, script
  <2> QED BY <1>6, <2>1, CheckingKeeps DEF ReadMetadata, Checking, UpdateInv, TypeOK
<1>7. CASE StageUpdate(c) /\ ~applies
  BY <1>7, EndKeeps DEF StageUpdate
<1>8. CASE StageUpdate(c) /\ applies
  <2>1. /\ at[c] = "copy" /\ at' = [at EXCEPT ![c] = "begin"]
        /\ alone' = [d \in Checkers |->
                        IF d = c THEN \A e \in Checkers : at[e] \notin Scripting
                                 ELSE alone[d] /\ at[d] \notin Scripting]
        /\ UNCHANGED <<download, meta, helper, candidate, backup, kept, target, running>>
    BY <1>8 DEF StageUpdate, Moves
  <2>2. TypeOK'
    <3>1. alone' \in [Checkers -> BOOLEAN]
      BY <2>1, Zenon
    <3> QED BY <2>1, <3>1 DEF UpdateInv, TypeOK, Checking, Scripting, download
  <2>3. Own(c)'
    <3>1. Own(c)
      BY OwnDef
    <3>2. at'[c] = "begin" /\ \A d \in Checkers \ {c} : at'[d] = at[d]
      BY <2>1 DEF UpdateInv, TypeOK
    <3>3. alone'[c] <=> \A e \in Checkers : at[e] \notin Scripting
      BY <2>1
    <3>4. candidate[c] = Absent
      BY <2>1, <3>1 DEF Own, CheckerInv, Unpacked
    <3> QED BY <2>1, <3>1, <3>2, <3>3, <3>4
        DEF Own, CheckerInv, Scripting, Untouched, Replaced, Unpacked
  <2>4. ASSUME NEW d \in Checkers \ {c} PROVE Own(d)'
    <3>1. Own(d)
      BY OwnDef
    <3>2. at'[d] = at[d]
      BY <2>1 DEF UpdateInv, TypeOK
    <3>3. alone'[d] <=> alone[d] /\ at[d] \notin Scripting
      BY <2>1
    <3>4. at[d] \notin Scripting => alone[d] /\ at[d] \notin {"restored", "unreported"}
      BY <3>1 DEF Own, CheckerInv, Scripting
    <3> QED BY <2>1, <3>1, <3>2, <3>3, <3>4 DEF Own, CheckerInv, Scripting
  <2>5. (TypeOK /\ Bogus \notin {target, running} \cup kept /\ \A d \in Checkers : Own(d))'
    BY <2>1, <2>2, <2>3, <2>4 DEF UpdateInv, InstalledVerified
  <2> QED BY <2>5, OwnDef DEF UpdateInv, InstalledVerified, FailedUpdateUndone, Own
<1> QED BY <1>1, <1>2, <1>3, <1>4, <1>5, <1>6, <1>7, <1>8 DEF Staging

\* Steps of a script that touch no executable.
LEMMA GoesOnKeeps ==
    ASSUME UpdateInv, NEW c \in Checkers, at[c] \in Scripting,
           NEW phase \in Scripting, Moves(c, phase),
           UNCHANGED <<download, script, target>>,
           running' = running \/ running' = target,
           meta' \in [Checkers -> Releases \cup {Bogus}],
           \A d \in Checkers \ {c} : meta'[d] = meta[d],
           phase = "unpack" => meta'[c] \in Releases /\ meta'[c] > helper[c],
           candidate[c] # Absent => phase \in Unpacked,
           phase \in {"recompare", "away", "in"} => candidate[c] # Absent,
           phase \in Replaced => backup[c] # Absent,
           alone[c] /\ phase \in Untouched => target = helper[c],
           alone[c] /\ phase \in Replaced => backup[c] = helper[c],
           alone[c] /\ phase = "in" => target = Absent,
           alone[c] /\ phase \in Replaced \ {"in"} => target \in Releases /\ target > helper[c],
           alone[c] /\ phase = "restored" => target = helper[c],
           alone[c] /\ phase = "unreported" => helper[c] \in {target, backup[c]}
    PROVE  UpdateInv'
<1>1. TypeOK'
  BY DEF Moves, UpdateInv, TypeOK, download, script
<1>2. OthersStay(c)
  BY DEF Moves, UpdateInv, TypeOK, OthersStay, script
<1>3. Own(c)'
  <2>1. Own(c)
    BY OwnDef
  <2>2. \A d \in Checkers : at'[d] \in Scripting => at[d] \in Scripting
    BY DEF Moves, UpdateInv, TypeOK
  <2>3. at'[c] = phase
    BY DEF Moves, UpdateInv, TypeOK
  <2> QED BY <2>1, <2>2, <2>3 DEF Own, CheckerInv, script
<1> QED BY <1>1, <1>2, <1>3, StepKeeps DEF UpdateInv, InstalledVerified, script

\* The service stops, and with it the checks of others.
LEMMA StopKeeps ==
    ASSUME UpdateInv, NEW c \in Checkers,
           \/ at[c] = "stop" /\ ServiceStops(c, "compare")
           \/ at[c] = "rollback" /\ ServiceStops(c, "replace"),
           UNCHANGED <<download, script, target>>
    PROVE  UpdateInv'
<1>1. TypeOK'
  BY DEF ServiceStops, UpdateInv, TypeOK, Checking, Scripting, Installing, download, script
<1>2. OthersStay(c)
  BY DEF ServiceStops, UpdateInv, TypeOK, OthersStay, script
<1>3. Own(c)'
  <2>1. Own(c)
    BY OwnDef
  <2>2. \A d \in Checkers : at'[d] \in Scripting => at[d] \in Scripting
    BY DEF ServiceStops, Checking, Scripting, Installing
  <2>3. /\ \/ at[c] = "stop" /\ at'[c] = "compare"
           \/ at[c] = "rollback" /\ at'[c] = "replace"
        /\ meta'[c] = meta[c]
    BY DEF ServiceStops, Checking
  <2> QED BY <2>1, <2>2, <2>3
      DEF Own, CheckerInv, Unpacked, Untouched, Replaced, Scripting, Installing, script
<1>4. at[c] \in Scripting
  BY DEF Scripting
<1> QED BY <1>1, <1>2, <1>3, <1>4, UpdateAssumption, StepKeeps
    DEF UpdateInv, InstalledVerified, ServiceStops, script

\* The steps of update-service.py.
LEMMA ScriptKeeps ==
    ASSUME UpdateInv, NEW c \in Checkers, Script(c)
    PROVE  UpdateInv'
<1>0. Own(c)
  BY OwnDef
<1>1. CASE CopyHelper(c)
  <2>1. /\ at[c] = "begin" /\ target \in Versions
        /\ helper' = [helper EXCEPT ![c] = target] /\ at' = [at EXCEPT ![c] = "dryMetadata"]
        /\ UNCHANGED <<download, meta, candidate, backup, alone, kept, target, running>>
    BY <1>1 DEF CopyHelper, TargetThere, Moves, UpdateInv, TypeOK, InstalledVerified
  <2>2. TypeOK'
    BY <2>1 DEF UpdateInv, TypeOK, Scripting, download
  <2>3. OthersStay(c) /\ at'[c] = "dryMetadata" /\ helper'[c] = target
    BY <2>1 DEF UpdateInv, TypeOK, OthersStay
  <2>4. \A d \in Checkers : at'[d] \in Scripting => at[d] \in Scripting
    BY <2>1 DEF UpdateInv, TypeOK, Scripting
  <2>5. Own(c)'
    BY <1>0, <2>1, <2>3, <2>4 DEF Own, CheckerInv, Scripting, Unpacked, Untouched, Replaced
  <2> QED BY <2>1, <2>2, <2>3, <2>4, <2>5, StepKeeps DEF UpdateInv, InstalledVerified
<1>2. CASE ReadMetadata(c, "dryMetadata", "dryCopy")
  BY <1>0, <1>2, GoesOnKeeps
     DEF ReadMetadata, UpdateInv, TypeOK, Own, CheckerInv, Scripting, Unpacked, Untouched, Replaced
<1>3. CASE DryRun(c)
  BY <1>0, <1>3, GoesOnKeeps
     DEF DryRun, UpdateInv, TypeOK, Own, CheckerInv, Scripting, Unpacked, Untouched, Replaced
<1>4. CASE ScriptFails(c)
  BY <1>4, EndKeeps DEF ScriptFails
<1>5. CASE StopService(c)
  BY <1>5, StopKeeps DEF StopService
<1>6. CASE StartService(c)
  BY <1>6, EndKeeps DEF StartService, Starts
<1>7. CASE StartFails(c)
  <2>1. running' = running \/ running' = target
    BY <1>7 DEF StartFails, Starts
  <2> QED BY <1>0, <1>7, <2>1, GoesOnKeeps
      DEF StartFails, UpdateInv, TypeOK, Own, CheckerInv, Scripting, Unpacked, Untouched, Replaced
<1>8. CASE Rollback(c)
  <2>1. CASE ServiceStops(c, "replace")
    BY <1>8, <2>1, StopKeeps DEF Rollback
  <2>2. CASE Moves(c, "replace") /\ UNCHANGED <<meta, running>>
    BY <1>0, <1>8, <2>2, GoesOnKeeps
       DEF Rollback, UpdateInv, TypeOK, Own, CheckerInv, Scripting, Unpacked, Untouched, Replaced
  <2> QED BY <1>8, <2>1, <2>2 DEF Rollback
<1>9. CASE Replace(c)
  <2>1. /\ at[c] = "replace" /\ at' = [at EXCEPT ![c] = "restored"]
        /\ target' = backup[c] /\ backup' = [backup EXCEPT ![c] = Absent]
        /\ UNCHANGED <<download, meta, helper, candidate, alone, kept, running>>
    BY <1>9 DEF Replace, PutsBack, Moves
  <2>2. TypeOK'
    BY <2>1 DEF UpdateInv, TypeOK, Scripting, download
  <2>3. OthersStay(c) /\ at'[c] = "restored" /\ backup'[c] = Absent
    BY <2>1 DEF UpdateInv, TypeOK, OthersStay
  <2>4. \A d \in Checkers : at'[d] \in Scripting => at[d] \in Scripting
    BY <2>1 DEF UpdateInv, TypeOK, Scripting
  <2>5. Own(c)'
    BY <1>0, <2>1, <2>3, <2>4, UpdateAssumption
       DEF Own, CheckerInv, Scripting, Unpacked, Untouched, Replaced
  <2>6. target' # Bogus /\ running' # Bogus
    BY <1>0, <2>1 DEF Own, UpdateInv, InstalledVerified
  <2> QED BY <2>1, <2>2, <2>3, <2>4, <2>5, <2>6, StepKeeps DEF Scripting
<1>10. CASE Restart(c)
  BY <1>10, EndKeeps DEF Restart, Starts
<1>11. CASE Killed(c)
  BY <1>11, EndKeeps DEF Killed
<1> QED BY <1>1, <1>2, <1>3, <1>4, <1>5, <1>6, <1>7, <1>8, <1>9, <1>10, <1>11 DEF Script

\* The steps of install_from: what is installed changes only while the backup
\* holds what the helper is a copy of.
LEMMA InstallKeeps ==
    ASSUME UpdateInv, NEW c \in Checkers, Install(c)
    PROVE  UpdateInv'
<1>0. Own(c)
  BY OwnDef
<1>1. CASE Compare(c, "compare", "restage")
  BY <1>0, <1>1, GoesOnKeeps
     DEF Compare, UpdateInv, TypeOK, Own, CheckerInv, Scripting, Installing, Unpacked, Untouched,
         Replaced
<1>2. CASE ReadMetadata(c, "restage", "recopy")
  BY <1>0, <1>2, GoesOnKeeps
     DEF ReadMetadata, UpdateInv, TypeOK, Own, CheckerInv, Scripting, Installing, Unpacked,
         Untouched, Replaced
<1>3. CASE Restage(c)
  BY <1>0, <1>3, GoesOnKeeps
     DEF Restage, Verifies, UpdateInv, TypeOK, Own, CheckerInv, Scripting, Installing, Unpacked,
         Untouched, Replaced
<1>4. CASE Unpack(c)
  <2>1. /\ at[c] = "unpack" /\ at' = [at EXCEPT ![c] = "recompare"]
        /\ candidate' = [candidate EXCEPT ![c] = meta[c]]
        /\ UNCHANGED <<download, meta, helper, backup, alone, kept, target, running>>
    BY <1>4 DEF Unpack, FromStaged, Moves
  <2>2. TypeOK'
    BY <2>1 DEF UpdateInv, TypeOK, Scripting, Installing, download
  <2>3. OthersStay(c) /\ at'[c] = "recompare" /\ candidate'[c] = meta[c]
    BY <2>1 DEF UpdateInv, TypeOK, OthersStay
  <2>4. \A d \in Checkers : at'[d] \in Scripting => at[d] \in Scripting
    BY <2>1 DEF UpdateInv, TypeOK, Scripting, Installing
  <2>5. meta[c] \in Releases /\ meta[c] > helper[c] /\ meta[c] # Absent
    BY <1>0, <2>1, UpdateAssumption DEF Own, CheckerInv, Releases
  <2>6. Own(c)'
    BY <1>0, <2>1, <2>3, <2>4, <2>5
       DEF Own, CheckerInv, Scripting, Installing, Unpacked, Untouched, Replaced
  <2> QED BY <2>1, <2>2, <2>3, <2>4, <2>6, StepKeeps DEF UpdateInv, InstalledVerified
<1>5. CASE Compare(c, "recompare", "away")
  BY <1>0, <1>5, GoesOnKeeps
     DEF Compare, UpdateInv, TypeOK, Own, CheckerInv, Scripting, Installing, Unpacked, Untouched,
         Replaced
<1>6. CASE RenameAway(c)
  <2>1. /\ at[c] = "away" /\ at' = [at EXCEPT ![c] = "in"]
        /\ backup' = [backup EXCEPT ![c] = target] /\ target' = Absent /\ target # Absent
        /\ UNCHANGED <<download, meta, helper, candidate, alone, kept, running>>
    BY <1>6 DEF RenameAway, Moves
  <2>2. TypeOK'
    BY <2>1 DEF UpdateInv, TypeOK, Scripting, Installing, download
  <2>3. OthersStay(c) /\ at'[c] = "in" /\ backup'[c] = target
    BY <2>1 DEF UpdateInv, TypeOK, OthersStay
  <2>4. \A d \in Checkers : at'[d] \in Scripting => at[d] \in Scripting
    BY <2>1 DEF UpdateInv, TypeOK, Scripting, Installing
  <2>5. Own(c)'
    BY <1>0, <2>1, <2>3, <2>4
       DEF UpdateInv, InstalledVerified, Own, CheckerInv, Scripting, Installing, Unpacked,
           Untouched, Replaced
  <2> QED BY <2>1, <2>2, <2>3, <2>4, <2>5, UpdateAssumption, StepKeeps
      DEF UpdateInv, InstalledVerified, Scripting, Installing
<1>7. CASE RenameIn(c)
  <2>1. /\ at[c] = "in" /\ at' = [at EXCEPT ![c] = "sync"]
        /\ target' = candidate[c] /\ candidate' = [candidate EXCEPT ![c] = Absent]
        /\ UNCHANGED <<download, meta, helper, backup, alone, kept, running>>
    BY <1>7 DEF RenameIn, Moves
  <2>2. candidate[c] \in Releases
    BY <1>0, <2>1 DEF Own, CheckerInv
  <2>3. TypeOK'
    BY <2>1, <2>2 DEF UpdateInv, TypeOK, Releases, Versions, Scripting, Installing, download
  <2>4. OthersStay(c) /\ at'[c] = "sync" /\ candidate'[c] = Absent
    BY <2>1 DEF UpdateInv, TypeOK, OthersStay
  <2>5. \A d \in Checkers : at'[d] \in Scripting => at[d] \in Scripting
    BY <2>1 DEF UpdateInv, TypeOK, Scripting, Installing
  <2>6. Own(c)'
    BY <1>0, <2>1, <2>4, <2>5
       DEF Own, CheckerInv, Scripting, Installing, Unpacked, Untouched, Replaced
  <2>7. target' # Bogus /\ running' # Bogus
    BY <2>1, <2>2, UpdateAssumption DEF UpdateInv, InstalledVerified, Releases
  <2> QED BY <2>1, <2>3, <2>4, <2>5, <2>6, <2>7, StepKeeps DEF Scripting, Installing
<1>8. CASE RenameInFails(c)
  <2>1. /\ at[c] = "in" /\ at' = [at EXCEPT ![c] = "unreported"]
        /\ target' = backup[c] /\ backup' = [backup EXCEPT ![c] = Absent]
        /\ candidate' = [candidate EXCEPT ![c] = Absent]
        /\ UNCHANGED <<download, meta, helper, alone, kept, running>>
    BY <1>8 DEF RenameInFails, TakesBackup, Moves
  <2>2. TypeOK'
    BY <2>1 DEF UpdateInv, TypeOK, Scripting, Installing, download
  <2>3. /\ OthersStay(c) /\ at'[c] = "unreported"
        /\ candidate'[c] = Absent /\ backup'[c] = Absent
    BY <2>1 DEF UpdateInv, TypeOK, OthersStay
  <2>4. \A d \in Checkers : at'[d] \in Scripting => at[d] \in Scripting
    BY <2>1 DEF UpdateInv, TypeOK, Scripting, Installing
  <2>5. Own(c)'
    BY <1>0, <2>1, <2>3, <2>4, UpdateAssumption
       DEF Own, CheckerInv, Scripting, Installing, Unpacked, Untouched, Replaced
  <2>6. target' # Bogus /\ running' # Bogus
    BY <1>0, <2>1 DEF Own, UpdateInv, InstalledVerified
  <2> QED BY <2>1, <2>2, <2>3, <2>4, <2>5, <2>6, StepKeeps DEF Scripting, Installing
<1>9. CASE Sync(c)
  BY <1>0, <1>9, GoesOnKeeps
     DEF Sync, UpdateInv, TypeOK, Own, CheckerInv, Scripting, Installing, Unpacked, Untouched,
         Replaced
<1>10. CASE InstallFails(c)
  <2>1. /\ at[c] \in Installing /\ at' = [at EXCEPT ![c] = "unreported"]
        /\ \/ candidate' = [candidate EXCEPT ![c] = Absent]
           \/ candidate' = candidate
        /\ UNCHANGED <<download, meta, helper, backup, alone, kept, target, running>>
    BY <1>10 DEF InstallFails, CleansUp, Moves
  <2>2. TypeOK'
    BY <2>1 DEF UpdateInv, TypeOK, Scripting, Installing, download
  <2>3. /\ OthersStay(c) /\ at'[c] = "unreported"
        /\ candidate'[c] = Absent \/ candidate'[c] = candidate[c]
    BY <2>1 DEF UpdateInv, TypeOK, OthersStay
  <2>4. \A d \in Checkers : at'[d] \in Scripting => at[d] \in Scripting
    BY <2>1 DEF UpdateInv, TypeOK, Scripting, Installing
  <2>5. alone[c] => helper[c] \in {target, backup[c]}
    BY <1>0, <2>1 DEF Own, CheckerInv, Scripting, Installing, Untouched, Replaced
  <2>6. Own(c)'
    BY <1>0, <2>1, <2>3, <2>4, <2>5
       DEF Own, CheckerInv, Scripting, Installing, Unpacked, Untouched, Replaced
  <2> QED BY <2>1, <2>2, <2>3, <2>4, <2>6, StepKeeps
      DEF UpdateInv, InstalledVerified, Scripting, Installing
<1> QED BY <1>1, <1>2, <1>3, <1>4, <1>5, <1>6, <1>7, <1>8, <1>9, <1>10 DEF Install

\* Every step keeps the invariant.
LEMMA NextKeeps == UpdateInv /\ [Next]_vars => UpdateInv'
<1> SUFFICES ASSUME UpdateInv, [Next]_vars PROVE UpdateInv'
  OBVIOUS
<1>1. CASE \E c \in Checkers : Staging(c) \/ Script(c) \/ Install(c)
  BY <1>1, StagingKeeps, ScriptKeeps, InstallKeeps
<1>2. CASE ServiceStarted
  <2>1. UNCHANGED <<at, download, meta, script, target>> /\ running' = target
    BY <1>2 DEF ServiceStarted
  <2>2. TypeOK'
    BY <2>1 DEF UpdateInv, TypeOK, download, script
  <2> QED BY <2>1, <2>2
      DEF UpdateInv, InstalledVerified, FailedUpdateUndone, CheckerInv, script
<1>3. CASE UNCHANGED vars
  BY <1>3 DEF vars, download, script, UpdateInv, TypeOK, InstalledVerified, FailedUpdateUndone,
     CheckerInv
<1> QED BY <1>1, <1>2, <1>3 DEF Next

\* The inductive invariant of updates.
THEOREM UpdateInvariant == Spec => []UpdateInv
BY InitUpdate, NextKeeps, PTL DEF Spec

\* What is installed, kept or running is a version, whatever is downloaded.
THEOREM TypeCorrect == Spec => []TypeOK
BY UpdateInvariant, PTL DEF UpdateInv

\* Nothing is installed, kept or run that was not signed, nor unpacked that is
\* not newer than the agent that verified it, however many checks and scripts
\* run side by side.
THEOREM OnlyVerifiedInstalled == Spec => []InstalledVerified
BY UpdateInvariant, PTL DEF UpdateInv

\* A script that runs alone and fails leaves the executable it found, installed
\* or, where the installer did not report, under its backup's name.
THEOREM FailedUpdateIsUndone == Spec => []FailedUpdateUndone
BY UpdateInvariant, PTL DEF UpdateInv
-----------------------------------------------------------------------------
(* The executable that remains (Executable).                               *)

\* Saved, by its members.
LEMMA SavedIs ==
    \A v : v \in Saved <=> v \in kept \/ \E c \in Checkers : v = backup[c] /\ v # Absent
BY DEF Saved

\* A step that renames nothing.
LEMMA FileStays ==
    ASSUME UNCHANGED <<target, backup, kept>>
    PROVE  UNCHANGED File!file
BY DEF File!file, Saved

\* The end of a script: its backup is one that nothing removes.
LEMMA EndStays ==
    ASSUME UpdateInv, NEW c \in Checkers, Ends(c), UNCHANGED target
    PROVE  UNCHANGED File!file
<1>1. ASSUME NEW v
      PROVE  v \in Saved' <=> v \in Saved
  <2>1. /\ backup' = [backup EXCEPT ![c] = Absent]
        /\ kept' = kept \cup ({backup[c]} \ {Absent})
    BY DEF Ends
  <2>2. v \in Saved' <=> v \in kept' \/ \E d \in Checkers : v = backup'[d] /\ v # Absent
    BY DEF Saved
  <2> QED BY <2>1, <2>2, SavedIs DEF UpdateInv, TypeOK
<1>2. Saved' = Saved
  BY <1>1
<1> QED BY <1>2 DEF File!file

\* The backup is renamed to the target, by the installer or by the script.
LEMMA BackIsPutBack ==
    ASSUME UpdateInv, NEW c \in Checkers, at[c] \in Replaced,
           target' = backup[c], backup' = [backup EXCEPT ![c] = Absent], UNCHANGED kept
    PROVE  File!Next
<1>1. backup[c] # Absent
  BY DEF UpdateInv, CheckerInv
<1>2. backup[c] \in Saved
  BY <1>1, SavedIs
<1>3. ASSUME NEW v
      PROVE  /\ v \in Saved' => v \in Saved
             /\ v \in Saved /\ v # backup[c] => v \in Saved'
  <2>1. v \in Saved' <=> v \in kept' \/ \E d \in Checkers : v = backup'[d] /\ v # Absent
    BY DEF Saved
  <2> QED BY <2>1, SavedIs DEF UpdateInv, TypeOK
<1>4. Saved' \in {Saved, Saved \ {backup[c]}}
  <2>1. CASE backup[c] \in Saved'
    <3>1. Saved' = Saved
      BY <1>3, <1>2, <2>1
    <3> QED BY <3>1
  <2>2. CASE backup[c] \notin Saved'
    <3>1. Saved' = Saved \ {backup[c]}
      BY <1>3, <2>2
    <3> QED BY <3>1
  <2> QED BY <2>1, <2>2
<1>5. Contended \/ target = Absent \/ target > backup[c]
  <2>1. at[c] \in Scripting
    BY DEF Replaced, Scripting, Installing
  <2>2. CASE ~alone[c]
    BY <2>1, <2>2 DEF Contended
  <2>3. CASE alone[c]
    BY <2>1, <2>3 DEF UpdateInv, CheckerInv
  <2> QED BY <2>2, <2>3
<1>6. File!PutBack
  BY <1>2, <1>4, <1>5 DEF File!PutBack
<1> QED BY <1>6 DEF File!Next

\* rename(target, backup): the installer has none of its own yet.
LEMMA AwayIsSetAside ==
    ASSUME UpdateInv, NEW c \in Checkers, RenameAway(c), backup[c] = Absent
    PROVE  File!Next
<1>1. /\ target \in Versions /\ target # Absent /\ target' = Absent
      /\ backup' = [backup EXCEPT ![c] = target] /\ UNCHANGED kept
  BY DEF RenameAway, UpdateInv, TypeOK, InstalledVerified
<1>2. ASSUME NEW v
      PROVE  v \in Saved' <=> v \in Saved \cup {target}
  <2>1. v \in Saved' <=> v \in kept' \/ \E d \in Checkers : v = backup'[d] /\ v # Absent
    BY DEF Saved
  <2> QED BY <1>1, <2>1, SavedIs DEF UpdateInv, TypeOK
<1>3. Saved' = Saved \cup {target}
  BY <1>2
<1>4. File!SetAside
  BY <1>1, <1>3 DEF File!SetAside
<1> QED BY <1>4 DEF File!Next

\* rename(candidate, target): a script that is alone has set aside what was
\* there, which is older.
LEMMA InIsInstall ==
    ASSUME UpdateInv, NEW c \in Checkers, RenameIn(c)
    PROVE  File!Next
<1>1. at[c] = "in" /\ target' = candidate[c] /\ UNCHANGED <<backup, kept>>
  BY DEF RenameIn
<1>2. candidate[c] \in Releases /\ candidate[c] > helper[c]
  BY <1>1 DEF UpdateInv, CheckerInv, InstalledVerified
<1>3. backup[c] \in Saved
  <2>1. backup[c] # Absent
    BY <1>1 DEF UpdateInv, CheckerInv, Replaced
  <2> QED BY <2>1, SavedIs
<1>4. UNCHANGED Saved
  BY <1>1 DEF Saved
<1>5. Contended \/ (target = Absent /\ candidate[c] > backup[c])
  <2>1. at[c] \in Scripting
    BY <1>1 DEF Scripting, Installing
  <2>2. CASE ~alone[c]
    BY <2>1, <2>2 DEF Contended
  <2>3. CASE alone[c]
    BY <1>1, <1>2, <2>1, <2>3 DEF UpdateInv, CheckerInv, Replaced
  <2> QED BY <2>2, <2>3
<1>6. File!Install
  BY <1>1, <1>2, <1>3, <1>4, <1>5 DEF File!Install
<1> QED BY <1>6 DEF File!Next

\* Until it renames the executable away, a script has no backup.
NoBackupYet == \A c \in Checkers : at[c] \notin Replaced \cup {"unreported"} => backup[c] = Absent

LEMMA NoBackupHolds == Spec => []NoBackupYet
<1>1. Init => NoBackupYet
  BY DEF Init, NoBackupYet
<1>2. TypeOK /\ NoBackupYet /\ [Next]_vars => NoBackupYet'
  <2> SUFFICES ASSUME TypeOK, NoBackupYet, [Next]_vars PROVE NoBackupYet'
    OBVIOUS
  <2>1. ASSUME NEW c \in Checkers, Staging(c) PROVE NoBackupYet'
    BY <2>1 DEF Staging, Check, CheckFails, DownloadArtifact, DownloadManifest, DownloadSignature,
       ReadMetadata, StageUpdate, Moves, Ends, NoBackupYet, TypeOK, Replaced, Checking, script
  <2>2. ASSUME NEW c \in Checkers, Script(c) PROVE NoBackupYet'
    BY <2>2 DEF Script, CopyHelper, ReadMetadata, DryRun, ScriptFails, StopService, ServiceStops,
       StartService, StartFails, Rollback, Replace, PutsBack, Restart, Killed, Moves, Ends,
       NoBackupYet, TypeOK, Replaced, Checking, script
  <2>3. ASSUME NEW c \in Checkers, Install(c) PROVE NoBackupYet'
    BY <2>3 DEF Install, Compare, ReadMetadata, Restage, Unpack, RenameAway, RenameIn,
       RenameInFails, TakesBackup, Sync, InstallFails, CleansUp, Moves, NoBackupYet, TypeOK,
       Replaced, Installing, script
  <2>4. CASE ServiceStarted \/ UNCHANGED vars
    BY <2>4 DEF ServiceStarted, vars, script, NoBackupYet
  <2> QED BY <2>1, <2>2, <2>3, <2>4 DEF Next
<1> QED BY <1>1, <1>2, TypeCorrect, PTL DEF Spec

\* Any number of checks and scripts, at any step of each other and killed at
\* any step, implement one executable of which something is set aside before
\* its name is taken; a script that is alone takes the name of nothing, and puts
\* what it found back over nothing else than the release it installed.
THEOREM ImplementsExecutable == Spec => ExecutableSpec
<1>1. Init => File!Init
  <2> SUFFICES ASSUME Init PROVE File!Init
    OBVIOUS
  <2>1. \A v : v \notin Saved
    BY SavedIs DEF Init
  <2> QED BY <2>1, UpdateAssumption DEF Init, File!Init, Versions
<1>2. UpdateInv /\ NoBackupYet /\ [Next]_vars => [File!Next]_(File!file)
  <2> SUFFICES ASSUME UpdateInv, NoBackupYet, [Next]_vars
               PROVE  File!Next \/ UNCHANGED File!file
    OBVIOUS
  <2>1. ASSUME NEW c \in Checkers, Staging(c)
        PROVE  UNCHANGED File!file
    <3>1. (Ends(c) /\ UNCHANGED target) \/ UNCHANGED <<target, backup, kept>>
      BY <2>1 DEF Staging, Check, CheckFails, DownloadArtifact, DownloadManifest,
         DownloadSignature, ReadMetadata, StageUpdate, script
    <3> QED BY <3>1, EndStays, FileStays
  <2>2. ASSUME NEW c \in Checkers, Script(c)
        PROVE  File!Next \/ UNCHANGED File!file
    <3>1. CASE Replace(c)
      BY <3>1, BackIsPutBack DEF Replace, PutsBack, Replaced
    <3>2. CASE ~Replace(c)
      <4>1. (Ends(c) /\ UNCHANGED target) \/ UNCHANGED <<target, backup, kept>>
        BY <2>2, <3>2 DEF Script, CopyHelper, ReadMetadata, DryRun, ScriptFails, StopService,
           StartService, StartFails, Rollback, Restart, Killed, script
      <4> QED BY <4>1, EndStays, FileStays
    <3> QED BY <3>1, <3>2
  <2>3. ASSUME NEW c \in Checkers, Install(c)
        PROVE  File!Next \/ UNCHANGED File!file
    <3>1. CASE RenameAway(c)
      BY <3>1, AwayIsSetAside DEF RenameAway, NoBackupYet, Replaced
    <3>2. CASE RenameIn(c)
      BY <3>2, InIsInstall
    <3>3. CASE RenameInFails(c)
      BY <3>3, BackIsPutBack DEF RenameInFails, TakesBackup, Replaced
    <3>4. CASE ~(RenameAway(c) \/ RenameIn(c) \/ RenameInFails(c))
      <4>1. UNCHANGED <<target, backup, kept>>
        BY <2>3, <3>4 DEF Install, Compare, ReadMetadata, Restage, Unpack, Sync, InstallFails,
           CleansUp, script
      <4> QED BY <4>1, FileStays
    <3> QED BY <3>1, <3>2, <3>3, <3>4
  <2>4. CASE ServiceStarted \/ UNCHANGED vars
    BY <2>4, FileStays DEF ServiceStarted, vars, script
  <2> QED BY <2>1, <2>2, <2>3, <2>4 DEF Next
<1> QED BY <1>1, <1>2, UpdateInvariant, NoBackupHolds, PTL DEF Spec, ExecutableSpec, File!Spec

\* So an executable always remains, under its name or beside it, whatever is
\* killed: at worst the operator has to rename it.
THEOREM NeverLost == Spec => []File!Survives
<1>1. File!Init => File!Survives
  BY DEF File!Init, File!Survives
<1>2. UpdateInv /\ File!Survives /\ [File!Next]_(File!file) => File!Survives'
  <2> SUFFICES ASSUME UpdateInv, File!Survives, [File!Next]_(File!file) PROVE File!Survives'
    OBVIOUS
  <2>1. Saved \subseteq Versions
    BY SavedIs DEF UpdateInv, TypeOK, InstalledVerified
  <2>2. Releases \subseteq Versions
    BY DEF Releases, Versions
  <2> QED BY <2>1, <2>2
      DEF File!Survives, File!Next, File!SetAside, File!Install, File!PutBack, File!file
<1> QED BY <1>1, <1>2, ImplementsExecutable, UpdateInvariant, PTL
    DEF ExecutableSpec, File!Spec
=============================================================================

------------------------------- MODULE Update -------------------------------
(***************************************************************************)
(* Updates: the checks that download and stage a release, and the script   *)
(* and installer that replace the agent's executable and take it back      *)
(* (src/updater.rs and scripts/update-service.py).  poll_and_stage and     *)
(* agent.updateNow check side by side, with one set of downloaded files.   *)
(*                                                                         *)
(* An executable or artifact is its version; Bogus stands for everything   *)
(* the trusted key did not sign for this device, incomplete files          *)
(* included.  Manifest and signature are one file here: a pair that does   *)
(* not belong together is Bogus.  The apply helper is external: it runs    *)
(* the script with the paths it is given, outside the agent's process      *)
(* group, so that stopping the service does not stop it.                   *)
(***************************************************************************)
EXTENDS Naturals

CONSTANTS
    Checkers,     \* tasks that check for updates: the poll and updateNow
    Newest,       \* the newest release; the device starts with version 0
    Bogus,
    Absent        \* no such file, no such process

ASSUME UpdateAssumption ==
    /\ Newest \in Nat
    /\ Bogus \notin Nat /\ Absent \notin Nat /\ Bogus # Absent

Releases == 1..Newest
Versions == 0..Newest

VARIABLES
    applies,    \* --update-apply-helper is given
    at,         \* how far each checker, or the script it started, is
    artifact,   \* download/artifact.tar.gz
    manifest,   \* download/manifest.json with manifest.sig
    meta,       \* the manifest a stage() has read
    helper,     \* the script's copy of the installed executable
    candidate,  \* what the installer has unpacked
    backup,     \* the previous executable, as the installer renamed it
    target,     \* the installed executable
    running,    \* the version the service runs
    alone,      \* history: no other script ran while this one did
    kept        \* the backups of scripts that have ended; nothing removes them

download == <<applies, artifact, manifest>>  \* what the checks are given
script   == <<helper, candidate, backup, alone, kept>>
vars == <<at, download, meta, script, target, running>>

Checking == {"idle", "artifact", "manifest", "signature", "metadata", "copy"}

\* The installer's phases, in order.
Installing == {"compare", "restage", "recopy", "unpack", "recompare", "away", "in", "sync"}

Scripting == Installing \cup
    {"begin", "dryMetadata", "dryCopy", "stop", "start", "rollback", "replace", "restored",
     "unreported"}

Init ==
    /\ applies \in BOOLEAN
    /\ at = [c \in Checkers |-> "idle"]
    /\ artifact = Bogus /\ manifest = Bogus
    /\ meta = [c \in Checkers |-> Bogus]
    /\ helper = [c \in Checkers |-> 0]
    /\ candidate = [c \in Checkers |-> Absent]
    /\ backup = [c \in Checkers |-> Absent]
    /\ target = 0 /\ running = 0
    /\ alone = [c \in Checkers |-> TRUE]
    /\ kept = {}

Moves(c, phase) == at' = [at EXCEPT ![c] = phase]

\* A check or a script ends, and what it knew with it; its backup stays.
Ends(c) ==
    /\ Moves(c, "idle")
    /\ meta' = [meta EXCEPT ![c] = Bogus]
    /\ helper' = [helper EXCEPT ![c] = 0]
    /\ candidate' = [candidate EXCEPT ![c] = Absent]
    /\ backup' = [backup EXCEPT ![c] = Absent]
    /\ kept' = kept \cup ({backup[c]} \ {Absent})
    /\ alone' = [alone EXCEPT ![c] = TRUE]
-----------------------------------------------------------------------------
(* check_and_stage.                                                        *)

\* The server says that there is an update, for a service that runs.
Check(c) ==
    /\ at[c] = "idle" /\ running # Absent
    /\ Moves(c, "artifact")
    /\ UNCHANGED <<download, meta, script, target, running>>

\* Each file is written as the server sends it; the server is not trusted.
DownloadArtifact(c) ==
    /\ at[c] = "artifact"
    /\ artifact' \in Releases \cup {Bogus}
    /\ Moves(c, "manifest")
    /\ UNCHANGED <<applies, manifest, meta, script, target, running>>

\* A new manifest beside the previous signature.
DownloadManifest(c) ==
    /\ at[c] = "manifest"
    /\ manifest' = Bogus
    /\ Moves(c, "signature")
    /\ UNCHANGED <<applies, artifact, meta, script, target, running>>

DownloadSignature(c) ==
    /\ at[c] = "signature"
    /\ manifest' \in Releases \cup {Bogus}
    /\ Moves(c, "metadata")
    /\ UNCHANGED <<applies, artifact, meta, script, target, running>>

CheckFails(c) ==
    /\ at[c] \in Checking \ {"idle"}
    /\ Ends(c)
    /\ UNCHANGED <<download, target, running>>

\* stage() reads the metadata first and copies the artifact later; other
\* checks write both files in between.
ReadMetadata(c, from, to) ==
    /\ at[c] = from
    /\ meta' = [meta EXCEPT ![c] = manifest]
    /\ Moves(c, to)
    /\ UNCHANGED <<download, script, target, running>>

\* verify(), with the digest of the copy, by a process of this version.
Verifies(c, version) ==
    /\ meta[c] \in Releases
    /\ meta[c] = artifact
    /\ meta[c] > version

StageUpdate(c) ==
    /\ at[c] = "copy" /\ Verifies(c, running)
    /\ IF applies
       THEN /\ Moves(c, "begin")
            /\ alone' = [d \in Checkers |->
                           IF d = c THEN \A e \in Checkers : at[e] \notin Scripting
                                    ELSE alone[d] /\ at[d] \notin Scripting]
            /\ UNCHANGED <<meta, helper, candidate, backup, kept>>
       ELSE Ends(c)
    /\ UNCHANGED <<download, target, running>>
-----------------------------------------------------------------------------
(* update-service.py, up to the installer.                                 *)

\* Mutant: nothing is looked at before it is copied.
CopiesAnything == TRUE

\* shutil.copy2 fails without a file.
TargetThere == target # Absent

CopyHelper(c) ==
    /\ at[c] = "begin" /\ TargetThere
    /\ helper' = [helper EXCEPT ![c] = target]
    /\ Moves(c, "dryMetadata")
    /\ UNCHANGED <<download, meta, candidate, backup, alone, kept, target, running>>

\* The helper's stage-update, before the service is stopped.
DryRun(c) ==
    /\ at[c] = "dryCopy" /\ Verifies(c, helper[c])
    /\ Moves(c, "stop")
    /\ UNCHANGED <<download, meta, script, target, running>>

\* An error before the try block, or in its handler: a stop that takes too
\* long, or a failing os.replace.
ScriptFails(c) ==
    /\ at[c] \in {"begin", "dryMetadata", "dryCopy", "stop", "rollback", "replace"}
    /\ Ends(c)
    /\ UNCHANGED <<download, target, running>>

\* Checks end with the agent; scripts do not.
ServiceStops(c, phase) ==
    /\ running' = Absent
    /\ at' = [d \in Checkers |->
                IF d = c THEN phase
                ELSE IF at[d] \in Checking THEN "idle" ELSE at[d]]
    /\ meta' = [d \in Checkers |-> IF at[d] \in Checking THEN Bogus ELSE meta[d]]

StopService(c) ==
    /\ at[c] = "stop"
    /\ ServiceStops(c, "compare")
    /\ UNCHANGED <<download, script, target>>
-----------------------------------------------------------------------------
(* install_from, run by the helper.                                        *)

\* "Installer must be a copy of the currently installed agent"
Compare(c, from, to) ==
    /\ at[c] = from /\ target = helper[c]
    /\ Moves(c, to)
    /\ UNCHANGED <<download, meta, script, target, running>>

Restage(c) ==
    /\ at[c] = "recopy" /\ Verifies(c, helper[c])
    /\ Moves(c, "unpack")
    /\ UNCHANGED <<download, meta, script, target, running>>

\* Mutant: unpacks the downloaded artifact.
FromDownload(c) == artifact

\* What stage() has verified is its own copy.
FromStaged(c) == meta[c]

Unpack(c) ==
    /\ at[c] = "unpack"
    /\ candidate' = [candidate EXCEPT ![c] = FromStaged(c)]
    /\ Moves(c, "recompare")
    /\ UNCHANGED <<download, meta, helper, backup, alone, kept, target, running>>

\* Mutant: the old executable is removed to make room.
RemovesOld(c) ==
    /\ at[c] = "away" /\ target # Absent
    /\ target' = Absent
    /\ Moves(c, "in")
    /\ UNCHANGED <<download, meta, script, running>>

\* rename(target, backup), which fails without a target.
RenameAway(c) ==
    /\ at[c] = "away" /\ target # Absent
    /\ backup' = [backup EXCEPT ![c] = target]
    /\ target' = Absent
    /\ Moves(c, "in")
    /\ UNCHANGED <<download, meta, helper, candidate, alone, kept, running>>

RenameIn(c) ==
    /\ at[c] = "in"
    /\ target' = candidate[c]
    /\ candidate' = [candidate EXCEPT ![c] = Absent]
    /\ Moves(c, "sync")
    /\ UNCHANGED <<download, meta, helper, backup, alone, kept, running>>

\* The backup is renamed back, and the candidate removed.
TakesBackup(c) ==
    /\ target' = backup[c]
    /\ backup' = [backup EXCEPT ![c] = Absent]
    /\ candidate' = [candidate EXCEPT ![c] = Absent]

RenameInFails(c) ==
    /\ at[c] = "in"
    /\ TakesBackup(c)
    /\ Moves(c, "unreported")
    /\ UNCHANGED <<download, meta, helper, alone, kept, running>>

Sync(c) ==
    /\ at[c] = "sync"
    /\ Moves(c, "start")
    /\ UNCHANGED <<download, meta, script, target, running>>

\* Mutant: the backup is removed with the candidate.
CleansAll(c) ==
    /\ candidate' = [candidate EXCEPT ![c] = Absent]
    /\ backup' = [backup EXCEPT ![c] = Absent]

\* What an installer that fails removes.
CleansUp(c) == candidate' = [candidate EXCEPT ![c] = Absent] /\ UNCHANGED backup

\* Any other error, a failure to rename the backup back included, or the
\* script's limit of two minutes, which kills the installer: the script does
\* not learn of a backup, even if there is one.
InstallFails(c) ==
    /\ at[c] \in Installing
    /\ Moves(c, "unreported")
    /\ CleansUp(c) \/ UNCHANGED <<candidate, backup>>
    /\ UNCHANGED <<download, meta, helper, alone, kept, target, running>>
-----------------------------------------------------------------------------
(* update-service.py, after the installer.                                 *)

\* The service manager starts what is installed, unless it runs already.
Starts == running' = IF running = Absent THEN target ELSE running

StartService(c) ==
    /\ at[c] = "start"
    /\ Starts /\ running' # Absent
    /\ Ends(c)
    /\ UNCHANGED <<download, target>>

\* It does not start, or is not healthy.
StartFails(c) ==
    /\ at[c] = "start"
    /\ Starts \/ UNCHANGED running
    /\ Moves(c, "rollback")
    /\ UNCHANGED <<download, meta, script, target>>

\* os.replace(backup, installed)
PutsBack(c) ==
    /\ target' = backup[c]
    /\ backup' = [backup EXCEPT ![c] = Absent]

\* The handler stops the service, if it can.
Rollback(c) ==
    /\ at[c] = "rollback"
    /\ \/ ServiceStops(c, "replace")
       \/ Moves(c, "replace") /\ UNCHANGED <<meta, running>>
    /\ UNCHANGED <<download, script, target>>

Replace(c) ==
    /\ at[c] = "replace"
    /\ PutsBack(c)
    /\ Moves(c, "restored")
    /\ UNCHANGED <<download, meta, helper, candidate, alone, kept, running>>

\* The last start, whose failure is not looked at.
Restart(c) ==
    /\ at[c] \in {"restored", "unreported"}
    /\ Starts \/ UNCHANGED running
    /\ Ends(c)
    /\ UNCHANGED <<download, target>>

\* The script is killed, with an installer that it may have started.
Killed(c) ==
    /\ at[c] \in Scripting
    /\ Ends(c)
    /\ UNCHANGED <<download, target, running>>

\* The operator, or the next boot.
ServiceStarted ==
    /\ running = Absent /\ target # Absent
    /\ running' = target
    /\ UNCHANGED <<at, download, meta, script, target>>
-----------------------------------------------------------------------------
Staging(c) ==
    \/ Check(c) \/ CheckFails(c)
    \/ DownloadArtifact(c) \/ DownloadManifest(c) \/ DownloadSignature(c)
    \/ ReadMetadata(c, "metadata", "copy") \/ StageUpdate(c)

Script(c) ==
    \/ CopyHelper(c)
    \/ ReadMetadata(c, "dryMetadata", "dryCopy") \/ DryRun(c)
    \/ ScriptFails(c) \/ StopService(c)
    \/ StartService(c) \/ StartFails(c)
    \/ Rollback(c) \/ Replace(c) \/ Restart(c) \/ Killed(c)

Install(c) ==
    \/ Compare(c, "compare", "restage")
    \/ ReadMetadata(c, "restage", "recopy") \/ Restage(c)
    \/ Unpack(c)
    \/ Compare(c, "recompare", "away")
    \/ RenameAway(c) \/ RenameIn(c) \/ RenameInFails(c)
    \/ Sync(c) \/ InstallFails(c)

Next ==
    \/ \E c \in Checkers : Staging(c) \/ Script(c) \/ Install(c)
    \/ ServiceStarted

Spec == Init /\ [][Next]_vars
-----------------------------------------------------------------------------
\* Type invariant: what is installed, kept or running is a version, if there
\* is one, and only what was downloaded may be anything else.
TypeOK ==
    /\ applies \in BOOLEAN
    /\ at \in [Checkers -> Checking \cup Scripting]
    /\ artifact \in Releases \cup {Bogus}
    /\ manifest \in Releases \cup {Bogus}
    /\ meta \in [Checkers -> Releases \cup {Bogus}]
    /\ helper \in [Checkers -> Versions]
    /\ candidate \in [Checkers -> Releases \cup {Bogus, Absent}]
    /\ backup \in [Checkers -> Versions \cup {Bogus, Absent}]
    /\ target \in Versions \cup {Bogus, Absent}
    /\ running \in Versions \cup {Bogus, Absent}
    /\ alone \in [Checkers -> BOOLEAN]
    /\ kept \subseteq Versions \cup {Bogus}

\* Whatever the downloads become while they are staged, nothing is unpacked
\* for installation that was not signed, or that is not newer than the agent
\* that verified it; so nothing else is installed, kept or run.
InstalledVerified ==
    /\ Bogus \notin {target, running} \cup kept
    /\ \A c \in Checkers :
          /\ backup[c] # Bogus
          /\ candidate[c] # Absent => candidate[c] \in Releases /\ candidate[c] > helper[c]

\* A script that no other one ran beside, and that failed, has put back the
\* executable it found; when the installer failed or was killed without a
\* report, it is still there under one of its two names.
FailedUpdateUndone ==
    \A c \in Checkers : alone[c] =>
        /\ at[c] = "restored" => target = helper[c]
        /\ at[c] = "unreported" => helper[c] \in {target, backup[c]}
-----------------------------------------------------------------------------
\* The files beside the target that some script renamed away.
Saved == kept \cup ({backup[c] : c \in Checkers} \ {Absent})

\* A script under way runs, or ran, beside another one.
Contended == \E c \in Checkers : at[c] \in Scripting /\ ~alone[c]

File == INSTANCE Executable WITH
    Releases <- Releases, Versions <- Versions, None <- Absent,
    installed <- target, saved <- Saved, contended <- Contended

\* An update sets the executable aside before a newer release takes its name,
\* and what it puts back replaces nothing else than that release.  Of scripts
\* that run beside another one only this is said: however many there are and
\* whenever they are killed, an executable remains, installed or set aside.
ExecutableSpec == File!Spec
=============================================================================

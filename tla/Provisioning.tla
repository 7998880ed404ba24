---------------------------- MODULE Provisioning ----------------------------
(***************************************************************************)
(* How a device gets its identity: the key file, the enrollment token, the *)
(* device id and what the server knows of them (src/identity.rs, and run,  *)
(* service_bootstrap, enroll_with_token, activate_device and proof in      *)
(* src/main.rs).  The service ("run") retries for ever; an operator may    *)
(* give the commands `enroll` and `activate` beside it.  Any of them may   *)
(* be killed between two operations on files, which is also how systemd    *)
(* stops it.                                                               *)
(*                                                                         *)
(* The three files survive the processes.  A token is named after the      *)
(* device it was issued for.  A token file that cannot be read counts as   *)
(* absent.  The delay between two attempts and the cryptography are left   *)
(* out; a connection, once made, is ControlPlane's.                        *)
(***************************************************************************)
EXTENDS Naturals

CONSTANTS
    Keys,           \* key pairs that may be generated
    Devices,        \* devices, each with its enrollment token
    Commands,       \* processes of the operator, each `enroll` or `activate`
    Absent,         \* no file, and nothing in memory
    Torn,           \* a file that exists but is empty or incomplete
    MaxDisruptions  \* bound: kills and stops of the service

ASSUME FilesAssumption ==
    /\ Absent # Torn
    /\ {Absent, Torn} \cap (Keys \cup Devices) = {}
    /\ "run" \notin Commands
    /\ MaxDisruptions \in Nat

Procs == {"run"} \cup Commands

VARIABLES
    keyFile,     \* identity.key
    tokenFile,   \* enrollment-token
    deviceId,    \* device-id
    at,          \* how far each process is
    mine,        \* the identity each process has loaded
    held,        \* the token or device id each process is working with
    status,      \* the server's state of a device
    owner,       \* the key the server registered for it
    late,        \* enrollment requests their senders no longer wait for
    stopAsked,   \* the service manager waits for the service to stop
    permit,      \* what STOP holds: a notification nobody has taken
    disruptions  \* kills and stops so far

files   == <<keyFile, tokenFile, deviceId>>
memory  == <<mine, held>>
server  == <<status, owner, late>>
manager == <<stopAsked, permit, disruptions>>
vars == <<files, at, memory, server, manager>>

Init ==
    /\ keyFile = Absent /\ deviceId = Absent
    /\ tokenFile \in {Absent} \cup Devices
    /\ at = [p \in Procs |-> "down"]
    /\ mine = [p \in Procs |-> Absent]
    /\ held = [p \in Procs |-> Absent]
    /\ status = [d \in Devices |-> "issued"]
    /\ owner = [d \in Devices |-> Absent]
    /\ late = {}
    /\ stopAsked = FALSE /\ permit = FALSE /\ disruptions = 0
-----------------------------------------------------------------------------
(* The life of a process.                                                  *)

Moves(p, phase) == at' = [at EXCEPT ![p] = phase]

\* The service may be started again; a command is run once.
Exits(p) ==
    /\ Moves(p, IF p = "run" THEN "down" ELSE "exited")
    /\ mine' = [mine EXCEPT ![p] = Absent]
    /\ held' = [held EXCEPT ![p] = Absent]

\* A request or a file operation failed, or is done: the service goes on,
\* a command returns.
GoesOn(p, phase) ==
    IF p = "run"
    THEN /\ Moves(p, phase)
         /\ held' = [held EXCEPT ![p] = Absent]
         /\ UNCHANGED mine
    ELSE Exits(p)

\* A request that was sent may reach the server after its sender has left.
LeavesRequest(p) ==
    late' = IF at[p] = "enrolling"
            THEN late \cup {[device |-> held[p], key |-> mine[p]]}
            ELSE late

\* What the manager knows and STOP holds ends with the service's process.
ManagerSeesExit(p) ==
    IF p = "run"
    THEN stopAsked' = FALSE /\ permit' = FALSE
    ELSE UNCHANGED <<stopAsked, permit>>

Start(p) ==
    /\ at[p] = "down"
    /\ Moves(p, "load")
    /\ UNCHANGED <<files, memory, server, manager>>

Kill(p) ==
    /\ at[p] \notin {"down", "exited"}
    /\ disruptions < MaxDisruptions
    /\ disruptions' = disruptions + 1
    /\ LeavesRequest(p)
    /\ Exits(p)
    /\ ManagerSeesExit(p)
    /\ UNCHANGED <<files, status, owner>>

\* Where select! waits for shutdown() beside its work.
Listening == at["run"] \in {"connect", "connecting", "connected", "wait"}

\* Mutant: notify_waiters, which keeps nothing for a later waiter.
NotifyWaiters == permit' = Listening

NotifyOne == permit' = TRUE

\* The control handler of the Windows service.
StopAsked ==
    /\ at["run"] # "down"
    /\ ~stopAsked
    /\ disruptions < MaxDisruptions
    /\ disruptions' = disruptions + 1
    /\ stopAsked' = TRUE
    /\ NotifyOne
    /\ UNCHANGED <<files, at, memory, server>>

ShutsDown ==
    /\ Listening
    /\ permit
    /\ Exits("run")
    /\ ManagerSeesExit("run")
    /\ UNCHANGED <<files, server, disruptions>>
-----------------------------------------------------------------------------
(* Identity::load_or_create.                                               *)

Ready(p) == IF p = "run" THEN {"bootstrap"} ELSE {"token", "activation"}

Proceeds(p) == \E phase \in Ready(p) : Moves(p, phase)

\* A file that is not a key, be it one that is still being written, ends
\* the process.
LoadIdentity(p) ==
    /\ at[p] = "load"
    /\ \/ keyFile = Absent /\ Moves(p, "create") /\ UNCHANGED memory
       \/ keyFile = Torn /\ Exits(p)
       \/ /\ keyFile \in Keys
          /\ mine' = [mine EXCEPT ![p] = keyFile]
          /\ Proceeds(p)
          /\ UNCHANGED held
    /\ IF keyFile = Torn THEN ManagerSeesExit(p) ELSE UNCHANGED <<stopAsked, permit>>
    /\ UNCHANGED <<files, server, disruptions>>

\* Random keys do not repeat.
Fresh(k) == (\A p \in Procs : mine[p] # k) /\ (\A d \in Devices : owner[d] # k)

\* Mutant: create and truncate instead of create_new.
Truncates == TRUE

\* create_new refuses a file that has appeared since path.exists().
CreatesNew == keyFile = Absent

CreateIdentity(p) ==
    /\ at[p] = "create"
    /\ IF CreatesNew
       THEN /\ keyFile' = Torn
            /\ \E k \in Keys : Fresh(k) /\ mine' = [mine EXCEPT ![p] = k]
            /\ Moves(p, "saving")
            /\ UNCHANGED <<held, stopAsked, permit>>
       ELSE /\ Exits(p)
            /\ ManagerSeesExit(p)
            /\ UNCHANGED keyFile
    /\ UNCHANGED <<tokenFile, deviceId, server, disruptions>>

\* write_all and sync_all, or one of them fails.
SaveIdentity(p) ==
    /\ at[p] = "saving"
    /\ \/ /\ keyFile' = mine[p]
          /\ Proceeds(p)
          /\ UNCHANGED <<memory, stopAsked, permit>>
       \/ Exits(p) /\ ManagerSeesExit(p) /\ UNCHANGED keyFile
    /\ UNCHANGED <<tokenFile, deviceId, server, disruptions>>
-----------------------------------------------------------------------------
(* service_bootstrap and enroll_with_token.                                *)

\* Mutant: enrolls whenever there is a token.
HasToken == tokenFile # Absent

MayEnroll == deviceId = Absent /\ tokenFile # Absent

Bootstrap ==
    /\ at["run"] = "bootstrap"
    /\ IF MayEnroll
       THEN Moves("run", "enrolling") /\ held' = [held EXCEPT !["run"] = tokenFile]
       ELSE Moves("run", "activation") /\ UNCHANGED held
    /\ UNCHANGED <<files, mine, server, manager>>

\* The command takes its token from the environment.
EnrollCommand(p, d) ==
    /\ at[p] = "token"
    /\ Moves(p, "enrolling")
    /\ held' = [held EXCEPT ![p] = d]
    /\ UNCHANGED <<files, mine, server, manager>>

\* The server takes a token once.
Registers(d, k) ==
    IF status[d] = "issued"
    THEN status' = [status EXCEPT ![d] = "pending"] /\ owner' = [owner EXCEPT ![d] = k]
    ELSE UNCHANGED <<status, owner>>

\* The reply arrives.  At first fs::write empties device-id.
EnrollAccepted(p) ==
    /\ at[p] = "enrolling"
    /\ status[held[p]] = "issued"
    /\ Registers(held[p], mine[p])
    /\ deviceId' = Torn
    /\ Moves(p, "naming")
    /\ UNCHANGED <<keyFile, tokenFile, memory, late, manager>>

EnrollRefused(p) ==
    /\ at[p] = "enrolling"
    /\ status[held[p]] # "issued"
    /\ GoesOn(p, "connect")
    /\ UNCHANGED <<files, server, manager>>

\* The request failed or timed out.  Whether the server will still see it,
\* or has seen it and only its reply was lost, nobody knows.
EnrollGivenUp(p) ==
    /\ at[p] = "enrolling"
    /\ LeavesRequest(p)
    /\ GoesOn(p, "connect")
    /\ UNCHANGED <<files, status, owner, manager>>

LateEnrollment ==
    \E m \in late :
        /\ Registers(m.device, m.key)
        /\ late' = late \ {m}
        /\ UNCHANGED <<files, at, memory, manager>>

\* The rest of fs::write, which may fail.
NameDevice(p) ==
    /\ at[p] = "naming"
    /\ \/ /\ deviceId' = held[p]
          /\ GoesOn(p, "forget")
       \/ GoesOn(p, "connect") /\ UNCHANGED deviceId
    /\ UNCHANGED <<keyFile, tokenFile, server, manager>>

\* remove_file; its failure also skips the activation.
ForgetToken ==
    /\ at["run"] = "forget"
    /\ \/ tokenFile' = Absent /\ Moves("run", "activation")
       \/ UNCHANGED tokenFile /\ Moves("run", "connect")
    /\ UNCHANGED <<keyFile, deviceId, memory, server, manager>>
-----------------------------------------------------------------------------
(* activate_device, proof and connect.                                     *)

\* Mutant: whatever is in the file is taken for a device id.
TakesAnyDevice(p, asking, otherwise) ==
    IF deviceId # Absent
    THEN Moves(p, asking) /\ held' = [held EXCEPT ![p] = deviceId] /\ UNCHANGED mine
    ELSE GoesOn(p, otherwise)

\* proof() reads device-id and refuses what is not a device id.
ReadsDevice(p, asking, otherwise) ==
    IF deviceId \in Devices
    THEN Moves(p, asking) /\ held' = [held EXCEPT ![p] = deviceId] /\ UNCHANGED mine
    ELSE GoesOn(p, otherwise)

Activate(p) ==
    /\ at[p] = "activation"
    /\ ReadsDevice(p, "activating", "connect")
    /\ UNCHANGED <<files, server, manager>>

\* A signature made with the registered key, for a device in this state.
Proves(p, states) == status[held[p]] \in states /\ owner[held[p]] = mine[p]

ActivateAccepted(p) ==
    /\ at[p] = "activating"
    /\ Proves(p, {"approved", "active"})
    /\ status' = [status EXCEPT ![held[p]] = "active"]
    /\ GoesOn(p, "connect")
    /\ UNCHANGED <<files, owner, late, manager>>

\* The server refuses, the request fails, or its reply is lost.
ActivateFailed(p) ==
    /\ at[p] = "activating"
    /\ GoesOn(p, "connect")
    /\ UNCHANGED <<files, server, manager>>

Connect ==
    /\ at["run"] = "connect"
    /\ ReadsDevice("run", "connecting", "wait")
    /\ UNCHANGED <<files, server, manager>>

ConnectAccepted ==
    /\ at["run"] = "connecting"
    /\ Proves("run", {"active"})
    /\ GoesOn("run", "connected")
    /\ UNCHANGED <<files, server, manager>>

\* The connection was refused, failed, or ends.
ConnectionEnds ==
    /\ at["run"] \in {"connecting", "connected"}
    /\ GoesOn("run", "wait")
    /\ UNCHANGED <<files, server, manager>>

WaitOver ==
    /\ at["run"] = "wait"
    /\ Moves("run", "bootstrap")
    /\ UNCHANGED <<files, memory, server, manager>>
-----------------------------------------------------------------------------
(* The administrator and the operator.                                     *)

Approve(d) ==
    /\ status[d] = "pending"
    /\ status' = [status EXCEPT ![d] = "approved"]
    /\ UNCHANGED <<files, at, memory, owner, late, manager>>

TokenExpires(d) ==
    /\ status[d] = "issued"
    /\ status' = [status EXCEPT ![d] = "expired"]
    /\ UNCHANGED <<files, at, memory, owner, late, manager>>

\* A fresh token, for a device that has no id yet.
PlaceToken(d) ==
    /\ status[d] = "issued"
    /\ deviceId = Absent
    /\ tokenFile' = d
    /\ UNCHANGED <<keyFile, deviceId, at, memory, server, manager>>
-----------------------------------------------------------------------------
\* What a process does by itself.
Step(p) ==
    \/ LoadIdentity(p) \/ CreateIdentity(p) \/ SaveIdentity(p)
    \/ EnrollRefused(p) \/ EnrollGivenUp(p) \/ NameDevice(p)
    \/ Activate(p) \/ ActivateFailed(p)

Loop == Bootstrap \/ ForgetToken \/ Connect \/ WaitOver

Next ==
    \/ \E p \in Procs :
          Start(p) \/ Kill(p) \/ Step(p) \/ EnrollAccepted(p) \/ ActivateAccepted(p)
    \/ Loop
    \/ ConnectAccepted \/ ConnectionEnds
    \/ StopAsked \/ ShutsDown
    \/ LateEnrollment
    \/ \E p \in Commands, d \in Devices : EnrollCommand(p, d)
    \/ \E d \in Devices : Approve(d) \/ TokenExpires(d) \/ PlaceToken(d)

Spec == Init /\ [][Next]_vars

\* The service is restarted and runs; requests time out, but not all of
\* them; the administrator approves; a stop that was asked for is noticed.
FairSpec ==
    /\ Spec
    /\ WF_vars(Start("run"))
    /\ WF_vars(Step("run") \/ Loop)
    /\ WF_vars(at["run"] = "connecting" /\ ConnectionEnds)
    /\ SF_vars(EnrollAccepted("run"))
    /\ SF_vars(ActivateAccepted("run"))
    /\ SF_vars(ConnectAccepted)
    /\ SF_vars(ShutsDown)
    /\ \A d \in Devices : WF_vars(Approve(d))
-----------------------------------------------------------------------------
Phases == {"down", "exited", "load", "create", "saving", "bootstrap", "token",
    "enrolling", "naming", "forget", "activation", "activating", "connect",
    "connecting", "connected", "wait"}

\* Type invariant: files are absent, torn or whole, and every request that
\* is under way is for a device, with a key.
TypeOK ==
    /\ keyFile \in Keys \cup {Absent, Torn}
    /\ tokenFile \in Devices \cup {Absent}
    /\ deviceId \in Devices \cup {Absent, Torn}
    /\ at \in [Procs -> Phases]
    /\ mine \in [Procs -> Keys \cup {Absent}]
    /\ held \in [Procs -> Devices \cup {Absent}]
    /\ status \in [Devices -> {"issued", "expired", "pending", "approved", "active"}]
    /\ owner \in [Devices -> Keys \cup {Absent}]
    /\ late \subseteq [device : Devices, key : Keys]
    /\ stopAsked \in BOOLEAN /\ permit \in BOOLEAN
    /\ disruptions \in 0..MaxDisruptions

\* The device that device-id names is registered with the key that
\* identity.key holds, whoever wrote the two files and in which order: the
\* agent can always prove that it is that device.
DeviceBoundToKey ==
    deviceId \in Devices => keyFile \in Keys /\ owner[deviceId] = keyFile

\* What keeps the service from ever connecting: a torn key or device id, or
\* no device id and no token that the server would still take.
Stuck ==
    \/ keyFile = Torn
    \/ deviceId = Torn
    \/ deviceId = Absent /\ (tokenFile = Absent \/ status[tokenFile] # "issued")

\* Whatever fails, is killed, comes late or is done beside it, the service
\* connects again and again, unless one of the states above lasts.
Provisioned == []<>(at["run"] = "connected") \/ <>[]Stuck

\* A stop that the service manager asks for, at any moment, is carried out.
StopEnds == stopAsked ~> ~stopAsked
-----------------------------------------------------------------------------
Identity == INSTANCE DeviceIdentity WITH
    None <- Absent,
    key <- IF keyFile = Torn THEN Absent ELSE keyFile,
    owner <- owner,
    name <- IF deviceId = Torn THEN Absent ELSE deviceId

\* The files, the requests that come late and the processes that are killed
\* beside each other implement one identity: a key that is never replaced, never
\* exchanged at the server, and the device's name only after its registration.
IdentitySpec == Identity!Spec
=============================================================================

------------------------ MODULE ProvisioningProofs ------------------------
(***************************************************************************)
(* A device's identity, for any keys, devices and commands, and any number *)
(* of kills: the files and the server never disagree about the key.        *)
(***************************************************************************)
EXTENDS Provisioning, TLAPS

\* Where a process has not loaded or generated a key.
Keyless == {"down", "exited", "load", "create"}

\* The key in a process's memory is the one on disk, unless the process is
\* still writing it; a process that asks the server knows for which device,
\* and one that writes device-id has been accepted.
ProcInv(p) ==
    /\ at[p] \in Keyless <=> mine[p] = Absent
    /\ at[p] = "saving" => keyFile = Torn
    /\ at[p] \notin Keyless \cup {"saving"} => keyFile = mine[p]
    /\ at[p] \in {"enrolling", "activating", "connecting", "naming"} => held[p] \in Devices
    /\ at[p] = "naming" => owner[held[p]] # Absent

\* create_new lets one process write the key.
OneWriter == \A p, q \in Procs : at[p] = "saving" /\ at[q] = "saving" => p = q

\* The server only ever sees that key.
RegisteredKey ==
    /\ \A d \in Devices : owner[d] # Absent => owner[d] = keyFile
    /\ \A m \in late : m.key = keyFile
    /\ deviceId \in Devices => owner[deviceId] # Absent

IdentityInv ==
    /\ TypeOK
    /\ \A p \in Procs : ProcInv(p)
    /\ OneWriter
    /\ RegisteredKey

\* Nothing has been made, loaded or registered at first.
LEMMA InitIdentity == Init => IdentityInv
<1> SUFFICES ASSUME Init PROVE IdentityInv
  OBVIOUS
<1>1. TypeOK
  <2>1. at \in [Procs -> Phases]
    BY DEF Init, Phases
  <2>2. /\ mine \in [Procs -> Keys \cup {Absent}]
        /\ held \in [Procs -> Devices \cup {Absent}]
        /\ owner \in [Devices -> Keys \cup {Absent}]
    BY DEF Init
  <2>3. status \in [Devices -> {"issued", "expired", "pending", "approved", "active"}]
    BY DEF Init
  <2>4. disruptions \in 0..MaxDisruptions
    BY FilesAssumption DEF Init
  <2> QED BY <2>1, <2>2, <2>3, <2>4 DEF Init, TypeOK
<1>2. \A p \in Procs : ProcInv(p)
  BY DEF Init, ProcInv, Keyless
<1>3. OneWriter
  BY DEF Init, OneWriter
<1>4. RegisteredKey
  BY FilesAssumption DEF Init, RegisteredKey
<1> QED BY <1>1, <1>2, <1>3, <1>4 DEF IdentityInv

\* A process that leaves the key file and the registrations alone, and keeps
\* what is said of itself, keeps the invariant.
LEMMA OneMoves ==
    ASSUME IdentityInv, TypeOK', NEW p \in Procs, ProcInv(p)',
           UNCHANGED <<keyFile, owner>>,
           \A q \in Procs \ {p} :
               at'[q] = at[q] /\ mine'[q] = mine[q] /\ held'[q] = held[q],
           at'[p] # "saving",
           \A m \in late' : m \in late \/ m.key = keyFile,
           deviceId' \in Devices => owner[deviceId'] # Absent
    PROVE  IdentityInv'
<1>1. \A q \in Procs : ProcInv(q)'
  BY DEF IdentityInv, ProcInv
<1>2. OneWriter'
  BY DEF IdentityInv, OneWriter
<1>3. RegisteredKey'
  BY DEF IdentityInv, RegisteredKey
<1> QED BY <1>1, <1>2, <1>3 DEF IdentityInv

\* A process that exits forgets its key; a request it leaves behind carries
\* the key on disk.
LEMMA ExitKeeps ==
    ASSUME IdentityInv, NEW p \in Procs, Exits(p), ManagerSeesExit(p),
           late' = late \/ LeavesRequest(p),
           UNCHANGED <<files, status, owner>>, disruptions' \in 0..MaxDisruptions
    PROVE  IdentityInv'
<1>1. late' \subseteq [device : Devices, key : Keys]
  <2>1. at[p] = "enrolling" => held[p] \in Devices /\ mine[p] \in Keys
    BY FilesAssumption DEF IdentityInv, TypeOK, ProcInv, Keyless
  <2> QED BY <2>1 DEF LeavesRequest, IdentityInv, TypeOK
<1>2. /\ at' \in [Procs -> Phases]
      /\ mine' \in [Procs -> Keys \cup {Absent}]
      /\ held' \in [Procs -> Devices \cup {Absent}]
  BY DEF Exits, Moves, IdentityInv, TypeOK, Phases
<1>3. stopAsked' \in BOOLEAN /\ permit' \in BOOLEAN
  BY DEF ManagerSeesExit, IdentityInv, TypeOK
<1>4. TypeOK'
  BY <1>1, <1>2, <1>3 DEF IdentityInv, TypeOK, files
<1>5. ProcInv(p)'
  BY DEF IdentityInv, TypeOK, ProcInv, Keyless, Exits, Moves, files
<1>6. \A m \in late' : m \in late \/ m.key = keyFile
  BY DEF LeavesRequest, IdentityInv, ProcInv, Keyless
<1> QED BY <1>4, <1>5, <1>6, OneMoves DEF Exits, Moves, files, IdentityInv, TypeOK, RegisteredKey

\* A process between two operations, when a request or a file operation has
\* failed or is done.
LEMMA GoesOnKeeps ==
    ASSUME IdentityInv, NEW p \in Procs, at[p] \notin Keyless \cup {"saving"},
           NEW phase \in {"activation", "connect", "connected", "forget", "wait"},
           GoesOn(p, phase),
           TypeOK' \/ UNCHANGED <<files, server, manager>>,
           UNCHANGED <<keyFile, owner>>,
           \A m \in late' : m \in late \/ m.key = keyFile,
           deviceId' \in Devices => owner[deviceId'] # Absent
    PROVE  IdentityInv'
<1>1. TypeOK'
  BY DEF IdentityInv, TypeOK, GoesOn, Exits, Moves, Phases, files, server, manager
<1>2. ProcInv(p)'
  BY DEF IdentityInv, TypeOK, ProcInv, Keyless, GoesOn, Exits, Moves
<1> QED BY <1>1, <1>2, OneMoves DEF GoesOn, Exits, Moves, IdentityInv, TypeOK

\* load_or_create: the key file is made by one process, and only while there
\* is no key anywhere.
LEMMA IdentityStepKeeps ==
    ASSUME IdentityInv, NEW p \in Procs,
           Start(p) \/ LoadIdentity(p) \/ CreateIdentity(p) \/ SaveIdentity(p)
    PROVE  IdentityInv'
<1>1. CASE Start(p)
  <2>1. TypeOK'
    BY <1>1 DEF Start, Moves, IdentityInv, TypeOK, Phases, files, memory, server, manager
  <2>2. ProcInv(p)'
    BY <1>1 DEF Start, Moves, IdentityInv, TypeOK, ProcInv, Keyless, files, memory, server
  <2> QED BY <1>1, <2>1, <2>2, OneMoves
      DEF Start, Moves, IdentityInv, TypeOK, RegisteredKey, files, memory, server
<1>2. CASE LoadIdentity(p)
  <2>1. CASE keyFile = Torn
    <3>1. Exits(p) /\ ManagerSeesExit(p)
      BY <1>2, <2>1, FilesAssumption DEF LoadIdentity
    <3> QED BY <1>2, <3>1, ExitKeeps DEF LoadIdentity, files, server, IdentityInv, TypeOK
  <2>2. CASE keyFile # Torn
    <3>1. PICK phase \in {"create", "bootstrap", "token", "activation"} :
            /\ Moves(p, phase)
            /\ \/ phase = "create" /\ UNCHANGED mine
               \/ /\ phase # "create" /\ keyFile \in Keys
                  /\ mine' = [mine EXCEPT ![p] = keyFile]
      BY <1>2, <2>2 DEF LoadIdentity, Proceeds, Ready, memory
    <3>2. UNCHANGED <<files, server, held, stopAsked, permit, disruptions>>
      BY <1>2, <2>2 DEF LoadIdentity, memory
    <3>3. at[p] = "load"
      BY <1>2 DEF LoadIdentity
    <3>4. TypeOK'
      BY <3>1, <3>2 DEF Moves, IdentityInv, TypeOK, Phases, files, server
    <3>5. ProcInv(p)'
      BY <3>1, <3>2, <3>3, FilesAssumption
         DEF Moves, IdentityInv, TypeOK, ProcInv, Keyless, files, server
    <3> QED BY <3>1, <3>2, <3>4, <3>5, OneMoves
        DEF Moves, IdentityInv, TypeOK, RegisteredKey, files, server
  <2> QED BY <2>1, <2>2
<1>3. CASE CreateIdentity(p)
  <2>1. CASE ~CreatesNew
    BY <1>3, <2>1, ExitKeeps DEF CreateIdentity, files, server, IdentityInv, TypeOK
  <2>2. CASE CreatesNew
    <3>1. PICK k \in Keys : mine' = [mine EXCEPT ![p] = k]
      BY <1>3, <2>2 DEF CreateIdentity
    <3>2. /\ keyFile = Absent /\ keyFile' = Torn
          /\ Moves(p, "saving")
          /\ UNCHANGED <<tokenFile, deviceId, held, server, manager>>
      BY <1>3, <2>2 DEF CreateIdentity, CreatesNew, manager
    <3>3. /\ \A q \in Procs : mine[q] = Absent /\ at[q] \in Keyless
          /\ \A d \in Devices : owner[d] = Absent
          /\ late = {} /\ deviceId \notin Devices
      BY <3>2, FilesAssumption DEF IdentityInv, TypeOK, ProcInv, RegisteredKey
    <3>4. TypeOK'
      BY <3>1, <3>2 DEF Moves, IdentityInv, TypeOK, Phases, server, manager
    <3>5. \A q \in Procs : ProcInv(q)'
      BY <3>1, <3>2, <3>3, FilesAssumption
         DEF Moves, IdentityInv, TypeOK, ProcInv, Keyless, server
    <3>6. OneWriter' /\ RegisteredKey'
      BY <3>2, <3>3 DEF Moves, IdentityInv, TypeOK, OneWriter, RegisteredKey, Keyless, server
    <3> QED BY <3>4, <3>5, <3>6 DEF IdentityInv
  <2> QED BY <2>1, <2>2
<1>4. CASE SaveIdentity(p)
  <2>1. CASE UNCHANGED keyFile /\ Exits(p) /\ ManagerSeesExit(p)
    BY <1>4, <2>1, ExitKeeps DEF SaveIdentity, files, server, IdentityInv, TypeOK
  <2>2. CASE keyFile' = mine[p] /\ Proceeds(p) /\ UNCHANGED <<memory, stopAsked, permit>>
    <3>1. PICK phase \in {"bootstrap", "token", "activation"} : Moves(p, phase)
      BY <2>2 DEF Proceeds, Ready
    <3>2. /\ at[p] = "saving" /\ keyFile = Torn /\ mine[p] \in Keys
          /\ UNCHANGED <<tokenFile, deviceId, memory, server, manager>>
      BY <1>4, <2>2 DEF SaveIdentity, IdentityInv, TypeOK, ProcInv, Keyless, manager
    <3>3. /\ \A q \in Procs \ {p} : mine[q] = Absent /\ at[q] \in Keyless
          /\ \A d \in Devices : owner[d] = Absent
          /\ late = {} /\ deviceId \notin Devices
      BY <3>2, FilesAssumption
         DEF IdentityInv, TypeOK, ProcInv, OneWriter, RegisteredKey, Keyless
    <3>4. TypeOK'
      BY <2>2, <3>1, <3>2 DEF Moves, IdentityInv, TypeOK, Phases, memory, server, manager
    <3>5. \A q \in Procs : ProcInv(q)'
      BY <2>2, <3>1, <3>2, <3>3, FilesAssumption
         DEF Moves, IdentityInv, TypeOK, ProcInv, Keyless, memory, server
    <3>6. OneWriter' /\ RegisteredKey'
      BY <3>1, <3>2, <3>3
         DEF Moves, IdentityInv, TypeOK, OneWriter, RegisteredKey, Keyless, server
    <3> QED BY <3>4, <3>5, <3>6 DEF IdentityInv
  <2> QED BY <1>4, <2>1, <2>2 DEF SaveIdentity
<1> QED BY <1>1, <1>2, <1>3, <1>4


\* A process that has its key and only moves on, to a request or not.
LEMMA MovesKeeps ==
    ASSUME IdentityInv, NEW p \in Procs, at[p] \notin Keyless \cup {"saving"},
           NEW phase \in {"enrolling", "activating", "connecting", "activation", "connect",
                         "bootstrap"},
           Moves(p, phase),
           UNCHANGED mine,
           \/ UNCHANGED held /\ phase \in {"activation", "connect", "bootstrap"}
           \/ \E d \in Devices : held' = [held EXCEPT ![p] = d],
           tokenFile' \in Devices \cup {Absent},
           UNCHANGED <<keyFile, deviceId, server, manager>>
    PROVE  IdentityInv'
<1>1. TypeOK'
  BY DEF IdentityInv, TypeOK, Moves, Phases, server, manager
<1>2. ProcInv(p)'
  BY DEF IdentityInv, TypeOK, ProcInv, Keyless, Moves, server
<1> QED BY <1>1, <1>2, OneMoves DEF Moves, IdentityInv, TypeOK, RegisteredKey, server

\* proof() hands out device ids only.
LEMMA ReadsDeviceKeeps ==
    ASSUME IdentityInv, NEW p \in Procs, at[p] \notin Keyless \cup {"saving"},
           NEW asking \in {"activating", "connecting"}, NEW otherwise \in {"connect", "wait"},
           ReadsDevice(p, asking, otherwise),
           UNCHANGED <<files, server, manager>>
    PROVE  IdentityInv'
<1>1. CASE deviceId \in Devices
  BY <1>1, MovesKeeps DEF ReadsDevice, files, IdentityInv, TypeOK
<1>2. CASE deviceId \notin Devices
  BY <1>2, GoesOnKeeps DEF ReadsDevice, files, server, IdentityInv
<1> QED BY <1>1, <1>2

\* The server registers a key only for a device that has none.
LEMMA RegistersKeeps ==
    ASSUME IdentityInv, NEW d \in Devices, NEW k, k \in Keys, k = keyFile, Registers(d, k),
           UNCHANGED <<keyFile, tokenFile, deviceId, at, memory, manager>>,
           late' \subseteq late
    PROVE  IdentityInv'
<1>1. TypeOK'
  BY DEF IdentityInv, TypeOK, Registers, memory, manager
<1>2. \A e \in Devices : /\ owner'[e] # Absent => owner'[e] = keyFile
                         /\ owner[e] # Absent => owner'[e] # Absent
  BY FilesAssumption DEF IdentityInv, TypeOK, RegisteredKey, Registers
<1>3. \A p \in Procs : ProcInv(p)'
  BY <1>2 DEF IdentityInv, ProcInv, memory
<1>4. OneWriter'
  BY DEF IdentityInv, OneWriter
<1>5. RegisteredKey'
  BY <1>2 DEF IdentityInv, RegisteredKey
<1> QED BY <1>1, <1>3, <1>4, <1>5 DEF IdentityInv

\* An enrollment, accepted, refused, given up or late.
LEMMA EnrollmentKeeps ==
    ASSUME IdentityInv,
           \/ \E p \in Procs :
                 EnrollAccepted(p) \/ EnrollRefused(p) \/ EnrollGivenUp(p) \/ NameDevice(p)
           \/ LateEnrollment
    PROVE  IdentityInv'
<1>1. ASSUME NEW p \in Procs, EnrollAccepted(p)
      PROVE  IdentityInv'
  <2>1. /\ at[p] = "enrolling" /\ held[p] \in Devices
        /\ mine[p] = keyFile /\ keyFile \in Keys /\ keyFile # Absent
    BY <1>1, FilesAssumption DEF EnrollAccepted, IdentityInv, TypeOK, ProcInv, Keyless
  <2>2. /\ owner' = [owner EXCEPT ![held[p]] = keyFile]
        /\ status' = [status EXCEPT ![held[p]] = "pending"]
        /\ at' = [at EXCEPT ![p] = "naming"]
        /\ deviceId' = Torn
        /\ UNCHANGED <<keyFile, tokenFile, mine, held, late, stopAsked, permit, disruptions>>
    BY <1>1, <2>1 DEF EnrollAccepted, Registers, Moves, memory, manager
  <2>3. TypeOK'
    BY <2>1, <2>2 DEF IdentityInv, TypeOK, Phases
  <2>4. \A e \in Devices : /\ owner'[e] # Absent => owner'[e] = keyFile
                           /\ owner[e] # Absent => owner'[e] # Absent
    BY <2>1, <2>2 DEF IdentityInv, TypeOK, RegisteredKey
  <2>5. \A q \in Procs : ProcInv(q)'
    <3>1. ProcInv(p)'
      BY <2>1, <2>2 DEF IdentityInv, TypeOK, ProcInv, Keyless
    <3>2. ASSUME NEW q \in Procs \ {p} PROVE ProcInv(q)'
      <4>1. at'[q] = at[q] /\ ProcInv(q)
        BY <2>2 DEF IdentityInv, TypeOK
      <4> QED BY <4>1, <2>2, <2>4 DEF ProcInv
    <3> QED BY <3>1, <3>2
  <2>6. OneWriter'
    BY <2>2 DEF IdentityInv, TypeOK, OneWriter
  <2>7. RegisteredKey'
    BY <2>2, <2>4, FilesAssumption DEF IdentityInv, RegisteredKey
  <2> QED BY <2>3, <2>5, <2>6, <2>7 DEF IdentityInv
<1>2. ASSUME NEW p \in Procs, EnrollRefused(p)
      PROVE  IdentityInv'
  BY <1>2, GoesOnKeeps DEF EnrollRefused, Keyless, files, server, IdentityInv, RegisteredKey
<1>3. ASSUME NEW p \in Procs, EnrollGivenUp(p)
      PROVE  IdentityInv'
  <2>1. /\ at[p] = "enrolling" /\ held[p] \in Devices
        /\ mine[p] = keyFile /\ keyFile \in Keys
    BY <1>3, FilesAssumption DEF EnrollGivenUp, IdentityInv, TypeOK, ProcInv, Keyless
  <2>2. /\ late' \subseteq [device : Devices, key : Keys]
        /\ \A m \in late' : m \in late \/ m.key = keyFile
    BY <1>3, <2>1 DEF EnrollGivenUp, LeavesRequest, IdentityInv, TypeOK
  <2>3. TypeOK'
    BY <1>3, <2>2
       DEF EnrollGivenUp, GoesOn, Exits, Moves, Phases, IdentityInv, TypeOK, files, manager
  <2> QED BY <1>3, <2>1, <2>2, <2>3, GoesOnKeeps
      DEF EnrollGivenUp, Keyless, files, IdentityInv, RegisteredKey
<1>4. ASSUME NEW p \in Procs, NameDevice(p)
      PROVE  IdentityInv'
  <2>1. /\ at[p] = "naming" /\ held[p] \in Devices /\ owner[held[p]] # Absent
        /\ UNCHANGED <<keyFile, tokenFile, server, manager>>
    BY <1>4 DEF NameDevice, IdentityInv, ProcInv
  <2>2. PICK phase \in {"forget", "connect"} :
          GoesOn(p, phase) /\ (deviceId' = held[p] \/ deviceId' = deviceId)
    BY <1>4 DEF NameDevice
  <2>3. TypeOK'
    BY <2>1, <2>2 DEF GoesOn, Exits, Moves, Phases, IdentityInv, TypeOK, server, manager
  <2> QED BY <2>1, <2>2, <2>3, GoesOnKeeps DEF Keyless, IdentityInv, RegisteredKey, server
<1>5. CASE LateEnrollment
  <2>1. PICK m \in late : Registers(m.device, m.key) /\ late' = late \ {m}
                         /\ UNCHANGED <<files, at, memory, manager>>
    BY <1>5 DEF LateEnrollment
  <2> QED BY <2>1, RegistersKeeps DEF files, IdentityInv, TypeOK, RegisteredKey
<1> QED BY <1>1, <1>2, <1>3, <1>4, <1>5


\* Bootstrap, activation and connection never touch the key file.
LEMMA RequestKeeps ==
    ASSUME IdentityInv,
           \/ \E p \in Procs : Activate(p) \/ ActivateAccepted(p) \/ ActivateFailed(p)
           \/ Loop \/ ConnectAccepted \/ ConnectionEnds
           \/ \E p \in Commands, d \in Devices : EnrollCommand(p, d)
    PROVE  IdentityInv'
<1>1. ASSUME NEW p \in Procs, Activate(p)
      PROVE  IdentityInv'
  BY <1>1, ReadsDeviceKeeps DEF Activate, Keyless
<1>2. ASSUME NEW p \in Procs, ActivateAccepted(p)
      PROVE  IdentityInv'
  <2>1. TypeOK'
    BY <1>2 DEF ActivateAccepted, GoesOn, Exits, Moves, Phases, IdentityInv, TypeOK, files, manager
  <2> QED BY <1>2, <2>1, GoesOnKeeps
      DEF ActivateAccepted, Keyless, files, IdentityInv, RegisteredKey
<1>3. ASSUME NEW p \in Procs, ActivateFailed(p)
      PROVE  IdentityInv'
  BY <1>3, GoesOnKeeps DEF ActivateFailed, Keyless, files, server, IdentityInv, RegisteredKey
<1>4. "run" \in Procs
  BY DEF Procs
<1>5. CASE Bootstrap
  <2>1. CASE MayEnroll
    <3>1. tokenFile \in Devices
      BY <2>1 DEF MayEnroll, IdentityInv, TypeOK
    <3> QED BY <1>4, <1>5, <2>1, <3>1, MovesKeeps DEF Bootstrap, Keyless, files
  <2>2. CASE ~MayEnroll
    BY <1>4, <1>5, <2>2, MovesKeeps DEF Bootstrap, Keyless, files, IdentityInv, TypeOK
  <2> QED BY <2>1, <2>2
<1>6. CASE ForgetToken
  BY <1>4, <1>6, MovesKeeps DEF ForgetToken, Keyless, memory, IdentityInv, TypeOK
<1>7. CASE Connect
  BY <1>4, <1>7, ReadsDeviceKeeps DEF Connect, Keyless
<1>8. CASE WaitOver
  BY <1>4, <1>8, MovesKeeps DEF WaitOver, Keyless, files, memory, IdentityInv, TypeOK
<1>9. CASE ConnectAccepted
  BY <1>4, <1>9, GoesOnKeeps
     DEF ConnectAccepted, Keyless, files, server, IdentityInv, RegisteredKey
<1>10. CASE ConnectionEnds
  BY <1>4, <1>10, GoesOnKeeps
     DEF ConnectionEnds, Keyless, files, server, IdentityInv, RegisteredKey
<1>11. ASSUME NEW p \in Commands, NEW d \in Devices, EnrollCommand(p, d)
       PROVE  IdentityInv'
  BY <1>11, MovesKeeps DEF EnrollCommand, Keyless, files, IdentityInv, TypeOK, Procs
<1> QED BY <1>1, <1>2, <1>3, <1>5, <1>6, <1>7, <1>8, <1>9, <1>10, <1>11 DEF Loop

\* A killed or stopped process leaves files that agree with the server.
LEMMA DisruptionKeeps ==
    ASSUME IdentityInv, (\E p \in Procs : Kill(p)) \/ StopAsked \/ ShutsDown
    PROVE  IdentityInv'
<1>1. ASSUME NEW p \in Procs, Kill(p)
      PROVE  IdentityInv'
  <2>1. disruptions' \in 0..MaxDisruptions
    BY <1>1, FilesAssumption DEF Kill, IdentityInv, TypeOK
  <2> QED BY <1>1, <2>1, ExitKeeps DEF Kill
<1>2. CASE StopAsked
  <2>1. disruptions' \in 0..MaxDisruptions
    BY <1>2, FilesAssumption DEF StopAsked, IdentityInv, TypeOK
  <2>2. UNCHANGED <<files, at, memory, server>>
        /\ stopAsked' \in BOOLEAN /\ permit' \in BOOLEAN
    BY <1>2 DEF StopAsked, NotifyOne
  <2>3. TypeOK'
    BY <2>1, <2>2 DEF IdentityInv, TypeOK, files, memory, server
  <2> QED BY <2>2, <2>3 DEF IdentityInv, ProcInv, OneWriter, RegisteredKey, files, memory, server
<1>3. CASE ShutsDown
  <2>1. "run" \in Procs
    BY DEF Procs
  <2> QED BY <1>3, <2>1, ExitKeeps DEF ShutsDown, server, IdentityInv, TypeOK
<1> QED BY <1>1, <1>2, <1>3

\* Nothing the administrator does touches a key.
LEMMA AdministratorKeeps ==
    ASSUME IdentityInv, NEW d \in Devices, Approve(d) \/ TokenExpires(d) \/ PlaceToken(d)
    PROVE  IdentityInv'
<1>1. UNCHANGED <<keyFile, deviceId, at, memory, owner, late>>
  BY DEF Approve, TokenExpires, PlaceToken, files, server
<1>2. TypeOK'
  BY DEF Approve, TokenExpires, PlaceToken, IdentityInv, TypeOK, files, memory, manager, server
<1> QED BY <1>1, <1>2 DEF IdentityInv, ProcInv, OneWriter, RegisteredKey, memory

\* The type invariant and the agreement about the key are inductive together:
\* nothing in memory, under way or registered carries another key than the
\* one on disk.
THEOREM IdentityInvariant == Spec => []IdentityInv
<1>1. IdentityInv /\ [Next]_vars => IdentityInv'
  <2> SUFFICES ASSUME IdentityInv, [Next]_vars PROVE IdentityInv'
    OBVIOUS
  <2>1. CASE UNCHANGED vars
    BY <2>1 DEF vars, files, memory, server, manager, IdentityInv, TypeOK, ProcInv,
       OneWriter, RegisteredKey
  <2>2. CASE Next
    <3>1. ASSUME NEW p \in Procs, Step(p)
          PROVE  IdentityInv'
      BY <3>1, IdentityStepKeeps, EnrollmentKeeps, RequestKeeps DEF Step
    <3> QED BY <2>2, <3>1, IdentityStepKeeps, EnrollmentKeeps, RequestKeeps, DisruptionKeeps,
        AdministratorKeeps DEF Next
  <2> QED BY <2>1, <2>2
<1> QED BY <1>1, InitIdentity, PTL DEF Spec

\* Type correctness, for any keys, devices and commands.
THEOREM TypeCorrect == Spec => []TypeOK
<1>1. IdentityInv => TypeOK
  BY DEF IdentityInv
<1> QED BY <1>1, IdentityInvariant, PTL

\* The device the agent takes itself for is registered with the key it has.
THEOREM DeviceAndKeyAgree == Spec => []DeviceBoundToKey
<1>1. IdentityInv => DeviceBoundToKey
  BY FilesAssumption DEF IdentityInv, TypeOK, RegisteredKey, DeviceBoundToKey
<1> QED BY <1>1, IdentityInvariant, PTL

\* A key, once it is complete, is never replaced: enrolling again, a second
\* process or a restart use the same one.
THEOREM KeyIsKept == Spec => [][(keyFile \in Keys) => (keyFile' = keyFile)]_vars
<1>1. IdentityInv /\ [Next]_vars => [(keyFile \in Keys) => (keyFile' = keyFile)]_vars
  <2> SUFFICES ASSUME IdentityInv, Next, keyFile \in Keys PROVE keyFile' = keyFile
    OBVIOUS
  <2>1. ASSUME NEW p \in Procs, CreateIdentity(p)
        PROVE  keyFile' = keyFile
    BY <2>1, FilesAssumption DEF CreateIdentity, CreatesNew
  <2>2. ASSUME NEW p \in Procs, SaveIdentity(p)
        PROVE  keyFile' = keyFile
    BY <2>2, FilesAssumption DEF SaveIdentity, IdentityInv, ProcInv
  <2> QED BY <2>1, <2>2
      DEF Next, Step, Loop, Start, Kill, LoadIdentity, EnrollAccepted, EnrollRefused,
      EnrollGivenUp, NameDevice, Activate, ActivateAccepted, ActivateFailed, Bootstrap,
      ForgetToken, Connect, WaitOver, ConnectAccepted, ConnectionEnds, StopAsked, ShutsDown,
      LateEnrollment, EnrollCommand, Approve, TokenExpires, PlaceToken, files
<1> QED BY <1>1, IdentityInvariant, PTL DEF Spec
-----------------------------------------------------------------------------
(* One identity (DeviceIdentity).                                          *)

\* A step that leaves the key, the device id and the registrations alone.
LEMMA IdentityStays ==
    ASSUME UNCHANGED <<keyFile, deviceId, owner>>
    PROVE  UNCHANGED Identity!identity
BY DEF Identity!identity

\* The end of create_new's write is where the key is chosen.
LEMMA SaveChooses ==
    ASSUME IdentityInv, NEW p \in Procs, SaveIdentity(p)
    PROVE  Identity!Next \/ UNCHANGED Identity!identity
<1>1. CASE UNCHANGED keyFile
  BY <1>1, IdentityStays DEF SaveIdentity, server
<1>2. CASE keyFile' = mine[p]
  <2>1. keyFile = Torn /\ mine[p] \in Keys /\ UNCHANGED <<deviceId, owner>>
    BY <1>2 DEF SaveIdentity, IdentityInv, TypeOK, ProcInv, Keyless, server
  <2>2. Identity!ChooseKey
    BY <1>2, <2>1, FilesAssumption DEF Identity!ChooseKey
  <2> QED BY <2>2 DEF Identity!Next
<1> QED BY <1>1, <1>2 DEF SaveIdentity

\* The server registers the agent's key, for a device that has none.
LEMMA RegistersIs ==
    ASSUME IdentityInv, NEW d \in Devices, status[d] = "issued" => owner[d] = Absent,
           keyFile \in Keys, Registers(d, keyFile), UNCHANGED keyFile,
           deviceId' \in {deviceId, Torn}, UNCHANGED owner => UNCHANGED deviceId
    PROVE  Identity!Next \/ UNCHANGED Identity!identity
<1>1. CASE status[d] = "issued"
  <2>1. owner' = [owner EXCEPT ![d] = keyFile]
    BY <1>1 DEF Registers
  <2>2. Identity!Register(d)
    BY <1>1, <2>1, FilesAssumption DEF Identity!Register
  <2> QED BY <2>2 DEF Identity!Next
<1>2. CASE status[d] # "issued"
  BY <1>2, IdentityStays DEF Registers
<1> QED BY <1>1, <1>2

\* A token is taken once: a device without a registration has not used it.
IssuedOnce == \A d \in Devices : status[d] = "issued" => owner[d] = Absent

LEMMA IssuedOnceHolds == Spec => []IssuedOnce
<1>1. Init => IssuedOnce
  BY DEF Init, IssuedOnce
<1>2. IdentityInv /\ IssuedOnce /\ [Next]_vars => IssuedOnce'
  <2> SUFFICES ASSUME IdentityInv, IssuedOnce, [Next]_vars PROVE IssuedOnce'
    OBVIOUS
  <2>1. CASE UNCHANGED <<status, owner>>
    BY <2>1 DEF IssuedOnce
  <2>2. ASSUME NEW d \in Devices, NEW k, Registers(d, k)
        PROVE  IssuedOnce'
    BY <2>2 DEF IdentityInv, TypeOK, IssuedOnce, Registers
  <2>3. ASSUME NEW d \in Devices, NEW state \in {"approved", "expired", "active"},
               status' = [status EXCEPT ![d] = state], UNCHANGED owner
        PROVE  IssuedOnce'
    BY <2>3 DEF IdentityInv, TypeOK, IssuedOnce
  <2>4. ASSUME NEW p \in Procs, EnrollAccepted(p) \/ ActivateAccepted(p)
        PROVE  IssuedOnce'
    <3>1. held[p] \in Devices
      BY <2>4 DEF EnrollAccepted, ActivateAccepted, IdentityInv, ProcInv
    <3> QED BY <2>2, <2>3, <2>4, <3>1 DEF EnrollAccepted, ActivateAccepted
  <2>5. CASE LateEnrollment
    BY <2>2, <2>5 DEF LateEnrollment, IdentityInv, TypeOK
  <2>6. ASSUME NEW d \in Devices, Approve(d) \/ TokenExpires(d) \/ PlaceToken(d)
        PROVE  IssuedOnce'
    BY <2>1, <2>3, <2>6 DEF Approve, TokenExpires, PlaceToken, server
  <2> QED BY <2>1, <2>4, <2>5, <2>6
      DEF Next, Step, Loop, Start, Kill, LoadIdentity, CreateIdentity, SaveIdentity, EnrollRefused,
      EnrollGivenUp, NameDevice, Activate, ActivateFailed, Bootstrap, ForgetToken, Connect,
      WaitOver, ConnectAccepted, ConnectionEnds, StopAsked, ShutsDown, EnrollCommand, files,
      server, vars
<1> QED BY <1>1, <1>2, IdentityInvariant, PTL DEF Spec

\* The files, the late requests and the processes killed beside each other
\* implement one identity, for any keys, devices, commands and kills.
THEOREM ImplementsIdentity == Spec => IdentitySpec
<1>1. Init => Identity!Init
  BY FilesAssumption DEF Init, Identity!Init
<1>2. IdentityInv /\ IssuedOnce /\ [Next]_vars => [Identity!Next]_(Identity!identity)
  <2> SUFFICES ASSUME IdentityInv, IssuedOnce, [Next]_vars
               PROVE  Identity!Next \/ UNCHANGED Identity!identity
    OBVIOUS
  <2>1. CASE UNCHANGED <<keyFile, deviceId, owner>>
    BY <2>1, IdentityStays
  <2>2. ASSUME NEW p \in Procs, CreateIdentity(p)
        PROVE  Identity!Next \/ UNCHANGED Identity!identity
    BY <2>2 DEF CreateIdentity, CreatesNew, Identity!identity, server
  <2>3. ASSUME NEW p \in Procs, SaveIdentity(p)
        PROVE  Identity!Next \/ UNCHANGED Identity!identity
    BY <2>3, SaveChooses
  <2>4. ASSUME NEW p \in Procs, EnrollAccepted(p)
        PROVE  Identity!Next \/ UNCHANGED Identity!identity
    <3>1. held[p] \in Devices /\ mine[p] = keyFile /\ keyFile \in Keys
      BY <2>4, FilesAssumption DEF EnrollAccepted, IdentityInv, TypeOK, ProcInv, Keyless
    <3>2. owner[held[p]] = Absent /\ owner' = [owner EXCEPT ![held[p]] = keyFile]
      BY <2>4, <3>1 DEF EnrollAccepted, Registers, IssuedOnce
    <3>3. owner' # owner
      BY <3>1, <3>2, FilesAssumption DEF IdentityInv, TypeOK
    <3> QED BY <2>4, <3>1, <3>2, <3>3, RegistersIs DEF EnrollAccepted
  <2>5. CASE LateEnrollment
    <3>1. PICK m \in late : Registers(m.device, m.key) /\ UNCHANGED files
      BY <2>5 DEF LateEnrollment
    <3>2. m.device \in Devices /\ m.key = keyFile /\ keyFile \in Keys
      BY DEF IdentityInv, TypeOK, RegisteredKey
    <3> QED BY <3>1, <3>2, RegistersIs DEF IssuedOnce, files
  <2>6. ASSUME NEW p \in Procs, NameDevice(p)
        PROVE  Identity!Next \/ UNCHANGED Identity!identity
    <3>1. CASE UNCHANGED deviceId
      BY <2>6, <3>1, IdentityStays DEF NameDevice, server
    <3>2. CASE deviceId' = held[p]
      <4>1. /\ held[p] \in Devices /\ owner[held[p]] = keyFile /\ keyFile \in Keys
            /\ UNCHANGED <<keyFile, owner>>
        BY <2>6, FilesAssumption
           DEF NameDevice, IdentityInv, TypeOK, ProcInv, RegisteredKey, Keyless, server
      <4>2. Identity!Rename(held[p])
        BY <3>2, <4>1, FilesAssumption DEF Identity!Rename
      <4> QED BY <4>1, <4>2 DEF Identity!Next
    <3> QED BY <2>6, <3>1, <3>2 DEF NameDevice
  <2> QED BY <2>1, <2>2, <2>3, <2>4, <2>5, <2>6
      DEF Next, Step, Loop, Start, Kill, LoadIdentity, EnrollRefused, EnrollGivenUp, Activate,
      ActivateAccepted, ActivateFailed, Bootstrap, ForgetToken, Connect, WaitOver,
      ConnectAccepted, ConnectionEnds, StopAsked, ShutsDown, EnrollCommand, Approve,
      TokenExpires, PlaceToken, files, server, vars
<1> QED BY <1>1, <1>2, IdentityInvariant, IssuedOnceHolds, PTL
    DEF Spec, IdentitySpec, Identity!Spec
=============================================================================

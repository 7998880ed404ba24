--------------------------- MODULE DeviceIdentity ---------------------------
(***************************************************************************)
(* What provisioning promises about a device's identity: one key for ever, *)
(* registered for a device at most once and never exchanged, and a name    *)
(* that is only ever that of a device registered with the key.             *)
(***************************************************************************)
CONSTANTS
    Keys,
    Devices,
    None     \* no key, no owner, no name

VARIABLES
    key,     \* the agent's key
    owner,   \* device -> the key registered for it
    name     \* the device the agent takes itself for

identity == <<key, owner, name>>

Init ==
    /\ key = None /\ name = None
    /\ owner = [d \in Devices |-> None]

ChooseKey ==
    /\ key = None
    /\ key' \in Keys
    /\ UNCHANGED <<owner, name>>

\* The agent's name is unsettled from the registration on.
Register(d) ==
    /\ key # None /\ owner[d] = None
    /\ owner' = [owner EXCEPT ![d] = key]
    /\ name' \in {name, None}
    /\ UNCHANGED key

Rename(d) ==
    /\ key # None /\ owner[d] = key
    /\ name' = d
    /\ UNCHANGED <<key, owner>>

Next == ChooseKey \/ \E d \in Devices : Register(d) \/ Rename(d)

Spec == Init /\ [][Next]_identity
=============================================================================

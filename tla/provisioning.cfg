SPECIFICATION FairSpec
CONSTANTS
    Keys = {k1, k2}
    Devices = {d1, d2}
    Commands = {"command"}
    Absent = Absent
    Torn = Torn
    MaxDisruptions = 1
INVARIANTS TypeOK
PROPERTIES IdentitySpec Provisioned StopEnds

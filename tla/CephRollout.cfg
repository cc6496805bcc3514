CONSTANTS
    Null = Null
    Orphan = Orphan
    Daemons <- MCDaemons
    Hosts <- MCHosts
    Template <- MCTemplate
    CustomFiles <- MCCustomFiles
    HostFiles <- MCHostFiles
    Wants <- MCWants
    FirstWant <- MCFirstWant
    MaxPlays = 2
    MaxEdits = 2
    MaxFaults = 1
SPECIFICATION Spec
INVARIANTS
    TypeOK
    RolloutTakesEffect
    MergeMeans
PROPERTIES
    RestartsAreSafe
CHECK_DEADLOCK FALSE

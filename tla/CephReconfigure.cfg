CONSTANTS
    Null = Null
    Orphan = Orphan
    Daemons <- MCTwoDaemons
    Hosts <- MCHosts
    Template <- MCTemplate
    CustomFiles <- MCOneFile
    HostFiles <- MCHostFiles
    Wants <- MCReconfigureWants
    FirstWant <- MCFirstWant
    MaxPlays = 2
    MaxEdits = 2
    MaxFaults = 1
SPECIFICATION Spec
INVARIANTS
    ReconfigureTakesEffect
CHECK_DEADLOCK FALSE

SPECIFICATION Spec
CONSTANTS
    Inventories <- MCInventories
    None = None
    Text <- MCText
    Leftovers <- MCLeftovers
    Entities <- MCEntities
    Osds <- MCOsds
    FsPools <- MCFsPools
    OtherPools <- MCOtherPools
    Pool <- MCPool
    MaxPlays = 3
    MaxEdits = 1
    MaxFaults = 1
INVARIANTS
    TypeOK
    OneCluster
    KeyringsInForce
    CephAsAsked
\* Plays, edits and faults are bounded: with none left the hosts rest.
CHECK_DEADLOCK FALSE

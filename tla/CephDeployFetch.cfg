SPECIFICATION Spec
CONSTANTS
    Inventories <- MCInventories
    None = None
    Text <- MCText
    Leftovers <- MCLeftovers
    Entities <- MCEntities
    Osds <- MCOsds
    FsPools <- MCFsPools
    OtherPools <- MCOtherPools
    Pool <- MCPool
    MaxPlays = 1
    MaxEdits = 0
    MaxFaults = 0
PROPERTY OnlyFetches
\* Plays, edits and faults are bounded: with none left the hosts rest.
CHECK_DEADLOCK FALSE

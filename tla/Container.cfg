CONSTANTS
    Null = Null
    Absent = Absent
    Self = Self
    Paths <- MCPaths
    ImageLabels <- MCImageLabels
    Texts <- MCTexts
    Amounts <- MCAmounts
    Entrypoint <- MCEntrypoint
    DefaultCommand <- MCDefaultCommand
    Gigabyte = Gigabyte
    Number = Number
    Listed <- MCListed
    Asked <- MCAsked
    Entries <- MCEntries
    Shapes <- MCShapes
    FirstShapes <- MCFirstShapes
    FirstImages <- MCFirstImages
    LastImage = 2
    MaxCalls = 2
    MaxEdits = 1
    MaxFaults = 1
SPECIFICATION Spec
INVARIANTS
    TypeOK
    Delivered
    RepeatIsQuiet
    ConfigTakesEffect
    ServiceConfigured
    ChangesReported
PROPERTIES
    OnceImmutable
    CallEnds
CHECK_DEADLOCK FALSE

CONSTANTS
    foo = foo
    bar = bar
    Parts <- AllParts
    NoPart = "none"
    DiskOf <- Disks
    Num <- Nums
    InFacts <- Reported
    Listing <- Devices
    Names = {foo, bar}
    NoName = noname
    Layouts <- Labellings
    WipeConfirmed = FALSE
    MaxFailures = 2
    MaxAborts = 1
SPECIFICATION Spec
INVARIANTS
    TypeOK
    UserDataKept
    LabelsTellTheTruth
    LabelsHonoured
PROPERTY
    CompleteKept

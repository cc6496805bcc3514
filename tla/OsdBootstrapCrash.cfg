CONSTANTS
    foo = foo
    bar = bar
    Parts <- AllParts
    NoPart = "none"
    DiskOf <- Disks
    Num <- Nums
    InFacts <- Reported
    Listing <- Devices
    Names = {foo, bar}
    NoName = noname
    Layouts <- OneLabelling
    WipeConfirmed = FALSE
    MaxFailures = 1
    MaxAborts = 0
SPECIFICATION Spec
INVARIANT SeparateBlock

CONSTANTS
    Images = {"base", "left", "right"}
    NoImage = "none"
    Parent <- Fork
    Builders = {b1, b2}
    Pushers = {p1}
    Retries = 1
    Push = TRUE
    Plans <- MatchedOrCached
    BuildErrors = {"error"}
    PushErrors = {"push_error"}
    MaxInterrupts = 0
SPECIFICATION Spec
SYMMETRY Threads
INVARIANTS
    TypeOK
    UnfinishedCounts
    ShutdownAfterWork
    OneBuildAtATime
    ParentBuiltFirst
    ParentErrorOnlyFromPush
    BuildsBounded
    NothingAbandoned
    GoodIsDelivered
PROPERTY
    BuiltStaysBuilt

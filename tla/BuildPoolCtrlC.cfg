CONSTANTS
    Images = {"base"}
    NoImage = "none"
    Parent <- Alone
    Builders = {b1, b2}
    Pushers = {p1}
    Retries = 0
    Push = TRUE
    Plans <- AllMatched
    BuildErrors = {"error"}
    PushErrors = {"push_error"}
    MaxInterrupts = 3
SPECIFICATION Spec
INVARIANT
    ReportIsFinal
PROPERTY
    Terminates

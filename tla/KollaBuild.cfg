CONSTANTS
    Images = {"base", "ceph-base", "ceph-mon"}
    NoImage = "none"
    Parent <- Chain
    Orders <- WalkOrders
    Builders = {b1, b2}
    Pushers = {p1}
    Retries = 0
    Push = FALSE
    BuildErrors = {"error"}
    PushErrors = {"push_error"}
    MaxInterrupts = 0
SPECIFICATION Spec
SYMMETRY Threads
INVARIANTS
    PlanTypeOK
    RequestedNotDropped
    PlanIsClosure
    MatchedHandedOnce
    CachedNotMatched
    RequestedAnswered
    BuildsDisciplined

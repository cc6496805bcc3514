CONSTANTS
    Images = {"base", "ceph-base", "ceph-mon"}
    NoImage = "none"
    Parent <- Chain
    Orders <- WalkOrders
    Builders = {b1}
    Pushers = {p1}
    Retries = 0
    Push = FALSE
    BuildErrors = {"error"}
    PushErrors = {"push_error"}
    MaxInterrupts = 0
SPECIFICATION Spec
INVARIANT RequestedTried

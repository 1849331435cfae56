SPECIFICATION Spec
CONSTANTS
    Second = 2
    Ttls <- SmallTtls
    PayTimeout = 2
    PayInterval = 1
    PaidTimeout = 2
    PaidInterval = 1
    RpcTimeout = 1
    ServiceTimeout = 3
    Tolerated = 1
    Gateways <- BothGateways
    Skews <- SmallSkews
    MaxBind = 1
    MaxThink = 1
    MaxTravel = 1
INVARIANTS
    TimelyIsHonoured
    CallIsBounded
    TimelyIsSeen
    InvoiceFollowsChallenge
PROPERTIES
    CallEnds
CHECK_DEADLOCK FALSE

SPECIFICATION EmailLiveSpec
CONSTANTS
    Scenarios = {"resolve"}
    Requests = {r1, r2}
    Keys = {k1, k2}
    Workers = {w1, w2, w3}
    Operations = {"createSession", "registerDevice", "revokeDevice"}
    Ranks = {1, 2}
    Named = 2
PROPERTIES
    DeliveriesResolve
CHECK_DEADLOCK FALSE

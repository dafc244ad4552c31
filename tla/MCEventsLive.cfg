SPECIFICATION OutboxFairSpec
CONSTANTS
    Scenarios = {"outbox"}
    Publishers = {p1, p2}
    Events = {1}
    Registered = {1}
    ClaimLimit = 1
    Lease = 1
    MinRetry = 1
    MaxRetry = 1
    MaxFaults = 1
    Workers = {w1, w2}
    Keys = {k1, k2}
    Digests = {d1, d2}
    Bodies = {b1, b2}
PROPERTIES
    DeliveryFinishes

SPECIFICATION ScenarioSpec
CONSTANTS
    Scenarios = {"outbox", "once", "contracts", "documents", "escapes", "schemas", "transcripts", "frames"}
    Publishers = {p1, p2}
    Events = {1, 2}
    Registered = {2}
    ClaimLimit = 1
    Lease = 1
    MinRetry = 1
    MaxRetry = 1
    MaxFaults = 1
    Workers = {w1, w2}
    Keys = {k1, k2}
    Digests = {d1, d2}
    Bodies = {b1, b2}
SYMMETRY Symmetry
INVARIANTS
    EventsAreSound
    ReadersAreStrict
    LayoutsAreUnambiguous
PROPERTIES
    DeliverySafety
    ExactlyOnceSpec
CHECK_DEADLOCK FALSE

SPECIFICATION ScenarioSpec
CONSTANTS
    Scenarios = {"rotation", "grace", "password", "revocation", "delivery", "trial", "reset", "locks"}
    Requests = {r1, r2}
    Keys = {k1, k2}
    Workers = {w1, w2, w3}
    Operations = {"createSession", "recover", "verifyEmail", "registerDevice", "rotateDevice"}
    Ranks = {1, 2}
    Named = 2
SYMMETRY Symmetry
INVARIANTS
    LocksAreSound
PROPERTIES
    SessionsAreSafe
    DeliveriesAreSafe
CHECK_DEADLOCK FALSE

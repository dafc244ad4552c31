SPECIFICATION ScenarioSpec
CONSTANTS
    Scenarios = {"totp", "codes", "register", "login", "ceremony", "enroll", "rotate", "expire", "locks"}
    Requests = {r1, r2}
    Keys = {k1, k2}
    Workers = {w1, w2}
    Operations = {"createSession", "rotateSession", "changePassword", "resetPassword", "verifyEmail", "createDelivery", "createGrant", "rotateCodes", "recover", "totp", "registerPasskey", "passkeyLogin", "registerDevice", "rotateDevice", "revokeDevice", "bundle"}
    Ranks = {1, 2}
    Named = 2
SYMMETRY Symmetry
INVARIANTS
    DeadlockOnlyOnTokens
PROPERTIES
    FactorsAreSafe
    DevicesAreSafe
CHECK_DEADLOCK FALSE

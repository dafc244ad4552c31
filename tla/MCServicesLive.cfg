SPECIFICATION ScenarioFairSpec
CONSTANTS
    Scenarios = {"stopping", "signer", "reports", "drain", "closing", "grants", "staging"}
    Requests = {r1, r2}
INVARIANTS
    SignaturesAreOwn
    ReportsAreKept
PROPERTIES
    EverythingEnds
CHECK_DEADLOCK FALSE

SPECIFICATION ScenarioSpec
CONSTANTS
    Scenarios = {"store", "rotation", "trial", "resolve", "acknowledge", "bootstrap", "publish"}
    Processes = {p1, p2}
    Versions = {1, 2, 3}
    MaxEntries = 12
    MaxFaults = 2
    Clients = {r1, r2}
    Keys = {k1, k2}
SYMMETRY Symmetry
INVARIANTS
    StoreIsSafe
    VerificationIsSound
    MetadataIsSound
PROPERTIES
    ImplementsFloor
    IssuanceIsSound
CHECK_DEADLOCK FALSE

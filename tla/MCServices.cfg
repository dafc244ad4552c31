SPECIFICATION ScenarioSpec
CONSTANTS
    Scenarios = {"calls", "scrapes", "redis", "probes", "ready", "restore", "fields", "request", "unwired", "repeat", "observed", "configuration"}
    Requests = {r1, r2}
SYMMETRY Symmetry
INVARIANTS
    ProcessIsSafe
    ReadinessIsTrue
    FieldsAreSafe
    RequestsAreSound
    ObservationIsTrue
    ConfigurationIsSound
CHECK_DEADLOCK FALSE

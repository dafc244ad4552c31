SPECIFICATION ScenarioSpec
CONSTANTS
    Scenarios = {"claim", "decision", "copies", "codec", "grants", "import", "refused"}
    Kinds = {"grant_create", "grant_claim", "certificate_activate", "certificate_revoke", "identity_epoch_advance", "security_incident_open", "security_incident_resolve", "resource_envelope_activate", "desired_activate", "root_publish"}
    Reservations = {"v1", "v2"}
    Activations = {"act1", "act2"}
    Released = {"act1"}
    Bindings = {"b1"}
    Reasons = {"superseded"}
    Times <- MCTimes
INVARIANTS
    SealCoversSource
    RetriesAreIdempotent
    StoredFenceIsOneInstant
    RowsLeadOn
    DecisionIsSound
PROPERTIES
    FenceAndOwnerAgree
    MigrationIsSafe
    ImportIsExact
CHECK_DEADLOCK FALSE

SPECIFICATION Spec
CONSTANTS
    Callers = {c1, c2, c3}
    Reconciler = c1
    Ops = {o1}
    NoOp = NoOp
    Digests = {d1, d2}
    NoDigest = NoDigest
    Reasons = {validationFailed, superseded}
    ValidationFailed = validationFailed
    NoReason = NoReason
SYMMETRY Symmetry
INVARIANTS
    RowFollowsProvider
    CommitIsBacked
    OneReceipt
PROPERTIES
    OutcomeSpec

SPECIFICATION Spec
CONSTANTS
    Callers = {c1, c2}
    Reconciler = c1
    Ops = {o1}
    NoOp = NoOp
    Digests = {d1}
    NoDigest = NoDigest
    Reasons = {validationFailed}
    ValidationFailed = validationFailed
    NoReason = NoReason
SYMMETRY Symmetry
INVARIANTS
    AbortedHasNoEffect

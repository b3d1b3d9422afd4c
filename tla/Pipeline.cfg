SPECIFICATION Spec
CONSTANTS
    v1 = v1
    v2 = v2
    i1 = i1
    i2 = i2
    v3 = v3
    None = None
    Images = {i1}
    ImageOf <- MCImageOf
    KeyRank <- MCKeyRank
    Variants = {v1}
    Requests = {r1, r2}
    HeadRequests = {}
    Workers = {w1, w2}
    Deleters = {}
    Uploaded = {i1}
    Cached = {}
    PageSize = 1
    MaxAttempts = 3
    MaxFaults = 1
INVARIANTS TypeOK SingleJob FailedExhausted AttemptsWithinBudget
PROPERTIES JobKept
SYMMETRY MCSymmetry
CHECK_DEADLOCK FALSE

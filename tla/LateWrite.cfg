SPECIFICATION Spec
CONSTANTS
    v1 = v1
    v2 = v2
    i1 = i1
    i2 = i2
    v3 = v3
    None = None
    Images = {i1}
    ImageOf <- MCImageOf
    KeyRank <- MCKeyRank
    Variants = {v1}
    Requests = {r1}
    HeadRequests = {}
    Workers = {}
    Deleters = {d1}
    Uploaded = {i1}
    Cached = {}
    PageSize = 1
    MaxAttempts = 3
    MaxFaults = 0
INVARIANT DeleteLeavesNothing
CHECK_DEADLOCK FALSE

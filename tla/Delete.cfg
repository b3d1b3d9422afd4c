SPECIFICATION CastSpec
CONSTANTS
    v1 = v1
    v2 = v2
    v3 = v3
    i1 = i1
    i2 = i2
    r1 = r1
    r2 = r2
    h1 = h1
    w1 = w1
    d1 = d1
    d2 = d2
    None = None
    Images = {i1, i2}
    ImageOf <- MCImageOf
    KeyRank <- MCKeyRank
    Variants = {v1, v2, v3}
    Requests = {r1, r2, h1}
    HeadRequests = {h1}
    Workers = {w1}
    Deleters = {d1, d2}
    Uploaded = {i1, i2}
    Cached = {v2, v3}
    Casts <- DeleteCasts
    PageSize = 1
    MaxAttempts = 1
    MaxFaults = 1
INVARIANTS DeletedRowsGone RowOutlivesOriginal ReadyHasObject
PROPERTIES NotFoundIsTrue ImplementsCache
SYMMETRY CastSymmetry
CHECK_DEADLOCK FALSE

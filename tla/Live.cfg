SPECIFICATION FairCastSpec
CONSTANTS
    v1 = v1
    v2 = v2
    v3 = v3
    i1 = i1
    i2 = i2
    r1 = r1
    r2 = r2
    h1 = h1
    w1 = w1
    d1 = d1
    d2 = d2
    None = None
    Images = {i1}
    ImageOf <- MCImageOf
    KeyRank <- MCKeyRank
    Variants = {v1, v2}
    Requests = {r1, h1}
    HeadRequests = {h1}
    Workers = {w1}
    Deleters = {d1}
    Uploaded = {i1}
    Cached = {v2}
    Casts <- LiveCasts
    PageSize = 1
    MaxAttempts = 2
    MaxFaults = 1
PROPERTIES EveryRequestEnds EveryJobSettles EveryDeleteEnds
CHECK_DEADLOCK FALSE

SPECIFICATION Spec
CONSTANTS
    i1 = i1
    i2 = i2
    i3 = i3
    u1 = u1
    c1 = c1
    v1 = v1
    Images = {i1, i2, i3}
    Variants = {v1}
    ImageOf <- MCImageOf
    KeyRank <- MCKeyRank
    NewId <- MCNewId
    Uploads = {u1}
    Copies = {c1}
    Deleters = {d1, d2}
    Uploaded = {i1}
    Cached = {v1}
    PageSize = 1
    MaxFaults = 1
INVARIANTS TypeOK CreatedIsStored RowHasOriginal UnnamedIsUnfinished
SYMMETRY MCSymmetry
CHECK_DEADLOCK FALSE

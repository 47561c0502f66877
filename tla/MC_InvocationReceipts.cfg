SPECIFICATION MCSpec
CONSTANTS
    Proc = {p1, p2, f1, f2}
    Frail = {f1, f2}
    Id = {i1, i2}
    Call = {c1, c2, c3}
    i1 = i1
    p1 = p1
    p2 = p2
    f1 = f1
    f2 = f2
    Plugin = {x}
    Desktop = {y}
    Command = {w}
    Keys = {z}
    Nobody = Nobody
    Capacity = 1
    StorageFaults = TRUE
    LongCalls = FALSE
SYMMETRY Interchangeable
INVARIANT ReceiptsAreSound
PROPERTY RepliesAreTrue
CHECK_DEADLOCK FALSE

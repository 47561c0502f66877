\* Two connections of two devices, two resets, bans and an eviction.
SPECIFICATION LiveSpec
CONSTANTS
    Device = {d1, d2}
    Conn = {c1, c2}
    Reset = {r1, r2}
    MaxChal = 1
    Evictions = 1
    InOrder = TRUE
    Nobody = Nobody
CHECK_DEADLOCK FALSE
INVARIANT LockedOut
 
PROPERTY ResetEnds

\* One process after the other on a healthy disk: no delivery is dropped.  One frame under way,
\* one late drain, two lost sockets or switch-offs.
SPECIFICATION MCSpec
CONSTANTS
    Nobody = Nobody
    Proc = {p1, p2}
    Key = {k1}
    Input = {i1}
    Call = {c1, c2}
    Query = {}
    Exit = {0}
    Capacity = 1
    Faulty = {}
    Hasty = {}
    MaxWire = 1
    MaxLate = 1
    MaxBreaks = 2
CHECK_DEADLOCK FALSE
PROPERTY DeliveriesSettle
 
 

SPECIFICATION MCSpec
CONSTANTS
    Nobody = Nobody
    Proc = {p1, p2, h1, h2}
    p1 = p1
    p2 = p2
    h1 = h1
    h2 = h2
    Hasty = {h1, h2}
    Key = {k1, k2, g1}
    Faulty = {k1, k2}
    Input = {i1, i2}
    Call = {c1, c2}
    Query = {q1}
    Exit = {0, 2}
    Capacity = 2
SYMMETRY Symmetric
INVARIANT OperationIsSafe
INVARIANT AnswersAreTrue
 
PROPERTY ImplementsOnce
CHECK_DEADLOCK FALSE

\* A session and two logins; an MCP session of either transport.
SPECIFICATION MCSpec
CONSTANTS
    s1 = s1
    p1 = p1
    p2 = p2
    Sess = {s1}
    Pend = {p1, p2}
    Order <- InOrderOfKeys
    Idle = 3
    MaxAge = 5
    Touch = 2
    PendTtl = 2
    SourceLimit = 1
    Reconcile = 3
    Batch = 1
    MaxNow = 7
    MaxCrash = 1
    MaxLegacy = 1
    m1 = m1
    m2 = m2
    m3 = m3
    f1 = f1
    f2 = f2
    Msg = {m1, m2, m3}
    KindOf <- Kinds
    Sse = {f1, f2}
    IdleMs = 2
    TouchMs = 2
    McpMaxAge = 5
    QueueLimit = 2
    McpMaxNow = 6
    MaxLost = 1
    d1 = d1
    d2 = d2
    w1 = w1
    w2 = w2
    w3 = w3
    q1 = q1
    q2 = q2
    u1 = u1
    u2 = u2
    Nil = Nil
    Dev = {d1, d2}
    Sock = {w1, w2, w3}
    Req = {q1, q2}
    UserOf <- Users
    DevOf <- Devices
    Names = {d1}
    MaxTokens = 1
    MaxFrames = 2
CHECK_DEADLOCK FALSE
INVARIANT ExpiryIsSound
INVARIANT McpIsSound
PROPERTY SessionsLast
PROPERTY McpEnds
 
PROPERTY AppKeeps

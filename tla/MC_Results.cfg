\* One job, two callers; two jobs in small caches; two attempts to connect.
SPECIFICATION ResultsSpec
CONSTANTS
    op1 = op1
    Op = {op1}
    Anon = Anon
    corr1 = corr1
    Corr = {corr1}
    call1 = call1
    call2 = call2
    Call = {call1, call2}
    Reuse = FALSE
    MaxRuns = 2
    MaxFrames = 1
    MaxReads = 1
    MaxResets = 1
    oper1 = oper1
    oper2 = oper2
    Operator = {oper1, oper2}
    job1 = job1
    job2 = job2
    Job = {job1, job2}
    OpOf <- MCOpOf
    Recoverable = {job1}
    NoJob = NoJob
    NoSock = NoSock
    sock1 = sock1
    sock2 = sock2
    Sock = {sock1, sock2}
    MaxEntries = 2
    MaxBytes = 2
    MaxSummaries = 1
    Size <- MCSize
    MaxRestarts = 1
    MaxCalls = 3
    sid1 = sid1
    sid2 = sid2
    own1 = own1
    own2 = own2
    Sid = {sid1, sid2}
    Operators = {own1, own2}
    OwnerOf <- Owners
    Callers = {sid1}
    Limit = 1
    MaxSocket = 2
    dev1 = dev1
    Device = {dev1}
    Conn = {}
    Reset = {}
    MaxChal = 1
    Evictions = 0
    InOrder = TRUE
    Nobody = Nobody
SYMMETRY Symmetry
 
INVARIANT NodeIsSound
INVARIANT RtcIsSound
PROPERTY ResultsAreKept
CHECK_DEADLOCK FALSE

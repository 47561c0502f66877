SPECIFICATION MCSpec
CONSTANTS
    tp = tp
    tc = tc
    tw = tw
    NoTask = NoTask
    Task = {tp, tc}
    Parent <- MCParent
    Assignee <- MCAssignee
    Capacity = 2
    MaxEvents = 8
    MaxRequests = 4
    MaxRev = 2
    MaxLate = 1
    MaxControl = 1
    l1 = l1
    l2 = l2
    LeaderSock = {l1, l2}
    a1 = a1
    ClientSock = {a1}
    k1 = k1
    k2 = k2
    Call = {k1, k2}
    User = User
    From <- MCFrom
    NoSock = NoSock
    MaxPending = 1
    MaxConnections = 2
    say = say
    ask = ask
    Text = {say, ask}
    Messages = {say}
    Limit = 1
    MaxRevision = 3
    MaxIds = 2
    MaxStray = 1
SYMMETRY Symmetry
INVARIANT TasksAreSound
INVARIANT RelayIsSound
INVARIANT ConsoleIsSound
 
CHECK_DEADLOCK FALSE

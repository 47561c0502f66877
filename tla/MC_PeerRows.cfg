\* One row of a tool, two rounds.  run stops when the row has ended.
SPECIFICATION RowSpec
CONSTANTS
    None = None
    Kind <- ToolToDevice
    Initiator = "source"
    MaxRounds = 2
    MailboxMax = 1
    MaxSeq = 0
    Nonce = {n1}
    Fingerprint = {f1}
    Worker = {w1}
CHECK_DEADLOCK FALSE
INVARIANT ProcessesAreSound
 
PROPERTY RowSettles

\* A tool and a device, two rounds, two drains at the signer, a mailbox for one item.
SPECIFICATION Spec
CONSTANTS
    None = None
    Kind <- ToolToDevice
    Initiator = "source"
    MaxRounds = 2
    MailboxMax = 1
    MaxSeq = 0
    Nonce = {n1}
    Fingerprint = {f1, f2}
    Worker = {w1, w2}
CHECK_DEADLOCK FALSE
SYMMETRY Symmetric
INVARIANT RoundsAreBound
INVARIANT JobIsKept
PROPERTY ImplementsLife
PROPERTY EndsAreFinal

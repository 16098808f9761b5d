SPECIFICATION RemoteSpec
CONSTANTS
    m1 = m1
    m2 = m2
    r1 = r1
    r2 = r2
    Payload = {m1, m2, r1, r2}
    Inbound <- MCInbound
    SeqModulus = 3
    KeyShift = 1
    BufferSizes = {1, 2}
    FragLen = 2
    FragTotal = 4
    LenMod = 8
    MaxPush = 3
    MaxAccept = 3
    StrandCap = 2
INVARIANTS
    AckOnlyAccepted
    ResendsAreExact
SYMMETRY Symmetry
CHECK_DEADLOCK FALSE

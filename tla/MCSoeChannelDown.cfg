SPECIFICATION FairChannelSpec
CONSTANTS
    m1 = m1
    m2 = m2
    Payload = {m1, m2}
    Inbound <- ClientDatagrams
    SeqModulus = 8
    KeyShift = 4
    BufferSizes = {2}
    FragLen = 1
    FragTotal = 4
    LenMod = 8
    MaxPush = 3
    MaxAccept = 4
    StrandCap = 2
    InOrderUplink = TRUE
    ClientScript <- NoMessages
    ServerScript <- ThreeMessages
    MaxUplink = 5
 
INVARIANT ClientTakesInOrder
PROPERTY PushedIsSent
CHECK_DEADLOCK FALSE

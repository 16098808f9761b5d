SPECIFICATION FairChannelSpec
CONSTANTS
    m1 = m1
    m2 = m2
    Payload = {m1, m2}
    Inbound <- ClientDatagrams
    SeqModulus = 8
    KeyShift = 4
    BufferSizes = {1}
    FragLen = 1
    FragTotal = 4
    LenMod = 8
    MaxPush = 0
    MaxAccept = 4
    StrandCap = 2
    InOrderUplink = FALSE
    ClientScript <- TwoMessages
    ServerScript <- NoMessages
    MaxUplink = 0
PROPERTY DeliversInOrder
PROPERTY ClientDataArrives
CHECK_DEADLOCK FALSE

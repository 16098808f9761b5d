SPECIFICATION FairSpec
CONSTANTS
    slow = slow
    urgent = urgent
    direct = direct
    Thread = {t1, t2}
    Request = {slow, urgent, direct}
    Default = {attack}
    Queued = {slow, urgent}
    Priority <- TwoPriorities
    MaxChain = 1
    NoCommand = NoCommand
INVARIANT EachRequestOnce
PROPERTY ImplementsFlow
PROPERTY FlowIsReleased
PROPERTY WaitingIsTaken

SPECIFICATION FairSpec
CONSTANTS
    Conns = {c1}
    NoConn = NoConn
    Kinds = {"known"}
    MaxCommands = 2
    Window = 1
    MaxSegments = 2
    RecvMax = 2
    ReplyParts = 2
    Backlog = 1
    MaxSessions = 1
    Faults = FALSE
PROPERTIES
    EveryCommandAnswered
CHECK_DEADLOCK FALSE

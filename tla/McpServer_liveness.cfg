SPECIFICATION FairSpec
CONSTANTS
    Conns = {c1, c2}
    NoConn = NoConn
    Kinds = {"known", "unknown"}
    MaxCommands = 2
    Window = 2
    MaxSegments = 1
    RecvMax = 1
    ReplyParts = 2
    Backlog = 1
    MaxSessions = 1
    Faults = FALSE
INVARIANTS
    ResponseStreamIntact
    NoCommandLost
PROPERTIES
    NeverHangsUpOnLiveTool
    EveryCommandAnswered
    PendingIsServed
    StopTerminatesOutsideCommand
CHECK_DEADLOCK FALSE

SPECIFICATION Spec
CONSTANTS
    Conns = {c1, c2}
    NoConn = NoConn
    Kinds = {"known", "untyped"}
    MaxCommands = 2
    Window = 2
    MaxSegments = 2
    RecvMax = 2
    ReplyParts = 2
    Backlog = 2
    MaxSessions = 2
    Faults = TRUE
SYMMETRY Symmetry
INVARIANTS
    TypeOK
    TaskHandshake
    TaskHasBridge
    ListenerOutlivesThread
    ExecutedOnceInOrder
    RepliesFollowExecution
    ReplyOrder
PROPERTIES
    StopWindsDown
    ImplementsService
CHECK_DEADLOCK FALSE

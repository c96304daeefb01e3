SPECIFICATION Spec
CONSTANTS
    Events = {BeginPlay, Tick}
    NoEvent = NoEvent
    Enums <- SmallEnums
    MinThen = 2
    MaxNodes = 2
    MaxPin = 3
    MaxLinks = 2
INVARIANTS
    TypeOK
    LinksJoinLivePins
    PinsNeverRunOut
PROPERTIES
    EventKeepsItsNode
    ImplementsWiring
CHECK_DEADLOCK FALSE

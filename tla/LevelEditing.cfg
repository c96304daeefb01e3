SPECIFICATION Spec
CONSTANTS
    ToolNames = {t1, t2}
    EngineNames = {e1, e2}
    NoName = NoName
    Blueprints = {B1, B2}
    Plain = Plain
    Components = {c1, c2}
    MaxActors = 3
SYMMETRY Symmetry
INVARIANTS
    TypeOK
    NamesReachTheirActor
    ActorsHaveTheirComponents
    DiesOfDestroyedNamesOnly
PROPERTIES
    ImplementsDirectory

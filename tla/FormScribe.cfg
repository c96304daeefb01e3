SPECIFICATION Spec
CONSTANTS
    Comps = {k1, k2}
    Viewports = {v1}
    Assets = {a1, a2}
    Parts = {p1, p2}
    None = None
SYMMETRY Symmetry
INVARIANTS
    TypeOK
    ShowsItsAsset
    BoundOnceToItsAsset
    NothingLeftBehind
    NoDanglingViewport
PROPERTIES
    ImplementsLiveView
CHECK_DEADLOCK FALSE

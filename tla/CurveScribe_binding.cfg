SPECIFICATION Spec
CONSTANTS
    Scenes = {s1}
    Preview = preview
    Assets = {a1, a2}
    Curves = {short, default, other}
    Short = {short}
    Default = default
    Styles = {noise, plain}
    Unseeded = {plain}
    Draws = {d1, d2}
    MaxBindings = 2
    NoAsset = NoAsset
    NoCurve = NoCurve
    NoStyle = NoStyle
    NoDraw = NoDraw
SYMMETRY Symmetry
INVARIANT
    NoDuplicateBinding
CHECK_DEADLOCK FALSE

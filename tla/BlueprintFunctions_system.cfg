SPECIFICATION Spec
CONSTANTS
    construction = construction
    script = script
    label = label
    move = move
    door = door
    Names <- MCNames
    Parts <- MCParts
    Valid <- MCValid
    Blueprint = door
    Script = script
    Guarded = {label}
    Inputs = {input}
    Outputs = {output}
    Nodes = {node}
    Entry = Entry
    Result = Result
    NoGraph = NoGraph
    MaxFunctions = 3
INVARIANTS
    SystemFunctionsStay
CHECK_DEADLOCK FALSE

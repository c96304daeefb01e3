------------------------ MODULE MCBlueprintFunctions ------------------------
(***************************************************************************)
(* BlueprintFunctions for TLC.                                             *)
(***************************************************************************)
EXTENDS BlueprintFunctions

CONSTANTS construction, script, label, move, door

\* "Construction" is a part of "UserConstructionScript"; "Construction Script", the
\* label, is not: the graph's name has no space. "Door" is the Blueprint.
MCNames == {construction, script, label, move, door}
MCParts == {<<construction, script>>}
MCValid == MCNames \ {label}

=============================================================================

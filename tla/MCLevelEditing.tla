---------------------------- MODULE MCLevelEditing ----------------------------
(***************************************************************************)
(* LevelEditing for TLC.                                                   *)
(***************************************************************************)
EXTENDS LevelEditing, TLC

\* Names of tools are alike, as are names of the engine.
Symmetry == Permutations(ToolNames) \cup Permutations(EngineNames) \cup Permutations(Components)
            \cup Permutations(Blueprints)

=============================================================================

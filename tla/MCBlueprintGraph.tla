--------------------------- MODULE MCBlueprintGraph ---------------------------
(***************************************************************************)
(* BlueprintGraph for TLC.                                                 *)
(***************************************************************************)
EXTENDS BlueprintGraph

\* Two enums that share one entry.
SmallEnums == {{0, 1}, {1, 2}}

=============================================================================

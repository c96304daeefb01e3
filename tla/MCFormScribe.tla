---------------------------- MODULE MCFormScribe -----------------------------
(***************************************************************************)
(* FormScribe for TLC.                                                     *)
(***************************************************************************)
EXTENDS FormScribe, TLC

Symmetry == Permutations(Comps) \cup Permutations(Assets) \cup Permutations(Parts)

=============================================================================

---------------------------- MODULE MCCurveScribe ----------------------------
(***************************************************************************)
(* CurveScribe for TLC.                                                    *)
(***************************************************************************)
EXTENDS CurveScribe, TLC

Symmetry == Permutations(Scenes) \cup Permutations(Assets) \cup Permutations(Draws)

=============================================================================

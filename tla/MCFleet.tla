------------------------------- MODULE MCFleet -------------------------------
(* Model checking of Fleet: the symmetry of its constants.                   *)
EXTENDS Fleet, TLC

Symmetry == Permutations(Submissions) \union Permutations(Workers)
=============================================================================

------------------------- MODULE MCEvaluationManager -------------------------
(* Model checking of EvaluationManager: the symmetry of its constants.       *)
EXTENDS EvaluationManager, TLC

Symmetry == Permutations(Submissions) \union Permutations(Workers)
=============================================================================

------------------------------ MODULE MCDrafts ------------------------------
(* Instances of DraftLifecycle for TLC: two interchangeable sessions.       *)
EXTENDS DraftLifecycle, TLC

SessionSymmetry == Permutations(Sessions)
=============================================================================

---------------------------- MODULE MCRunLifecycle ----------------------------
(* Instances of RunLifecycle for TLC: run ids are interchangeable.           *)
EXTENDS RunLifecycle, TLC

RunSymmetry == Permutations(Runs)
===============================================================================

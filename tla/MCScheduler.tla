---------------------------- MODULE MCScheduler ------------------------------
(* Small instances of UnitGenerationScheduler for TLC. *)
EXTENDS UnitGenerationScheduler, TLC

CONSTANTS u1, u2, u3

\* Two model units compete for one worker or have one each, or two model units
\* and a deterministic one share two workers.
MCTwo == {u1, u2}
MCTwoModels == (u1 :> "model") @@ (u2 :> "model")
MCTwoOrder == <<u1, u2>>

MCThree == {u1, u2, u3}
MCThreeMixed == (u1 :> "model") @@ (u2 :> "model") @@ (u3 :> "deterministic")
MCThreeOrder == <<u1, u2, u3>>

MCNone == {}
MCFirst == {u1}
==============================================================================

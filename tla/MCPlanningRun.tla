---------------------------- MODULE MCPlanningRun ----------------------------
(* Small instances of PlanningRun for TLC. *)
EXTENDS PlanningRun, TLC

CONSTANTS u1, u2, u3

\* One unit generated by the model, one deterministically, one not required.
MCUnits == {u1, u2, u3}
MCMixed == (u1 :> "model") @@ (u2 :> "deterministic") @@ (u3 :> "not_required")
==============================================================================

----------------------------- MODULE PlanningRun -----------------------------
(***************************************************************************)
(* The state machine of one PlanningRun (services/planning_run.py): the    *)
(* pure transitions a run makes from "preparing" to the point where the    *)
(* validated plan may be written as the pending draft, and the validators  *)
(* of services/planning_run_contracts.py as invariants.                    *)
(*                                                                         *)
(* The transitions build the next snapshot with model_copy, which runs no  *)
(* validator; the validators run only when the snapshot is persisted.  So  *)
(* a transition that broke one would make the run impossible to commit.    *)
(*                                                                         *)
(* Each transition is a pair: CanX(r, ...) is the conjunction of the       *)
(* _require checks, X(r, ...) the snapshot it returns.  They are operators *)
(* on a record r so that other modules can evaluate them on a snapshot.    *)
(***************************************************************************)
EXTENDS Naturals, Sequences, FiniteSets

CONSTANTS Units,        \* required_unit_ids of the run
          Strategy,     \* generation_strategy of each unit
          LocalMax,     \* model attempts per round, 3 in the code
          GlobalLimit,  \* global_repair_limit, 2 in the code
          None          \* no identity, no candidate

Strategies == {"model", "deterministic", "not_required"}

\* The units that take part in generation (planning_unit_ids).
Planning == {u \in Units : Strategy[u] \in {"model", "deterministic"}}

\* An attempt is started at most once for a (unit, round, attempt) triple, so
\* the triple stands for the allocated attempt_id as well.
Identity == [unit : Units, round : 1..(GlobalLimit + 1), attempt : 1..LocalMax]

\* A candidate is named by the attempt that produced it; attempt 0 names a
\* candidate recovered from an earlier run, which has no attempt of this run.
CandidateId == [unit : Units, round : 1..(GlobalLimit + 1), attempt : 0..LocalMax]

ASSUME PlanningRunAssumption ==
  /\ Strategy \in [Units -> Strategies]
  /\ LocalMax \in Nat \ {0}
  /\ GlobalLimit \in Nat
  /\ None \notin CandidateId

Statuses == {"not_required", "pending", "generating", "validating",
             "candidate_ready", "round_exhausted", "aborted"}
InFlight == {"generating", "validating"}
RoundEnded == {"candidate_ready", "round_exhausted"}
Phases == {"preparing", "generating_units", "global_check", "assembling",
           "validating", "persisting_pending"}

History == [round : 1..(GlobalLimit + 1), attempt : 0..LocalMax,
            status : RoundEnded, candidate : CandidateId \cup {None}]

UnitState == [status : Statuses, round : 1..(GlobalLimit + 1),
              attempt : 0..LocalMax, total : Nat,
              latest : CandidateId \cup {None}, issues : {"none", "local", "global"},
              history : Seq(History), expected : Identity \cup {None}]

Run == [status : {"active", "failed", "cancelled"}, phase : Phases,
        globalRound : 0..GlobalLimit, globalIssues : BOOLEAN, failure : BOOLEAN,
        units : [Units -> UnitState], valid : SUBSET CandidateId,
        invalid : SUBSET CandidateId, superseded : SUBSET CandidateId]

NewUnit(u) ==
  [status |-> IF u \in Planning THEN "pending" ELSE "not_required",
   round |-> 1, attempt |-> 0, total |-> 0, latest |-> None,
   issues |-> "none", history |-> <<>>, expected |-> None]

NewRun ==
  [status |-> "active", phase |-> "preparing", globalRound |-> 0,
   globalIssues |-> FALSE, failure |-> FALSE,
   units |-> [u \in Units |-> NewUnit(u)],
   valid |-> {}, invalid |-> {}, superseded |-> {}]

------------------------------------------------------------------------------
(* Reading a snapshot *)

Active(r, phases) == r.status = "active" /\ r.phase \in phases

Recorded(r) == r.valid \cup r.invalid \cup r.superseded

UsedAttempts(r) == Recorded(r) \cup {r.units[u].expected : u \in Units}

AllIn(r, S) == \A u \in Planning : r.units[u].status \in S

\* accepts_attempt: a result is taken only while its unit awaits exactly it.
AcceptsAttempt(r, i) == r.status = "active" /\ r.units[i.unit].expected = i

NextAttempt(r, u) == IF Strategy[u] = "model" THEN r.units[u].attempt + 1 ELSE 1

------------------------------------------------------------------------------
(* Unit transitions *)

CanBeginGeneration(r) ==
  /\ Active(r, {"preparing"})
  /\ \A u \in Units : r.units[u].status \in {"pending", "not_required"}

BeginGeneration(r) == [r EXCEPT !.phase = "generating_units"]

CanMarkUnitGenerating(r, i) ==
  /\ Active(r, {"generating_units"})
  /\ r.units[i.unit].status = "pending"
  /\ i.round = r.units[i.unit].round
  /\ i.attempt = NextAttempt(r, i.unit)
  /\ NextAttempt(r, i.unit) <= LocalMax
  /\ i \notin UsedAttempts(r)

\* A bug: a deterministic generation is charged to the model budget.
ChargedToAll(unit, i) ==
  [unit EXCEPT !.status = "generating", !.expected = i,
               !.attempt = i.attempt, !.total = @ + 1]

\* Only the attempts of a model unit count against its budget.
Started(unit, i) ==
  [unit EXCEPT !.status = "generating", !.expected = i,
               !.attempt = IF Strategy[i.unit] = "model" THEN i.attempt ELSE 0,
               !.total = IF Strategy[i.unit] = "model" THEN @ + 1 ELSE @]

MarkUnitGenerating(r, i) ==
  [r EXCEPT !.units[i.unit] = Started(r.units[i.unit], i)]

\* _expected: the unit is in one of the statuses and waits for this attempt.
Expected(r, i, S) ==
  /\ Active(r, {"generating_units"})
  /\ r.units[i.unit].status \in S
  /\ r.units[i.unit].expected = i

CanMarkUnitValidating(r, i) == Expected(r, i, {"generating"})

MarkUnitValidating(r, i) == [r EXCEPT !.units[i.unit].status = "validating"]

CanRecordCandidateInvalid(r, i) ==
  /\ Expected(r, i, InFlight)
  /\ i \notin Recorded(r)
  /\ Strategy[i.unit] = "model"

Rejected(unit) ==
  [unit EXCEPT !.status = "pending", !.expected = None, !.latest = None,
               !.issues = "local"]

RecordCandidateInvalid(r, i) ==
  [r EXCEPT !.units[i.unit] = Rejected(r.units[i.unit]), !.invalid = @ \cup {i}]

CanRecordCandidateReady(r, i) ==
  /\ Expected(r, i, {"validating"})
  /\ i \notin Recorded(r)

\* A bug: the attempt stays registered after its candidate was accepted.
AcceptedKeepsAttempt(unit, i) ==
  [unit EXCEPT !.status = "candidate_ready", !.latest = i, !.issues = "none"]

Accepted(unit, i) ==
  [unit EXCEPT !.status = "candidate_ready", !.expected = None, !.latest = i,
               !.issues = "none"]

RecordCandidateReady(r, i) ==
  [r EXCEPT !.units[i.unit] = Accepted(r.units[i.unit], i), !.valid = @ \cup {i}]

RecoveredId(r, u) == [unit |-> u, round |-> r.units[u].round, attempt |-> 0]

CanAcceptRecoveredCandidate(r, u) ==
  LET unit == r.units[u]
  IN /\ Active(r, {"generating_units"})
     /\ u \in Planning
     /\ unit.status = "pending" /\ unit.expected = None
     /\ unit.round = 1 /\ unit.history = <<>>
     /\ unit.attempt = 0 /\ unit.total = 0
     /\ unit.latest = None /\ unit.issues = "none"
     /\ RecoveredId(r, u) \notin Recorded(r)

AcceptRecoveredCandidate(r, u) ==
  [r EXCEPT !.units[u] = Accepted(r.units[u], RecoveredId(r, u)),
            !.valid = @ \cup {RecoveredId(r, u)}]

CanMarkRoundExhausted(r, u) ==
  /\ Active(r, {"generating_units"})
  /\ r.units[u].status = "pending" /\ r.units[u].issues # "none"
  /\ r.units[u].attempt = LocalMax

MarkRoundExhausted(r, u) == [r EXCEPT !.units[u].status = "round_exhausted"]

------------------------------------------------------------------------------
(* Phase transitions *)

CanBeginGlobalCheck(r) ==
  /\ Active(r, {"generating_units"})
  /\ AllIn(r, RoundEnded)

BeginGlobalCheck(r) == [r EXCEPT !.phase = "global_check"]

\* A bug: the limit of global repairs is not enforced.
RepairBeyondLimit(r, targets) ==
  /\ Active(r, {"global_check", "assembling", "validating"})
  /\ targets # {} /\ targets \subseteq Units
  /\ \A u \in targets : r.units[u].status \in RoundEnded

\* The decision is reduced to its targets: a retryable GlobalRepairDecision
\* holds retryable generation issues only and targets the union of their units.
CanBeginGlobalRepair(r, targets) ==
  /\ Active(r, {"global_check", "assembling", "validating"})
  /\ targets # {} /\ targets \subseteq Units
  /\ r.globalRound < GlobalLimit
  /\ \A u \in targets : r.units[u].status \in RoundEnded

\* A bug: the attempt counter of the closed round is carried into the new one.
ReopenedKeepsAttempt(unit) ==
  [unit EXCEPT !.status = "pending", !.round = @ + 1,
               !.latest = None, !.issues = "global",
               !.history = Append(@, [round |-> unit.round, attempt |-> unit.attempt,
                                      status |-> unit.status, candidate |-> unit.latest])]

Reopened(unit) ==
  [unit EXCEPT !.status = "pending", !.round = @ + 1, !.attempt = 0,
               !.latest = None, !.issues = "global",
               !.history = Append(@, [round |-> unit.round, attempt |-> unit.attempt,
                                      status |-> unit.status, candidate |-> unit.latest])]

Replaced(r, targets) == {r.units[u].latest : u \in targets} \ {None}

\* A bug: the reopened units' candidates are left valid.
RepairKeepsOldCandidates(r, targets) ==
  [r EXCEPT !.units = [u \in Units |-> IF u \in targets THEN Reopened(r.units[u])
                                       ELSE r.units[u]],
            !.globalIssues = TRUE, !.globalRound = @ + 1,
            !.phase = "generating_units"]

\* A bug: a superseded candidate is dropped from the run instead of kept.
RepairForgetsOldCandidates(r, targets) ==
  [RepairKeepsOldCandidates(r, targets) EXCEPT !.valid = @ \ Replaced(r, targets)]

BeginGlobalRepair(r, targets) ==
  [r EXCEPT !.units = [u \in Units |-> IF u \in targets THEN Reopened(r.units[u])
                                       ELSE r.units[u]],
            !.valid = @ \ Replaced(r, targets),
            !.superseded = @ \cup Replaced(r, targets),
            !.globalIssues = TRUE, !.globalRound = @ + 1,
            !.phase = "generating_units"]

\* A bug: assembly starts once the barrier is passed, ready or exhausted.
AssembleWithExhausted(r) ==
  /\ Active(r, {"global_check"})
  /\ AllIn(r, RoundEnded)

CanBeginAssembly(r) ==
  /\ Active(r, {"global_check"})
  /\ AllIn(r, {"candidate_ready"})

BeginAssembly(r) == [r EXCEPT !.phase = "assembling"]

CanBeginValidation(r) == Active(r, {"assembling"})

BeginValidation(r) == [r EXCEPT !.phase = "validating"]

CanBeginPendingPersistence(r) == Active(r, {"validating"})

BeginPendingPersistence(r) ==
  [r EXCEPT !.phase = "persisting_pending", !.globalIssues = FALSE]

\* A bug: only the pending units are aborted, attempts in flight stay registered.
AbortedIfPending(unit) ==
  IF unit.status = "pending" THEN [unit EXCEPT !.status = "aborted"] ELSE unit

Aborted(unit) ==
  IF unit.status \in {"pending"} \cup InFlight
  THEN [unit EXCEPT !.status = "aborted", !.expected = None] ELSE unit

\* A bug: a failed run may still be cancelled.
TerminateAgain(r) == r.status # "cancelled"

CanTerminate(r) == r.status = "active"

Terminate(r, status) ==
  [r EXCEPT !.status = status, !.failure = (status = "failed"),
            !.units = [u \in Units |-> Aborted(r.units[u])]]

------------------------------------------------------------------------------
(* The run as a state machine: any event that is legal may be applied *)

VARIABLE run

Init == run = NewRun

StartGeneration == CanBeginGeneration(run) /\ run' = BeginGeneration(run)
StartAttempt(i) == CanMarkUnitGenerating(run, i) /\ run' = MarkUnitGenerating(run, i)
StartValidation(i) == CanMarkUnitValidating(run, i) /\ run' = MarkUnitValidating(run, i)
CandidateInvalid(i) == CanRecordCandidateInvalid(run, i) /\ run' = RecordCandidateInvalid(run, i)
CandidateReady(i) == CanRecordCandidateReady(run, i) /\ run' = RecordCandidateReady(run, i)
RecoveredAccepted(u) == CanAcceptRecoveredCandidate(run, u) /\ run' = AcceptRecoveredCandidate(run, u)
RoundExhausted(u) == CanMarkRoundExhausted(run, u) /\ run' = MarkRoundExhausted(run, u)
StartGlobalCheck == CanBeginGlobalCheck(run) /\ run' = BeginGlobalCheck(run)
StartGlobalRepair(T) == CanBeginGlobalRepair(run, T) /\ run' = BeginGlobalRepair(run, T)
StartAssembly == CanBeginAssembly(run) /\ run' = BeginAssembly(run)
StartGlobalValidation == CanBeginValidation(run) /\ run' = BeginValidation(run)
StartPendingPersistence == CanBeginPendingPersistence(run) /\ run' = BeginPendingPersistence(run)
Fail == CanTerminate(run) /\ run' = Terminate(run, "failed")
Cancel == CanTerminate(run) /\ run' = Terminate(run, "cancelled")

UnitNext ==
  \/ \E i \in Identity : \/ StartAttempt(i) \/ StartValidation(i)
                         \/ CandidateInvalid(i) \/ CandidateReady(i)
  \/ \E u \in Units : RecoveredAccepted(u) \/ RoundExhausted(u)

Next ==
  \/ StartGeneration
  \/ UnitNext
  \/ StartGlobalCheck
  \/ \E T \in SUBSET Units : StartGlobalRepair(T)
  \/ StartAssembly
  \/ StartGlobalValidation
  \/ StartPendingPersistence
  \/ Fail
  \/ Cancel

Spec == Init /\ [][Next]_run

------------------------------------------------------------------------------
(* Properties *)

\* The snapshot has the fields and ranges its pydantic model declares.
TypeOK == run \in Run

\* validate_lifecycle: what a unit's status says of its identity, candidate and
\* budget.  No transition is validated before it is committed, so each must
\* leave every unit in a state the persistence layer accepts.
UnitLifecycle(u, unit) ==
  /\ (unit.status = "not_required") <=> (u \notin Planning)
  /\ Strategy[u] # "model" => unit.attempt = 0 /\ unit.total = 0
  /\ unit.status \in InFlight <=> unit.expected # None
  /\ unit.expected # None =>
       unit.expected = [unit |-> u, round |-> unit.round,
                        attempt |-> IF Strategy[u] = "model" THEN unit.attempt ELSE 1]
  /\ unit.status = "candidate_ready" <=> unit.latest # None
  /\ unit.status = "round_exhausted" => Strategy[u] = "model" /\ unit.attempt = LocalMax
  /\ Len(unit.history) = unit.round - 1
  /\ \A k \in 1..Len(unit.history) : unit.history[k].round = k

LifecycleValid == \A u \in Units : UnitLifecycle(u, run.units[u])

\* validate_projection: a unit is reopened at most once per global repair, and
\* a terminal run keeps no unit that could still be executed.
ProjectionValid ==
  /\ \A u \in Units : run.units[u].round <= run.globalRound + 1
  /\ run.status # "active" =>
       \A u \in Units : run.units[u].status \notin {"pending"} \cup InFlight
  /\ (run.status = "failed") <=> run.failure

\* validate_snapshot: the valid candidates are exactly the current ones (an old
\* candidate left valid would be a hidden fallback), and each belongs to its
\* unit's current round and was produced by the attempt the budget counts.
CurrentCandidate(u, unit) ==
  unit.latest # None =>
    /\ unit.latest.unit = u /\ unit.latest.round = unit.round
    /\ Strategy[u] = "model" => unit.latest.attempt \in {0, unit.attempt}

NoHiddenFallback ==
  /\ run.valid = {run.units[u].latest : u \in Units} \ {None}
  /\ \A u \in Units : CurrentCandidate(u, run.units[u])

\* validate_snapshot: an attempt identity is allocated or recorded once only,
\* whatever the order of retries, repairs and aborts.
AttemptOnce ==
  /\ \A u \in Units : run.units[u].expected \notin Recorded(run)
  /\ run.valid \cap run.invalid = {}
  /\ run.valid \cap run.superseded = {}
  /\ run.invalid \cap run.superseded = {}

\* validate_lifecycle, the budget: the cumulative count is the closed rounds'
\* attempts plus the current round's, and the ledger of model attempts shows
\* exactly that many identities of the unit.
BudgetLedger ==
  \A u \in Units :
    LET unit == run.units[u]
        closed == {h \in {unit.history[k] : k \in 1..Len(unit.history)} : h.attempt > 0}
        earlier == UNION {{[unit |-> u, round |-> h.round, attempt |-> a] : a \in 1..h.attempt} : h \in closed}
        spent == earlier \cup {[unit |-> u, round |-> unit.round, attempt |-> a] : a \in 1..unit.attempt}
    IN /\ unit.total = Cardinality(spent)
       /\ Strategy[u] = "model" =>
            {c \in Recorded(run) : c.unit = u /\ c.attempt > 0} \subseteq spent

\* From the start of assembly on, an active run holds a valid candidate of
\* every planning unit: assembly never sees a partial set of candidates.
AssemblyComplete ==
  run.phase \in {"assembling", "validating", "persisting_pending"} =>
    AllIn(run, {"candidate_ready"})

\* A generated candidate is never forgotten and, once superseded or invalid,
\* never becomes current again; a valid one leaves only by being superseded.
CandidateHistory ==
  [][ /\ run.invalid \subseteq run'.invalid
      /\ run.superseded \subseteq run'.superseded
      /\ run.valid \ run'.valid \subseteq run'.superseded ]_run

\* A failed or cancelled run accepts no further event.
TerminalIsFinal == [][run.status = "active"]_run

==============================================================================

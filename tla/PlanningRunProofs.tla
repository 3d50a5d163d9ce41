-------------------------- MODULE PlanningRunProofs --------------------------
(***************************************************************************)
(* Proofs about PlanningRun for every set of units, every assignment of    *)
(* strategies and every value of the two budgets.                          *)
(*                                                                         *)
(* The invariants of PlanningRun are not inductive one by one: that no     *)
(* attempt identity is recorded twice needs the registered identity of a   *)
(* unit to name that unit (LifecycleValid), that the reopened rounds stay  *)
(* in range needs ProjectionValid, that a repair keeps the other units'    *)
(* candidates valid needs NoHiddenFallback.  Their conjunction IInv is.    *)
(*                                                                         *)
(* Effects says once what each action does to every field of the snapshot; *)
(* the lemmas ...Step then show one conjunct each, action by action.       *)
(***************************************************************************)
EXTENDS PlanningRun, FiniteSetTheorems, TLAPS

\* The inductive invariant: all the validators of the persisted contract but
\* the counting one (BudgetLedger, see the last sections), and the completeness
\* of assembly.
IInv ==
  /\ TypeOK
  /\ LifecycleValid
  /\ ProjectionValid
  /\ NoHiddenFallback
  /\ AttemptOnce
  /\ AssemblyComplete

------------------------------------------------------------------------------
(* Facts about identities, snapshots and the operators on one unit *)

\* An attempt identity names a candidate of one of the units, is not None, and
\* differs from the identity of a recovered candidate, whose attempt is 0.
LEMMA Identities ==
  /\ \A i \in Identity : i \in CandidateId /\ i.unit \in Units /\ i # None
  /\ \A u \in Units : run \in Run => RecoveredId(run, u) \in CandidateId
                                     /\ RecoveredId(run, u) \notin Identity
BY PlanningRunAssumption DEF Identity, CandidateId, RecoveredId, Run, UnitState

\* The fields of a snapshot, and the snapshots that differ from it in one unit
\* and one set of candidates, have their types.
LEMMA RunFields ==
  ASSUME run \in Run
  PROVE  /\ \A u \in Units : run.units[u] \in UnitState
         /\ run.units \in [Units -> UnitState]
         /\ run.valid \subseteq CandidateId
         /\ run.invalid \subseteq CandidateId
         /\ run.superseded \subseteq CandidateId
         /\ \A u \in Units, x \in UnitState : [run EXCEPT !.units[u] = x] \in Run
         /\ \A u \in Units, x \in UnitState, S \in SUBSET CandidateId :
               /\ [run EXCEPT !.units[u] = x, !.invalid = S] \in Run
               /\ [run EXCEPT !.units[u] = x, !.valid = S] \in Run
BY DEF Run

\* The operators on one unit keep the type of a unit.
LEMMA UnitTypes ==
  ASSUME NEW unit \in UnitState
  PROVE  /\ \A i \in Identity : Started(unit, i) \in UnitState
         /\ [unit EXCEPT !.status = "validating"] \in UnitState
         /\ [unit EXCEPT !.status = "round_exhausted"] \in UnitState
         /\ Rejected(unit) \in UnitState
         /\ \A c \in CandidateId : Accepted(unit, c) \in UnitState
         /\ Aborted(unit) \in UnitState
<1> USE PlanningRunAssumption DEF UnitState, Statuses
<1>1. ASSUME NEW i \in Identity PROVE Started(unit, i) \in UnitState
  <2> DEFINE attempt == IF Strategy[i.unit] = "model" THEN i.attempt ELSE 0
             total == IF Strategy[i.unit] = "model" THEN unit.total + 1 ELSE unit.total
  <2>1. attempt \in 0..LocalMax BY <1>1 DEF Identity
  <2>2. total \in Nat OBVIOUS
  <2>3. Started(unit, i) = [unit EXCEPT !.status = "generating", !.expected = i,
                                        !.attempt = attempt, !.total = total]
    BY DEF Started
  <2> HIDE DEF attempt, total
  <2> QED BY <1>1, <2>1, <2>2, <2>3
<1>2. [unit EXCEPT !.status = "validating"] \in UnitState
  OBVIOUS
<1>3. [unit EXCEPT !.status = "round_exhausted"] \in UnitState
  OBVIOUS
<1>4. Rejected(unit) \in UnitState
  BY DEF Rejected
<1>5. ASSUME NEW c \in CandidateId PROVE Accepted(unit, c) \in UnitState
  BY DEF Accepted
<1>6. Aborted(unit) \in UnitState
  BY DEF Aborted
<1> QED BY <1>1, <1>2, <1>3, <1>4, <1>5, <1>6

\* Reopening keeps the type of a unit that may still enter a later round.
LEMMA ReopenedType ==
  ASSUME NEW unit \in UnitState, unit.status \in RoundEnded, unit.round <= GlobalLimit
  PROVE  Reopened(unit) \in UnitState
<1>1. [round |-> unit.round, attempt |-> unit.attempt,
       status |-> unit.status, candidate |-> unit.latest] \in History
  BY DEF UnitState, History
<1>2. unit.round + 1 \in 1..(GlobalLimit + 1) /\ 0 \in 0..LocalMax
  BY PlanningRunAssumption DEF UnitState
<1>3. unit.history \in Seq(History)
  BY DEF UnitState
<1>4. Append(unit.history, [round |-> unit.round, attempt |-> unit.attempt,
       status |-> unit.status, candidate |-> unit.latest]) \in Seq(History)
  BY <1>1, <1>3
<1> QED BY <1>2, <1>4 DEF UnitState, Statuses, Reopened

\* Each operator on one unit, applied in the status its guard requires, leaves
\* a unit validate_lifecycle accepts.
LEMMA UnitLifecycleStep ==
  ASSUME NEW u \in Units, NEW unit \in UnitState, UnitLifecycle(u, unit)
  PROVE  /\ \A i \in Identity :
              /\ unit.status = "pending" /\ i.unit = u /\ i.round = unit.round
              /\ i.attempt = IF Strategy[u] = "model" THEN unit.attempt + 1 ELSE 1
              => UnitLifecycle(u, Started(unit, i))
         /\ unit.status = "generating" =>
              UnitLifecycle(u, [unit EXCEPT !.status = "validating"])
         /\ unit.status \in InFlight => UnitLifecycle(u, Rejected(unit))
         /\ unit.status \in {"pending", "validating"} =>
              \A c \in CandidateId : UnitLifecycle(u, Accepted(unit, c))
         /\ unit.status = "pending" /\ unit.attempt = LocalMax =>
              UnitLifecycle(u, [unit EXCEPT !.status = "round_exhausted"])
         /\ unit.status \in RoundEnded => UnitLifecycle(u, Reopened(unit))
         /\ UnitLifecycle(u, Aborted(unit))
<1> USE PlanningRunAssumption DEF UnitLifecycle, UnitState, InFlight
<1>1. ASSUME NEW i \in Identity, unit.status = "pending", i.unit = u, i.round = unit.round,
             i.attempt = IF Strategy[u] = "model" THEN unit.attempt + 1 ELSE 1
      PROVE  UnitLifecycle(u, Started(unit, i))
  <2>1. i = [unit |-> u, round |-> unit.round,
             attempt |-> IF Strategy[u] = "model" THEN unit.attempt + 1 ELSE 1]
    BY <1>1 DEF Identity
  <2>2. i # None BY <1>1, Identities
  <2> QED BY <1>1, <2>1, <2>2 DEF Started
<1>2. ASSUME unit.status = "generating"
      PROVE  UnitLifecycle(u, [unit EXCEPT !.status = "validating"])
  BY <1>2
<1>3. ASSUME unit.status \in InFlight PROVE UnitLifecycle(u, Rejected(unit))
  BY <1>3 DEF Rejected
<1>4. ASSUME unit.status \in {"pending", "validating"}, NEW c \in CandidateId
      PROVE  UnitLifecycle(u, Accepted(unit, c))
  BY <1>4 DEF Accepted
<1>5. ASSUME unit.status = "pending", unit.attempt = LocalMax
      PROVE  UnitLifecycle(u, [unit EXCEPT !.status = "round_exhausted"])
  BY <1>5
<1>6. ASSUME unit.status \in RoundEnded PROVE UnitLifecycle(u, Reopened(unit))
  <2> DEFINE h == [round |-> unit.round, attempt |-> unit.attempt,
                   status |-> unit.status, candidate |-> unit.latest]
  <2>1. unit.history \in Seq(History) /\ h \in History
    BY <1>6 DEF History
  <2>2. /\ Len(Append(unit.history, h)) = Len(unit.history) + 1
        /\ \A k \in 1..Len(unit.history) : Append(unit.history, h)[k] = unit.history[k]
        /\ Append(unit.history, h)[Len(unit.history) + 1] = h
    BY <2>1
  <2>3. /\ Reopened(unit).history = Append(unit.history, h)
        /\ Reopened(unit).round = unit.round + 1 /\ Reopened(unit).attempt = 0
        /\ Reopened(unit).latest = None /\ Reopened(unit).status = "pending"
        /\ Reopened(unit).expected = unit.expected /\ Reopened(unit).total = unit.total
    BY DEF Reopened
  <2>4. \A k \in 1..Len(Append(unit.history, h)) : Append(unit.history, h)[k].round = k
    BY <2>1, <2>2
  <2> QED BY <1>6, <2>1, <2>2, <2>3, <2>4 DEF RoundEnded
<1>7. UnitLifecycle(u, Aborted(unit))
  BY DEF Aborted
<1> QED BY <1>1, <1>2, <1>3, <1>4, <1>5, <1>6, <1>7

\* The fields the other invariants look at, after each operator on one unit.
LEMMA UnitFields ==
  ASSUME NEW unit \in UnitState
  PROVE  /\ \A i \in Identity :
              LET next == Started(unit, i)
              IN /\ next.round = unit.round /\ next.latest = unit.latest
                 /\ next.status = "generating" /\ next.expected = i
                 /\ next.attempt = IF Strategy[i.unit] = "model" THEN i.attempt ELSE 0
         /\ \A s \in {"validating", "round_exhausted"} :
              LET next == [unit EXCEPT !.status = s]
              IN /\ next.round = unit.round /\ next.latest = unit.latest
                 /\ next.status = s /\ next.expected = unit.expected
                 /\ next.attempt = unit.attempt
         /\ LET next == Rejected(unit)
            IN /\ next.round = unit.round /\ next.latest = None
               /\ next.status = "pending" /\ next.expected = None
         /\ \A c \in CandidateId :
              LET next == Accepted(unit, c)
              IN /\ next.round = unit.round /\ next.latest = c
                 /\ next.status = "candidate_ready" /\ next.expected = None
                 /\ next.attempt = unit.attempt
         /\ LET next == Reopened(unit)
            IN /\ next.round = unit.round + 1 /\ next.latest = None
               /\ next.status = "pending" /\ next.expected = unit.expected
         /\ LET next == Aborted(unit)
            IN /\ next.round = unit.round /\ next.latest = unit.latest
               /\ next.attempt = unit.attempt
               /\ next.expected \in {unit.expected, None}
               /\ next.status \notin {"pending"} \cup InFlight
               /\ unit.status \in RoundEnded => next = unit
BY DEF UnitState, Started, Rejected, Accepted, Reopened, Aborted, InFlight, RoundEnded

------------------------------------------------------------------------------
(* What each action does to the snapshot *)

\* The step changes the phase and nothing a property looks at.
PhaseOnly(phase) ==
  /\ run'.units = run.units /\ run'.status = run.status /\ run'.failure = run.failure
  /\ run'.globalRound = run.globalRound /\ run'.phase = phase
  /\ run'.valid = run.valid /\ run'.invalid = run.invalid
  /\ run'.superseded = run.superseded

\* The step replaces one unit; CandidatesNow says what becomes of the candidates.
UnitOnly(u, unit) ==
  /\ run'.units = [run.units EXCEPT ![u] = unit]
  /\ run'.status = run.status /\ run'.failure = run.failure
  /\ run'.globalRound = run.globalRound /\ run'.phase = run.phase

CandidatesNow(valid, invalid) ==
  run'.valid = valid /\ run'.invalid = invalid /\ run'.superseded = run.superseded

\* What every action but the global repair and the two terminal ones changes.
LEMMA Effects ==
  ASSUME run \in Run
  PROVE  /\ StartGeneration => PhaseOnly("generating_units")
         /\ StartGlobalCheck => PhaseOnly("global_check")
         /\ StartAssembly => PhaseOnly("assembling")
         /\ StartGlobalValidation => PhaseOnly("validating")
         /\ StartPendingPersistence => PhaseOnly("persisting_pending")
         /\ \A i \in Identity :
              /\ StartAttempt(i) =>
                   /\ UnitOnly(i.unit, Started(run.units[i.unit], i))
                   /\ CandidatesNow(run.valid, run.invalid)
              /\ StartValidation(i) =>
                   /\ UnitOnly(i.unit, [run.units[i.unit] EXCEPT !.status = "validating"])
                   /\ CandidatesNow(run.valid, run.invalid)
              /\ CandidateInvalid(i) =>
                   /\ UnitOnly(i.unit, Rejected(run.units[i.unit]))
                   /\ CandidatesNow(run.valid, run.invalid \cup {i})
              /\ CandidateReady(i) =>
                   /\ UnitOnly(i.unit, Accepted(run.units[i.unit], i))
                   /\ CandidatesNow(run.valid \cup {i}, run.invalid)
         /\ \A u \in Units :
              /\ RecoveredAccepted(u) =>
                   /\ UnitOnly(u, Accepted(run.units[u], RecoveredId(run, u)))
                   /\ CandidatesNow(run.valid \cup {RecoveredId(run, u)}, run.invalid)
              /\ RoundExhausted(u) =>
                   /\ UnitOnly(u, [run.units[u] EXCEPT !.status = "round_exhausted"])
                   /\ CandidatesNow(run.valid, run.invalid)
<1> USE DEF Run, PhaseOnly, UnitOnly, CandidatesNow
<1>1. StartGeneration => PhaseOnly("generating_units")
  BY DEF StartGeneration, BeginGeneration
<1>2. StartGlobalCheck => PhaseOnly("global_check")
  BY DEF StartGlobalCheck, BeginGlobalCheck
<1>3. StartAssembly => PhaseOnly("assembling")
  BY DEF StartAssembly, BeginAssembly
<1>4. StartGlobalValidation => PhaseOnly("validating")
  BY DEF StartGlobalValidation, BeginValidation
<1>5. StartPendingPersistence => PhaseOnly("persisting_pending")
  BY DEF StartPendingPersistence, BeginPendingPersistence
<1>6. ASSUME NEW i \in Identity, StartAttempt(i)
      PROVE  /\ UnitOnly(i.unit, Started(run.units[i.unit], i))
             /\ CandidatesNow(run.valid, run.invalid)
  BY <1>6, Identities DEF StartAttempt, MarkUnitGenerating
<1>7. ASSUME NEW i \in Identity, StartValidation(i)
      PROVE  /\ UnitOnly(i.unit, [run.units[i.unit] EXCEPT !.status = "validating"])
             /\ CandidatesNow(run.valid, run.invalid)
  BY <1>7, Identities DEF StartValidation, MarkUnitValidating
<1>8. ASSUME NEW i \in Identity, CandidateInvalid(i)
      PROVE  /\ UnitOnly(i.unit, Rejected(run.units[i.unit]))
             /\ CandidatesNow(run.valid, run.invalid \cup {i})
  BY <1>8, Identities DEF CandidateInvalid, RecordCandidateInvalid
<1>9. ASSUME NEW i \in Identity, CandidateReady(i)
      PROVE  /\ UnitOnly(i.unit, Accepted(run.units[i.unit], i))
             /\ CandidatesNow(run.valid \cup {i}, run.invalid)
  BY <1>9, Identities DEF CandidateReady, RecordCandidateReady
<1>10. ASSUME NEW u \in Units, RecoveredAccepted(u)
       PROVE  /\ UnitOnly(u, Accepted(run.units[u], RecoveredId(run, u)))
              /\ CandidatesNow(run.valid \cup {RecoveredId(run, u)}, run.invalid)
  BY <1>10 DEF RecoveredAccepted, AcceptRecoveredCandidate
<1>11. ASSUME NEW u \in Units, RoundExhausted(u)
       PROVE  /\ UnitOnly(u, [run.units[u] EXCEPT !.status = "round_exhausted"])
              /\ CandidatesNow(run.valid, run.invalid)
  BY <1>11 DEF RoundExhausted, MarkRoundExhausted
<1> QED BY <1>1, <1>2, <1>3, <1>4, <1>5, <1>6, <1>7, <1>8, <1>9, <1>10, <1>11

------------------------------------------------------------------------------
(* One lemma per conjunct of the invariant *)

\* A new run satisfies the invariant.
LEMMA InitIInv == Init => IInv
<1> SUFFICES ASSUME Init PROVE IInv
  OBVIOUS
<1> USE PlanningRunAssumption DEF Init, NewRun
<1>1. \A u \in Units : NewUnit(u) \in UnitState
  BY DEF NewUnit, UnitState, Statuses, Planning, Strategies
<1>2. TypeOK
  BY <1>1 DEF TypeOK, Run, Phases
<1>3. LifecycleValid
  BY DEF LifecycleValid, UnitLifecycle, NewUnit, Planning, Strategies, InFlight
<1>4. ProjectionValid
  BY DEF ProjectionValid, NewUnit
<1>5. NoHiddenFallback
  BY DEF NoHiddenFallback, CurrentCandidate, NewUnit
<1>6. AttemptOnce
  BY DEF AttemptOnce, Recorded, NewUnit
<1>7. AssemblyComplete
  BY DEF AssemblyComplete
<1> QED BY <1>2, <1>3, <1>4, <1>5, <1>6, <1>7 DEF IInv

\* Every step keeps the fields of the snapshot in their ranges.
LEMMA TypeStep ==
  ASSUME IInv, Next
  PROVE  TypeOK'
<1> USE DEF TypeOK
<1>0. run \in Run
  BY DEF IInv
<1> USE <1>0
<1>1. CASE StartGeneration
  BY <1>1 DEF StartGeneration, BeginGeneration, Run, Phases
<1>2. ASSUME NEW i \in Identity, StartAttempt(i) PROVE TypeOK'
  <2>1. i.unit \in Units BY <1>2, Identities
  <2>2. Started(run.units[i.unit], i) \in UnitState
    BY <2>1, <1>2, RunFields, UnitTypes
  <2> QED BY <2>1, <2>2, <1>2, RunFields DEF StartAttempt, MarkUnitGenerating
<1>3. ASSUME NEW i \in Identity, StartValidation(i) PROVE TypeOK'
  <2>1. i.unit \in Units BY <1>3, Identities
  <2>2. [run.units[i.unit] EXCEPT !.status = "validating"] \in UnitState
    BY <2>1, RunFields, UnitTypes
  <2>3. MarkUnitValidating(run, i)
          = [run EXCEPT !.units[i.unit] = [run.units[i.unit] EXCEPT !.status = "validating"]]
    BY DEF MarkUnitValidating
  <2> QED BY <2>1, <2>2, <2>3, <1>3, RunFields DEF StartValidation
<1>4. ASSUME NEW i \in Identity, CandidateInvalid(i) PROVE TypeOK'
  <2>1. i.unit \in Units /\ i \in CandidateId BY <1>4, Identities
  <2>2. Rejected(run.units[i.unit]) \in UnitState
    BY <2>1, RunFields, UnitTypes
  <2>3. run.invalid \cup {i} \in SUBSET CandidateId
    BY <2>1, RunFields
  <2> QED BY <2>1, <2>2, <2>3, <1>4, RunFields DEF CandidateInvalid, RecordCandidateInvalid
<1>5. ASSUME NEW i \in Identity, CandidateReady(i) PROVE TypeOK'
  <2>1. i.unit \in Units /\ i \in CandidateId BY <1>5, Identities
  <2>2. Accepted(run.units[i.unit], i) \in UnitState
    BY <2>1, RunFields, UnitTypes
  <2>3. run.valid \cup {i} \in SUBSET CandidateId
    BY <2>1, RunFields
  <2> QED BY <2>1, <2>2, <2>3, <1>5, RunFields DEF CandidateReady, RecordCandidateReady
<1>6. ASSUME NEW u \in Units, RecoveredAccepted(u) PROVE TypeOK'
  <2>1. RecoveredId(run, u) \in CandidateId BY <1>6, Identities
  <2>2. Accepted(run.units[u], RecoveredId(run, u)) \in UnitState
    BY <1>6, <2>1, RunFields, UnitTypes
  <2>3. run.valid \cup {RecoveredId(run, u)} \in SUBSET CandidateId
    BY <2>1, RunFields
  <2> QED BY <2>2, <2>3, <1>6, RunFields DEF RecoveredAccepted, AcceptRecoveredCandidate
<1>7. ASSUME NEW u \in Units, RoundExhausted(u) PROVE TypeOK'
  <2>1. [run.units[u] EXCEPT !.status = "round_exhausted"] \in UnitState
    BY <1>7, RunFields, UnitTypes
  <2>2. MarkRoundExhausted(run, u)
          = [run EXCEPT !.units[u] = [run.units[u] EXCEPT !.status = "round_exhausted"]]
    BY DEF MarkRoundExhausted
  <2> QED BY <2>1, <2>2, <1>7, RunFields DEF RoundExhausted
<1>8. CASE StartGlobalCheck
  BY <1>8 DEF StartGlobalCheck, BeginGlobalCheck, Run, Phases
<1>9. ASSUME NEW T \in SUBSET Units, StartGlobalRepair(T) PROVE TypeOK'
  <2> DEFINE units == [u \in Units |-> IF u \in T THEN Reopened(run.units[u]) ELSE run.units[u]]
  <2>1. ASSUME NEW u \in T PROVE Reopened(run.units[u]) \in UnitState
    <3>1. run.units[u].status \in RoundEnded /\ run.globalRound < GlobalLimit
      BY <1>9, <2>1 DEF StartGlobalRepair, CanBeginGlobalRepair
    <3>2. run.units[u] \in UnitState /\ run.units[u].round <= run.globalRound + 1
      BY <1>9, <2>1, RunFields DEF IInv, ProjectionValid
    <3>3. run.units[u].round \in Nat /\ run.globalRound \in Nat
      BY <3>2, PlanningRunAssumption DEF UnitState, Run
    <3>4. run.units[u].round <= GlobalLimit
      BY <3>1, <3>2, <3>3, PlanningRunAssumption
    <3> QED BY <3>1, <3>2, <3>4, ReopenedType
  <2>2. units \in [Units -> UnitState]
    BY <1>9, <2>1, RunFields
  <2>3. run.globalRound + 1 \in 0..GlobalLimit
    BY <1>9, PlanningRunAssumption DEF StartGlobalRepair, CanBeginGlobalRepair, Run
  <2>4. Replaced(run, T) \subseteq CandidateId
    BY <1>9, RunFields DEF Replaced, UnitState
  <2>5. run.valid \ Replaced(run, T) \in SUBSET CandidateId
        /\ run.superseded \cup Replaced(run, T) \in SUBSET CandidateId
    BY <2>4, RunFields
  <2> QED BY <2>2, <2>3, <2>5, <1>9 DEF StartGlobalRepair, BeginGlobalRepair, Run, Phases
<1>10. CASE StartAssembly
  BY <1>10 DEF StartAssembly, BeginAssembly, Run, Phases
<1>11. CASE StartGlobalValidation
  BY <1>11 DEF StartGlobalValidation, BeginValidation, Run, Phases
<1>12. CASE StartPendingPersistence
  BY <1>12 DEF StartPendingPersistence, BeginPendingPersistence, Run, Phases
<1>13. ASSUME NEW status \in {"failed", "cancelled"}, run' = Terminate(run, status)
       PROVE TypeOK'
  <2>1. [u \in Units |-> Aborted(run.units[u])] \in [Units -> UnitState]
    BY RunFields, UnitTypes
  <2> QED BY <1>13, <2>1 DEF Terminate, Run
<1> QED
  BY <1>1, <1>2, <1>3, <1>4, <1>5, <1>6, <1>7, <1>8, <1>9, <1>10, <1>11, <1>12, <1>13
     DEF Next, UnitNext, Fail, Cancel

\* Every step leaves units that validate_lifecycle accepts.
LEMMA LifecycleStep ==
  ASSUME IInv, Next
  PROVE  LifecycleValid'
<1> USE DEF LifecycleValid
<1>0. /\ run \in Run
      /\ \A u \in Units : run.units[u] \in UnitState /\ UnitLifecycle(u, run.units[u])
  BY RunFields DEF IInv, TypeOK
<1>1. ASSUME run'.units = run.units PROVE LifecycleValid'
  BY <1>0, <1>1
<1>2. ASSUME NEW u \in Units, NEW x, UnitLifecycle(u, x),
             run'.units = [run.units EXCEPT ![u] = x]
      PROVE  LifecycleValid'
  BY <1>0, <1>2 DEF Run
<1>3. CASE StartGeneration
  BY <1>0, <1>1, <1>3 DEF StartGeneration, BeginGeneration, Run
<1>4. ASSUME NEW i \in Identity, StartAttempt(i) PROVE LifecycleValid'
  <2>1. i.unit \in Units BY <1>4, Identities
  <2>2. UnitLifecycle(i.unit, Started(run.units[i.unit], i))
    BY <1>0, <1>4, <2>1, UnitLifecycleStep
       DEF StartAttempt, CanMarkUnitGenerating, NextAttempt
  <2>3. run'.units = [run.units EXCEPT ![i.unit] = Started(run.units[i.unit], i)]
    BY <1>0, <1>4, <2>1 DEF StartAttempt, MarkUnitGenerating, Run
  <2> QED BY <1>2, <2>1, <2>2, <2>3
<1>5. ASSUME NEW i \in Identity, StartValidation(i) PROVE LifecycleValid'
  <2>1. i.unit \in Units BY <1>5, Identities
  <2>2. UnitLifecycle(i.unit, [run.units[i.unit] EXCEPT !.status = "validating"])
    BY <1>0, <1>5, <2>1, UnitLifecycleStep
       DEF StartValidation, CanMarkUnitValidating, Expected
  <2>3. run'.units = [run.units EXCEPT ![i.unit] = [run.units[i.unit] EXCEPT !.status = "validating"]]
    BY <1>0, <1>5, <2>1 DEF StartValidation, MarkUnitValidating, Run
  <2> QED BY <1>2, <2>1, <2>2, <2>3
<1>6. ASSUME NEW i \in Identity, CandidateInvalid(i) PROVE LifecycleValid'
  <2>1. i.unit \in Units BY <1>6, Identities
  <2>2. UnitLifecycle(i.unit, Rejected(run.units[i.unit]))
    BY <1>0, <1>6, <2>1, UnitLifecycleStep
       DEF CandidateInvalid, CanRecordCandidateInvalid, Expected
  <2>3. run'.units = [run.units EXCEPT ![i.unit] = Rejected(run.units[i.unit])]
    BY <1>0, <1>6, <2>1 DEF CandidateInvalid, RecordCandidateInvalid, Run
  <2> QED BY <1>2, <2>1, <2>2, <2>3
<1>7. ASSUME NEW i \in Identity, CandidateReady(i) PROVE LifecycleValid'
  <2>1. i.unit \in Units /\ i \in CandidateId BY <1>7, Identities
  <2>2. UnitLifecycle(i.unit, Accepted(run.units[i.unit], i))
    BY <1>0, <1>7, <2>1, UnitLifecycleStep
       DEF CandidateReady, CanRecordCandidateReady, Expected
  <2>3. run'.units = [run.units EXCEPT ![i.unit] = Accepted(run.units[i.unit], i)]
    BY <1>0, <1>7, <2>1 DEF CandidateReady, RecordCandidateReady, Run
  <2> QED BY <1>2, <2>1, <2>2, <2>3
<1>8. ASSUME NEW u \in Units, RecoveredAccepted(u) PROVE LifecycleValid'
  <2>1. RecoveredId(run, u) \in CandidateId BY <1>0, <1>8, Identities
  <2>2. UnitLifecycle(u, Accepted(run.units[u], RecoveredId(run, u)))
    BY <1>0, <1>8, <2>1, UnitLifecycleStep
       DEF RecoveredAccepted, CanAcceptRecoveredCandidate
  <2>3. run'.units = [run.units EXCEPT ![u] = Accepted(run.units[u], RecoveredId(run, u))]
    BY <1>0, <1>8 DEF RecoveredAccepted, AcceptRecoveredCandidate, Run
  <2> QED BY <1>2, <1>8, <2>2, <2>3
<1>9. ASSUME NEW u \in Units, RoundExhausted(u) PROVE LifecycleValid'
  <2>1. UnitLifecycle(u, [run.units[u] EXCEPT !.status = "round_exhausted"])
    BY <1>0, <1>9, UnitLifecycleStep DEF RoundExhausted, CanMarkRoundExhausted
  <2>2. run'.units = [run.units EXCEPT ![u] = [run.units[u] EXCEPT !.status = "round_exhausted"]]
    BY <1>0, <1>9 DEF RoundExhausted, MarkRoundExhausted, Run
  <2> QED BY <1>2, <1>9, <2>1, <2>2
<1>10. CASE StartGlobalCheck
  BY <1>0, <1>1, <1>10 DEF StartGlobalCheck, BeginGlobalCheck, Run
<1>11. ASSUME NEW T \in SUBSET Units, StartGlobalRepair(T) PROVE LifecycleValid'
  <2>1. \A u \in T : UnitLifecycle(u, Reopened(run.units[u]))
    BY <1>0, <1>11, UnitLifecycleStep DEF StartGlobalRepair, CanBeginGlobalRepair
  <2>2. \A u \in Units : run'.units[u] = IF u \in T THEN Reopened(run.units[u]) ELSE run.units[u]
    BY <1>0, <1>11 DEF StartGlobalRepair, BeginGlobalRepair, Run
  <2> QED BY <1>0, <2>1, <2>2
<1>12. CASE StartAssembly
  BY <1>0, <1>1, <1>12 DEF StartAssembly, BeginAssembly, Run
<1>13. CASE StartGlobalValidation
  BY <1>0, <1>1, <1>13 DEF StartGlobalValidation, BeginValidation, Run
<1>14. CASE StartPendingPersistence
  BY <1>0, <1>1, <1>14 DEF StartPendingPersistence, BeginPendingPersistence, Run
<1>15. ASSUME NEW status \in {"failed", "cancelled"}, run' = Terminate(run, status)
       PROVE LifecycleValid'
  <2>1. \A u \in Units : run'.units[u] = Aborted(run.units[u])
    BY <1>0, <1>15 DEF Terminate, Run
  <2> QED BY <1>0, <2>1, UnitLifecycleStep
<1> QED
  BY <1>3, <1>4, <1>5, <1>6, <1>7, <1>8, <1>9, <1>10, <1>11, <1>12, <1>13, <1>14, <1>15
     DEF Next, UnitNext, Fail, Cancel

\* Every step keeps rounds within the global repairs made, and leaves no unit
\* executable in a terminal run.
LEMMA ProjectionStep ==
  ASSUME IInv, Next
  PROVE  ProjectionValid'
<1> USE DEF ProjectionValid
<1>0. run \in Run /\ \A u \in Units : run.units[u] \in UnitState
  BY RunFields DEF IInv, TypeOK
<1>1. ProjectionValid BY DEF IInv
<1>2. ASSUME NEW phase, PhaseOnly(phase) PROVE ProjectionValid'
  BY <1>1, <1>2 DEF PhaseOnly
<1>3. ASSUME NEW u \in Units, NEW unit, UnitOnly(u, unit),
             run.status = "active", unit.round = run.units[u].round
      PROVE  ProjectionValid'
  BY <1>0, <1>1, <1>3 DEF UnitOnly, Run
<1>4. ASSUME NEW i \in Identity,
             StartAttempt(i) \/ StartValidation(i) \/ CandidateInvalid(i) \/ CandidateReady(i)
      PROVE  ProjectionValid'
  <2>1. i.unit \in Units /\ i \in CandidateId BY <1>4, Identities
  <2>2. run.status = "active"
    BY <1>4 DEF StartAttempt, CanMarkUnitGenerating, StartValidation, CanMarkUnitValidating,
                CandidateInvalid, CanRecordCandidateInvalid, CandidateReady,
                CanRecordCandidateReady, Expected, Active
  <2>3. CASE StartAttempt(i)
    <3>1. UnitOnly(i.unit, Started(run.units[i.unit], i))
      BY <1>0, <2>3, Effects
    <3>2. Started(run.units[i.unit], i).round = run.units[i.unit].round
      BY <1>0, <2>1, UnitFields
    <3> QED BY <1>3, <2>1, <2>2, <3>1, <3>2
  <2>4. CASE StartValidation(i)
    <3>1. UnitOnly(i.unit, [run.units[i.unit] EXCEPT !.status = "validating"])
      BY <1>0, <2>4, Effects
    <3>2. [run.units[i.unit] EXCEPT !.status = "validating"].round = run.units[i.unit].round
      BY <1>0, <2>1, UnitFields
    <3> QED BY <1>3, <2>1, <2>2, <3>1, <3>2
  <2>5. CASE CandidateInvalid(i)
    <3>1. UnitOnly(i.unit, Rejected(run.units[i.unit]))
      BY <1>0, <2>5, Effects
    <3>2. Rejected(run.units[i.unit]).round = run.units[i.unit].round
      BY <1>0, <2>1, UnitFields
    <3> QED BY <1>3, <2>1, <2>2, <3>1, <3>2
  <2>6. CASE CandidateReady(i)
    <3>1. UnitOnly(i.unit, Accepted(run.units[i.unit], i))
      BY <1>0, <2>6, Effects
    <3>2. Accepted(run.units[i.unit], i).round = run.units[i.unit].round
      BY <1>0, <2>1, UnitFields
    <3> QED BY <1>3, <2>1, <2>2, <3>1, <3>2
  <2> QED BY <1>4, <2>3, <2>4, <2>5, <2>6
<1>5. ASSUME NEW u \in Units, RecoveredAccepted(u) \/ RoundExhausted(u) PROVE ProjectionValid'
  <2>1. run.status = "active" /\ RecoveredId(run, u) \in CandidateId
    BY <1>0, <1>5, Identities DEF RecoveredAccepted, CanAcceptRecoveredCandidate, RoundExhausted,
                CanMarkRoundExhausted, Active
  <2>2. CASE RecoveredAccepted(u)
    <3>1. UnitOnly(u, Accepted(run.units[u], RecoveredId(run, u)))
      BY <1>0, <2>2, Effects
    <3>2. Accepted(run.units[u], RecoveredId(run, u)).round = run.units[u].round
      BY <1>0, <2>1, UnitFields
    <3> QED BY <1>3, <2>1, <3>1, <3>2
  <2>3. CASE RoundExhausted(u)
    <3>1. UnitOnly(u, [run.units[u] EXCEPT !.status = "round_exhausted"])
      BY <1>0, <2>3, Effects
    <3>2. [run.units[u] EXCEPT !.status = "round_exhausted"].round = run.units[u].round
      BY <1>0, <2>1, UnitFields
    <3> QED BY <1>3, <2>1, <3>1, <3>2
  <2> QED BY <1>5, <2>2, <2>3
<1>6. ASSUME NEW T \in SUBSET Units, StartGlobalRepair(T) PROVE ProjectionValid'
  <2>1. run'.globalRound = run.globalRound + 1 /\ run'.status = "active" /\ ~run'.failure
    BY <1>0, <1>1, <1>6 DEF StartGlobalRepair, CanBeginGlobalRepair, BeginGlobalRepair, Active, Run
  <2>2. \A u \in Units : run'.units[u] = IF u \in T THEN Reopened(run.units[u]) ELSE run.units[u]
    BY <1>0, <1>6 DEF StartGlobalRepair, BeginGlobalRepair, Run
  <2>3. ASSUME NEW u \in Units PROVE run'.units[u].round <= run.globalRound + 2
    <3>1. run'.units[u].round \in {run.units[u].round, run.units[u].round + 1}
      BY <1>0, <2>2, UnitFields
    <3>2. run.units[u].round <= run.globalRound + 1 BY <1>1
    <3>3. run.units[u].round \in Nat /\ run.globalRound \in Nat
      BY <1>0, PlanningRunAssumption DEF UnitState, Run
    <3> QED BY <3>1, <3>2, <3>3
  <2>4. run.globalRound + 2 = run'.globalRound + 1
    BY <1>0, <2>1, PlanningRunAssumption DEF Run
  <2> QED BY <2>1, <2>3, <2>4
<1>7. ASSUME NEW status \in {"failed", "cancelled"}, run' = Terminate(run, status)
      PROVE  ProjectionValid'
  <2>1. \A u \in Units : run'.units[u] = Aborted(run.units[u])
    BY <1>0, <1>7 DEF Terminate, Run
  <2>2. run'.status = status /\ run'.globalRound = run.globalRound
        /\ (run'.failure <=> status = "failed")
    BY <1>0, <1>7 DEF Terminate, Run
  <2> QED BY <1>0, <1>1, <1>7, <2>1, <2>2, UnitFields
<1> QED
  BY <1>0, <1>2, <1>4, <1>5, <1>6, <1>7, Effects DEF Next, UnitNext, Fail, Cancel

\* Every step keeps the valid candidates equal to the current ones.
LEMMA FallbackStep ==
  ASSUME IInv, Next
  PROVE  NoHiddenFallback'
<1> USE DEF NoHiddenFallback
<1>0. /\ run \in Run
      /\ \A u \in Units : run.units[u] \in UnitState /\ UnitLifecycle(u, run.units[u])
  BY RunFields DEF IInv, TypeOK, LifecycleValid
<1>1. NoHiddenFallback BY DEF IInv
<1>2. ASSUME NEW phase, PhaseOnly(phase) PROVE NoHiddenFallback'
  BY <1>1, <1>2 DEF PhaseOnly
<1>3. ASSUME NEW u \in Units, NEW unit, UnitOnly(u, unit), run'.valid = run.valid,
             unit.latest = run.units[u].latest, CurrentCandidate(u, unit)
      PROVE  NoHiddenFallback'
  <2>1. \A v \in Units : run'.units[v] = IF v = u THEN unit ELSE run.units[v]
    BY <1>0, <1>3 DEF UnitOnly, Run
  <2>2. {run'.units[v].latest : v \in Units} = {run.units[v].latest : v \in Units}
    BY <1>3, <2>1
  <2> QED BY <1>1, <1>3, <2>1, <2>2
<1>4. ASSUME NEW u \in Units, NEW unit, NEW c, UnitOnly(u, unit), c # None,
             run.units[u].latest = None, unit.latest = c,
             run'.valid = run.valid \cup {c}, CurrentCandidate(u, unit)
      PROVE  NoHiddenFallback'
  <2>1. \A v \in Units : run'.units[v] = IF v = u THEN unit ELSE run.units[v]
    BY <1>0, <1>4 DEF UnitOnly, Run
  <2>2. {run'.units[v].latest : v \in Units} \ {None}
          = ({run.units[v].latest : v \in Units} \ {None}) \cup {c}
    BY <1>4, <2>1
  <2> QED BY <1>1, <1>4, <2>1, <2>2
<1>5. ASSUME NEW i \in Identity, StartAttempt(i) PROVE NoHiddenFallback'
  <2>1. i.unit \in Units BY <1>5, Identities
  <2>2. UnitOnly(i.unit, Started(run.units[i.unit], i)) /\ run'.valid = run.valid
    BY <1>0, <1>5, Effects DEF CandidatesNow
  <2>3. run.units[i.unit].latest = None
    BY <1>0, <1>5, <2>1 DEF StartAttempt, CanMarkUnitGenerating, UnitLifecycle
  <2>4. Started(run.units[i.unit], i).latest = None
    BY <1>0, <2>1, <2>3, UnitFields
  <2> QED BY <1>3, <2>1, <2>2, <2>3, <2>4 DEF CurrentCandidate
<1>6. ASSUME NEW i \in Identity, StartValidation(i) PROVE NoHiddenFallback'
  <2> DEFINE unit == run.units[i.unit]
             next == [unit EXCEPT !.status = "validating"]
  <2>1. i.unit \in Units BY <1>6, Identities
  <2>2. UnitOnly(i.unit, next) /\ run'.valid = run.valid
    BY <1>0, <1>6, Effects DEF CandidatesNow
  <2>3. next.latest = unit.latest /\ next.round = unit.round /\ next.attempt = unit.attempt
    BY <1>0, <2>1, UnitFields
  <2>4. CurrentCandidate(i.unit, next)
    BY <1>1, <2>1, <2>3 DEF CurrentCandidate
  <2> HIDE DEF next
  <2> QED BY <1>3, <2>1, <2>2, <2>3, <2>4
<1>7. ASSUME NEW i \in Identity, CandidateInvalid(i) PROVE NoHiddenFallback'
  <2>1. i.unit \in Units BY <1>7, Identities
  <2>2. UnitOnly(i.unit, Rejected(run.units[i.unit])) /\ run'.valid = run.valid
    BY <1>0, <1>7, Effects DEF CandidatesNow
  <2>3. run.units[i.unit].latest = None
    BY <1>0, <1>7, <2>1
       DEF CandidateInvalid, CanRecordCandidateInvalid, Expected, InFlight, UnitLifecycle
  <2>4. Rejected(run.units[i.unit]).latest = None
    BY <1>0, <2>1, UnitFields
  <2> QED BY <1>3, <2>1, <2>2, <2>3, <2>4 DEF CurrentCandidate
<1>8. ASSUME NEW i \in Identity, CandidateReady(i) PROVE NoHiddenFallback'
  <2> DEFINE unit == run.units[i.unit]
             next == Accepted(unit, i)
  <2>1. i.unit \in Units /\ i \in CandidateId /\ i # None BY <1>8, Identities
  <2>2. UnitOnly(i.unit, next) /\ run'.valid = run.valid \cup {i}
    BY <1>0, <1>8, Effects DEF CandidatesNow
  <2>3. unit.status = "validating" /\ unit.expected = i
    BY <1>8 DEF CandidateReady, CanRecordCandidateReady, Expected
  <2>4. unit.latest = None /\ i.round = unit.round
        /\ (Strategy[i.unit] = "model" => i.attempt = unit.attempt)
    <3>1. UnitLifecycle(i.unit, unit) BY <1>0, <2>1
    <3>2. unit.latest = None BY <2>3, <3>1 DEF UnitLifecycle
    <3>3. i = [unit |-> i.unit, round |-> unit.round,
               attempt |-> IF Strategy[i.unit] = "model" THEN unit.attempt ELSE 1]
      BY <2>1, <2>3, <3>1 DEF UnitLifecycle
    <3> HIDE DEF unit
    <3>4. i.round = unit.round
          /\ i.attempt = IF Strategy[i.unit] = "model" THEN unit.attempt ELSE 1
      BY <3>3
    <3> QED BY <3>2, <3>4
  <2>5. next.latest = i /\ next.round = unit.round /\ next.attempt = unit.attempt
    BY <1>0, <2>1, UnitFields
  <2>6. CurrentCandidate(i.unit, next)
    BY <2>4, <2>5 DEF CurrentCandidate
  <2> HIDE DEF next
  <2> QED BY <1>4, <2>1, <2>2, <2>4, <2>5, <2>6
<1>9. ASSUME NEW u \in Units, RecoveredAccepted(u) PROVE NoHiddenFallback'
  <2> DEFINE c == RecoveredId(run, u)
             next == Accepted(run.units[u], c)
  <2>1. c \in CandidateId /\ c # None
    BY <1>0, <1>9, Identities, PlanningRunAssumption
  <2>2. UnitOnly(u, next) /\ run'.valid = run.valid \cup {c}
    BY <1>0, <1>9, Effects DEF CandidatesNow
  <2>3. run.units[u].latest = None
    BY <1>9 DEF RecoveredAccepted, CanAcceptRecoveredCandidate
  <2>4. c.unit = u /\ c.round = run.units[u].round /\ c.attempt = 0
    BY DEF RecoveredId
  <2>5. next.latest = c /\ next.round = run.units[u].round
    BY <1>0, <2>1, UnitFields
  <2>6. CurrentCandidate(u, next)
    BY <2>4, <2>5 DEF CurrentCandidate
  <2> HIDE DEF next, c
  <2> QED BY <1>4, <1>9, <2>1, <2>2, <2>3, <2>5, <2>6
<1>10. ASSUME NEW u \in Units, RoundExhausted(u) PROVE NoHiddenFallback'
  <2> DEFINE unit == run.units[u]
             next == [unit EXCEPT !.status = "round_exhausted"]
  <2>1. UnitOnly(u, next) /\ run'.valid = run.valid
    BY <1>0, <1>10, Effects DEF CandidatesNow
  <2>2. next.latest = unit.latest /\ next.round = unit.round /\ next.attempt = unit.attempt
    BY <1>0, <1>10, UnitFields
  <2>3. CurrentCandidate(u, next)
    BY <1>1, <1>10, <2>2 DEF CurrentCandidate
  <2> HIDE DEF next
  <2> QED BY <1>3, <1>10, <2>1, <2>2, <2>3
<1>11. ASSUME NEW T \in SUBSET Units, StartGlobalRepair(T) PROVE NoHiddenFallback'
  <2>1. \A u \in Units : run'.units[u] = IF u \in T THEN Reopened(run.units[u]) ELSE run.units[u]
    BY <1>0, <1>11 DEF StartGlobalRepair, BeginGlobalRepair, Run
  <2>2. run'.valid = run.valid \ Replaced(run, T)
    BY <1>0, <1>11 DEF StartGlobalRepair, BeginGlobalRepair, Run
  <2>3. \A u \in T : run'.units[u].latest = None
    BY <1>0, <1>11, <2>1, UnitFields
  <2>4. \A u \in Units \ T : run'.units[u] = run.units[u]
    BY <2>1
  <2>5. \A u \in Units \ T, v \in T :
          run.units[u].latest # None => run.units[u].latest # run.units[v].latest
    BY <1>1, <1>11 DEF CurrentCandidate
  <2>6. run'.valid = {run'.units[u].latest : u \in Units} \ {None}
    BY <1>1, <1>11, <2>2, <2>3, <2>4, <2>5 DEF Replaced
  <2>7. \A u \in Units : CurrentCandidate(u, run'.units[u])
    BY <1>1, <2>3, <2>4 DEF CurrentCandidate
  <2> QED BY <2>6, <2>7
<1>12. ASSUME NEW status \in {"failed", "cancelled"}, run' = Terminate(run, status)
       PROVE  NoHiddenFallback'
  <2>1. run'.valid = run.valid /\ \A u \in Units : run'.units[u] = Aborted(run.units[u])
    BY <1>0, <1>12 DEF Terminate, Run
  <2>2. \A u \in Units : /\ run'.units[u].latest = run.units[u].latest
                         /\ run'.units[u].round = run.units[u].round
                         /\ run'.units[u].attempt = run.units[u].attempt
    BY <1>0, <2>1, UnitFields
  <2>3. \A u \in Units : CurrentCandidate(u, run'.units[u])
    BY <1>1, <2>2 DEF CurrentCandidate
  <2> QED BY <1>1, <2>1, <2>2, <2>3
<1> QED
  BY <1>0, <1>2, <1>5, <1>6, <1>7, <1>8, <1>9, <1>10, <1>11, <1>12, Effects
     DEF Next, UnitNext, Fail, Cancel

\* Every step keeps registered and recorded identities apart.
LEMMA OnceStep ==
  ASSUME IInv, Next
  PROVE  AttemptOnce'
<1> USE DEF AttemptOnce
<1>0. /\ run \in Run
      /\ \A u \in Units : run.units[u] \in UnitState /\ UnitLifecycle(u, run.units[u])
      /\ Recorded(run) \subseteq CandidateId
  BY RunFields DEF IInv, TypeOK, LifecycleValid, Recorded
<1>1. AttemptOnce /\ NoHiddenFallback BY DEF IInv
<1>2. ASSUME NEW phase, PhaseOnly(phase) PROVE AttemptOnce'
  BY <1>1, <1>2 DEF PhaseOnly, Recorded
<1>3. ASSUME NEW u \in Units, NEW unit, UnitOnly(u, unit),
             CandidatesNow(run.valid, run.invalid), unit.expected \notin Recorded(run)
      PROVE  AttemptOnce'
  <2>1. \A v \in Units : run'.units[v] = IF v = u THEN unit ELSE run.units[v]
    BY <1>0, <1>3 DEF UnitOnly, Run
  <2> QED BY <1>1, <1>3, <2>1 DEF CandidatesNow, Recorded
<1>4. ASSUME NEW u \in Units, NEW unit, UnitOnly(u, unit), unit.expected = None,
             NEW c \in CandidateId, c \notin Recorded(run),
             \A v \in Units \ {u} : run.units[v].expected # c,
             \/ CandidatesNow(run.valid \cup {c}, run.invalid)
             \/ CandidatesNow(run.valid, run.invalid \cup {c})
      PROVE  AttemptOnce'
  <2>1. \A v \in Units : run'.units[v] = IF v = u THEN unit ELSE run.units[v]
    BY <1>0, <1>4 DEF UnitOnly, Run
  <2>2. Recorded(run') = Recorded(run) \cup {c}
    BY <1>4 DEF CandidatesNow, Recorded
  <2>3. None \notin Recorded(run) \cup {c}
    BY <1>0, <1>4, PlanningRunAssumption
  <2>4. \A v \in Units : run'.units[v].expected \notin Recorded(run) \cup {c}
    BY <1>1, <1>4, <2>1, <2>3
  <2>5. /\ run'.valid \cap run'.invalid = {}
        /\ run'.valid \cap run'.superseded = {}
        /\ run'.invalid \cap run'.superseded = {}
    BY <1>1, <1>4 DEF CandidatesNow, Recorded
  <2> QED BY <2>2, <2>4, <2>5
<1>5. ASSUME NEW i \in Identity, NEW v \in Units, v # i.unit
      PROVE  run.units[v].expected # i
  <2> SUFFICES ASSUME run.units[v].expected = i PROVE FALSE
    OBVIOUS
  <2>1. UnitLifecycle(v, run.units[v]) /\ i # None
    BY <1>0, <1>5, Identities
  <2>2. i = [unit |-> v, round |-> run.units[v].round,
             attempt |-> IF Strategy[v] = "model" THEN run.units[v].attempt ELSE 1]
    BY <2>1 DEF UnitLifecycle
  <2>3. i.unit = v
    BY <2>2
  <2> QED BY <1>5, <2>3
<1>6. ASSUME NEW i \in Identity, StartAttempt(i) PROVE AttemptOnce'
  <2>1. i.unit \in Units BY <1>6, Identities
  <2>2. UnitOnly(i.unit, Started(run.units[i.unit], i)) /\ CandidatesNow(run.valid, run.invalid)
    BY <1>0, <1>6, Effects
  <2>3. i \notin Recorded(run)
    BY <1>6 DEF StartAttempt, CanMarkUnitGenerating, UsedAttempts
  <2>4. Started(run.units[i.unit], i).expected = i
    BY <1>0, <2>1, UnitFields
  <2> QED BY <1>3, <2>1, <2>2, <2>3, <2>4
<1>7. ASSUME NEW i \in Identity, StartValidation(i) PROVE AttemptOnce'
  <2> DEFINE next == [run.units[i.unit] EXCEPT !.status = "validating"]
  <2>1. i.unit \in Units BY <1>7, Identities
  <2>2. UnitOnly(i.unit, next) /\ CandidatesNow(run.valid, run.invalid)
    BY <1>0, <1>7, Effects
  <2>3. next.expected = run.units[i.unit].expected
    BY <1>0, <2>1, UnitFields
  <2> HIDE DEF next
  <2> QED BY <1>1, <1>3, <2>1, <2>2, <2>3
<1>8. ASSUME NEW i \in Identity, CandidateInvalid(i) PROVE AttemptOnce'
  <2>1. i.unit \in Units /\ i \in CandidateId BY <1>8, Identities
  <2>2. UnitOnly(i.unit, Rejected(run.units[i.unit]))
        /\ CandidatesNow(run.valid, run.invalid \cup {i})
    BY <1>0, <1>8, Effects
  <2>3. i \notin Recorded(run)
    BY <1>8 DEF CandidateInvalid, CanRecordCandidateInvalid
  <2>4. Rejected(run.units[i.unit]).expected = None
    BY <1>0, <2>1, UnitFields
  <2> QED BY <1>4, <1>5, <2>1, <2>2, <2>3, <2>4
<1>9. ASSUME NEW i \in Identity, CandidateReady(i) PROVE AttemptOnce'
  <2>1. i.unit \in Units /\ i \in CandidateId BY <1>9, Identities
  <2>2. UnitOnly(i.unit, Accepted(run.units[i.unit], i))
        /\ CandidatesNow(run.valid \cup {i}, run.invalid)
    BY <1>0, <1>9, Effects
  <2>3. i \notin Recorded(run)
    BY <1>9 DEF CandidateReady, CanRecordCandidateReady
  <2>4. Accepted(run.units[i.unit], i).expected = None
    BY <1>0, <2>1, UnitFields
  <2> QED BY <1>4, <1>5, <2>1, <2>2, <2>3, <2>4
<1>10. ASSUME NEW u \in Units, RecoveredAccepted(u) PROVE AttemptOnce'
  <2> DEFINE c == RecoveredId(run, u)
             next == Accepted(run.units[u], c)
  <2>1. c \in CandidateId /\ c \notin Identity
    BY <1>0, <1>10, Identities
  <2>2. UnitOnly(u, next) /\ CandidatesNow(run.valid \cup {c}, run.invalid)
    BY <1>0, <1>10, Effects
  <2>3. c \notin Recorded(run)
    BY <1>10 DEF RecoveredAccepted, CanAcceptRecoveredCandidate
  <2>4. next.expected = None
    BY <1>0, <2>1, UnitFields
  <2>5. \A v \in Units : run.units[v].expected # c
    BY <1>0, <2>1, PlanningRunAssumption DEF UnitState
  <2> HIDE DEF next, c
  <2> QED BY <1>4, <1>10, <2>1, <2>2, <2>3, <2>4, <2>5
<1>11. ASSUME NEW u \in Units, RoundExhausted(u) PROVE AttemptOnce'
  <2> DEFINE next == [run.units[u] EXCEPT !.status = "round_exhausted"]
  <2>1. UnitOnly(u, next) /\ CandidatesNow(run.valid, run.invalid)
    BY <1>0, <1>11, Effects
  <2>2. next.expected = run.units[u].expected
    BY <1>0, <1>11, UnitFields
  <2> HIDE DEF next
  <2> QED BY <1>1, <1>3, <1>11, <2>1, <2>2
<1>12. ASSUME NEW T \in SUBSET Units, StartGlobalRepair(T) PROVE AttemptOnce'
  <2>1. \A u \in Units : run'.units[u] = IF u \in T THEN Reopened(run.units[u]) ELSE run.units[u]
    BY <1>0, <1>12 DEF StartGlobalRepair, BeginGlobalRepair, Run
  <2>2. \A u \in Units : run'.units[u].expected = run.units[u].expected
    BY <1>0, <2>1, UnitFields
  <2>3. /\ run'.valid = run.valid \ Replaced(run, T) /\ run'.invalid = run.invalid
        /\ run'.superseded = run.superseded \cup Replaced(run, T)
    BY <1>0, <1>12 DEF StartGlobalRepair, BeginGlobalRepair, Run
  <2>4. Replaced(run, T) \subseteq run.valid
    BY <1>1, <1>12 DEF Replaced, NoHiddenFallback
  <2>5. Recorded(run') = Recorded(run)
    BY <2>3, <2>4 DEF Recorded
  <2> QED BY <1>1, <2>2, <2>3, <2>4, <2>5
<1>13. ASSUME NEW status \in {"failed", "cancelled"}, run' = Terminate(run, status)
       PROVE  AttemptOnce'
  <2>1. /\ run'.valid = run.valid /\ run'.invalid = run.invalid
        /\ run'.superseded = run.superseded
        /\ \A u \in Units : run'.units[u] = Aborted(run.units[u])
    BY <1>0, <1>13 DEF Terminate, Run
  <2>2. \A u \in Units : run'.units[u].expected \in {run.units[u].expected, None}
    BY <1>0, <2>1, UnitFields
  <2>3. None \notin Recorded(run) /\ Recorded(run') = Recorded(run)
    BY <1>0, <2>1, PlanningRunAssumption DEF Recorded
  <2> QED BY <1>1, <2>1, <2>2, <2>3
<1> QED
  BY <1>0, <1>2, <1>6, <1>7, <1>8, <1>9, <1>10, <1>11, <1>12, <1>13, Effects
     DEF Next, UnitNext, Fail, Cancel

\* Every step keeps the candidates complete from assembly on.
LEMMA AssemblyStep ==
  ASSUME IInv, Next
  PROVE  AssemblyComplete'
<1> USE DEF AssemblyComplete, AllIn
<1>0. run \in Run /\ \A u \in Units : run.units[u] \in UnitState
  BY RunFields DEF IInv, TypeOK
<1>1. AssemblyComplete BY DEF IInv
<1>2. Planning \subseteq Units BY DEF Planning
<1>3. ASSUME NEW i \in Identity,
             StartAttempt(i) \/ StartValidation(i) \/ CandidateInvalid(i) \/ CandidateReady(i)
      PROVE  AssemblyComplete'
  <2>1. run.phase = "generating_units"
    BY <1>3 DEF StartAttempt, CanMarkUnitGenerating, StartValidation, CanMarkUnitValidating,
                CandidateInvalid, CanRecordCandidateInvalid, CandidateReady,
                CanRecordCandidateReady, Expected, Active
  <2>2. run'.phase = run.phase
    BY <1>0, <1>3, Effects DEF UnitOnly
  <2> QED BY <2>1, <2>2
<1>4. ASSUME NEW u \in Units, RecoveredAccepted(u) \/ RoundExhausted(u) PROVE AssemblyComplete'
  <2>1. run.phase = "generating_units"
    BY <1>4 DEF RecoveredAccepted, CanAcceptRecoveredCandidate, RoundExhausted,
                CanMarkRoundExhausted, Active
  <2>2. run'.phase = run.phase
    BY <1>0, <1>4, Effects DEF UnitOnly
  <2> QED BY <2>1, <2>2
<1>5. CASE StartGeneration
  BY <1>0, <1>5, Effects DEF PhaseOnly
<1>6. CASE StartGlobalCheck
  BY <1>0, <1>6, Effects DEF PhaseOnly
<1>7. ASSUME NEW T \in SUBSET Units, StartGlobalRepair(T) PROVE AssemblyComplete'
  <2>1. run'.phase = "generating_units"
    BY <1>0, <1>7 DEF StartGlobalRepair, BeginGlobalRepair, Run
  <2> QED BY <2>1
<1>8. CASE StartAssembly
  <2>1. PhaseOnly("assembling") BY <1>0, <1>8, Effects
  <2> QED BY <1>8, <2>1 DEF StartAssembly, CanBeginAssembly, PhaseOnly
<1>9. CASE StartGlobalValidation
  <2>1. PhaseOnly("validating") BY <1>0, <1>9, Effects
  <2> QED BY <1>1, <1>9, <2>1 DEF StartGlobalValidation, CanBeginValidation, Active, PhaseOnly
<1>10. CASE StartPendingPersistence
  <2>1. PhaseOnly("persisting_pending") BY <1>0, <1>10, Effects
  <2> QED
    BY <1>1, <1>10, <2>1
       DEF StartPendingPersistence, CanBeginPendingPersistence, Active, PhaseOnly
<1>11. ASSUME NEW status \in {"failed", "cancelled"}, run' = Terminate(run, status)
       PROVE  AssemblyComplete'
  <2>1. run'.phase = run.phase /\ \A u \in Units : run'.units[u] = Aborted(run.units[u])
    BY <1>0, <1>11 DEF Terminate, Run
  <2>2. \A u \in Units : run.units[u].status = "candidate_ready" =>
                         run'.units[u] = run.units[u]
    BY <1>0, <2>1, UnitFields DEF RoundEnded
  <2> QED BY <1>1, <1>2, <2>1, <2>2
<1> QED
  BY <1>3, <1>4, <1>5, <1>6, <1>7, <1>8, <1>9, <1>10, <1>11 DEF Next, UnitNext, Fail, Cancel

------------------------------------------------------------------------------
(* The theorems *)

\* The conjunction is an invariant of every run.
THEOREM Invariance == Spec => []IInv
<1>1. Init => IInv
  BY InitIInv
<1>2. IInv /\ [Next]_run => IInv'
  <2>1. ASSUME IInv, Next PROVE IInv'
    BY <2>1, TypeStep, LifecycleStep, ProjectionStep, FallbackStep, OnceStep, AssemblyStep
       DEF IInv
  <2>2. ASSUME IInv, UNCHANGED run PROVE IInv'
    BY <2>2 DEF IInv, TypeOK, LifecycleValid, ProjectionValid, NoHiddenFallback,
                AttemptOnce, AssemblyComplete, AllIn, Recorded
  <2> QED BY <2>1, <2>2
<1> QED BY <1>1, <1>2, PTL DEF Spec

\* Every snapshot the transitions produce is one the persistence layer accepts:
\* it has its types and passes validate_lifecycle and validate_projection.
THEOREM PersistableSnapshots == Spec => [](TypeOK /\ LifecycleValid /\ ProjectionValid)
<1>1. IInv => TypeOK /\ LifecycleValid /\ ProjectionValid
  BY DEF IInv
<1> QED BY <1>1, Invariance, PTL

\* Every field of every snapshot keeps its range.
THEOREM Typing == Spec => []TypeOK
<1>1. IInv => TypeOK
  BY DEF IInv
<1> QED BY <1>1, Invariance, PTL

\* A terminal run keeps no unit that could still be executed, and no unit is
\* reopened more often than there were global repairs (validate_projection).
THEOREM Projections == Spec => []ProjectionValid
<1>1. IInv => ProjectionValid
  BY DEF IInv
<1> QED BY <1>1, Invariance, PTL

\* The valid candidates are exactly the units' current ones, each from its
\* unit's current round: no old candidate is left to fall back on.
THEOREM OnlyCurrentCandidates == Spec => []NoHiddenFallback
<1>1. IInv => NoHiddenFallback
  BY DEF IInv
<1> QED BY <1>1, Invariance, PTL

\* No attempt identity is allocated or recorded twice, whatever the order of
\* retries, repairs, late results and aborts.
THEOREM AttemptsAllocatedOnce == Spec => []AttemptOnce
<1>1. IInv => AttemptOnce
  BY DEF IInv
<1> QED BY <1>1, Invariance, PTL

\* Assembly, validation and the hand-over to persistence have a valid candidate
\* of every planning unit.
THEOREM CompleteAssembly == Spec => []AssemblyComplete
<1>1. IInv => AssemblyComplete
  BY DEF IInv
<1> QED BY <1>1, Invariance, PTL

\* Candidates are never forgotten, and a candidate leaves the valid ones only
\* by being superseded (begin_global_repair), in every behaviour.
THEOREM HistoryKept == Spec => CandidateHistory
<1>1. ASSUME IInv, [Next]_run
      PROVE  [ /\ run.invalid \subseteq run'.invalid
               /\ run.superseded \subseteq run'.superseded
               /\ run.valid \ run'.valid \subseteq run'.superseded ]_run
  <2>0. run \in Run BY <1>1 DEF IInv, TypeOK
  <2>1. ASSUME NEW T \in SUBSET Units, StartGlobalRepair(T)
        PROVE  /\ run'.valid = run.valid \ Replaced(run, T) /\ run'.invalid = run.invalid
               /\ run'.superseded = run.superseded \cup Replaced(run, T)
    BY <2>0, <2>1 DEF StartGlobalRepair, BeginGlobalRepair, Run
  <2>2. ASSUME Fail \/ Cancel
        PROVE  /\ run'.valid = run.valid /\ run'.invalid = run.invalid
               /\ run'.superseded = run.superseded
    BY <2>0, <2>2 DEF Fail, Cancel, Terminate, Run
  <2> QED BY <1>1, <2>0, <2>1, <2>2, Effects DEF Next, UnitNext, PhaseOnly, CandidatesNow
<1> QED BY <1>1, Invariance, PTL DEF Spec, CandidateHistory

\* No transition is accepted by a failed or a cancelled run.
THEOREM TerminalStays == Spec => TerminalIsFinal
<1>1. Next => run.status = "active"
  BY DEF Next, UnitNext, Active, Expected, CanTerminate,
         StartGeneration, CanBeginGeneration, StartAttempt, CanMarkUnitGenerating,
         StartValidation, CanMarkUnitValidating, CandidateInvalid, CanRecordCandidateInvalid,
         CandidateReady, CanRecordCandidateReady, RecoveredAccepted,
         CanAcceptRecoveredCandidate, RoundExhausted, CanMarkRoundExhausted,
         StartGlobalCheck, CanBeginGlobalCheck, StartGlobalRepair, CanBeginGlobalRepair,
         StartAssembly, CanBeginAssembly, StartGlobalValidation, CanBeginValidation,
         StartPendingPersistence, CanBeginPendingPersistence, Fail, Cancel
<1>2. [Next]_run => [run.status = "active"]_run
  BY <1>1
<1> QED BY <1>2, PTL DEF Spec, TerminalIsFinal

------------------------------------------------------------------------------
(* The attempts of a round *)

\* What was recorded in the current round of a unit that is still open was
\* produced by an attempt its budget counts already.
Unspent ==
  \A c \in Recorded(run) :
    /\ c.round <= run.units[c.unit].round
    /\ run.units[c.unit].status \in {"pending"} \cup InFlight
       /\ c.round = run.units[c.unit].round
       => c.attempt \in 1..run.units[c.unit].attempt

\* The guard of mark_unit_generating against used identities never bites.
NextIsUnused ==
  \A i \in Identity :
    LET unit == run.units[i.unit]
    IN unit.status = "pending" /\ i.round = unit.round /\ i.attempt = NextAttempt(run, i.unit)
       => i \notin UsedAttempts(run)

\* Every step keeps the recorded candidates behind the counters.
LEMMA UnspentStep ==
  ASSUME IInv, Unspent, Next
  PROVE  Unspent'
<1>0. /\ run \in Run
      /\ \A u \in Units : run.units[u] \in UnitState /\ UnitLifecycle(u, run.units[u])
      /\ Recorded(run) \subseteq CandidateId
  BY RunFields DEF IInv, TypeOK, LifecycleValid, Recorded
<1>1. \A c \in CandidateId : c.unit \in Units /\ c.round \in Nat /\ c.attempt \in Nat
  BY PlanningRunAssumption DEF CandidateId
<1>2. \A u \in Units : run.units[u].round \in Nat /\ run.units[u].attempt \in Nat
  BY <1>0, PlanningRunAssumption DEF UnitState
<1>3. ASSUME NEW phase, PhaseOnly(phase) PROVE Unspent'
  BY <1>3 DEF PhaseOnly, Recorded, Unspent
<1>4. ASSUME NEW u \in Units, NEW unit, UnitOnly(u, unit),
             CandidatesNow(run.valid, run.invalid), unit.round = run.units[u].round,
             \/ unit.status \notin {"pending"} \cup InFlight
             \/ /\ run.units[u].status \in {"pending"} \cup InFlight
                /\ unit.attempt \in Nat /\ unit.attempt >= run.units[u].attempt
      PROVE  Unspent'
  <2>1. \A v \in Units : run'.units[v] = IF v = u THEN unit ELSE run.units[v]
    BY <1>0, <1>4 DEF UnitOnly, Run
  <2>2. Recorded(run') = Recorded(run)
    BY <1>4 DEF CandidatesNow, Recorded
  <2>3. ASSUME NEW c \in Recorded(run)
        PROVE  /\ c.round <= run'.units[c.unit].round
               /\ run'.units[c.unit].status \in {"pending"} \cup InFlight
                  /\ c.round = run'.units[c.unit].round
                  => c.attempt \in 1..run'.units[c.unit].attempt
    <3>1. CASE c.unit = u
      BY <1>0, <1>1, <1>2, <1>4, <2>1, <3>1 DEF Unspent
    <3>2. CASE c.unit # u
      BY <1>0, <1>1, <2>1, <3>2 DEF Unspent
    <3> QED BY <3>1, <3>2
  <2> QED BY <2>2, <2>3 DEF Unspent
<1>5. ASSUME NEW u \in Units, NEW unit, UnitOnly(u, unit), unit.round = run.units[u].round,
             NEW c \in CandidateId, c.unit = u, c.round = unit.round,
             \/ CandidatesNow(run.valid \cup {c}, run.invalid)
             \/ CandidatesNow(run.valid, run.invalid \cup {c}),
             \/ unit.status \notin {"pending"} \cup InFlight
             \/ /\ run.units[u].status \in {"pending"} \cup InFlight
                /\ unit.attempt = run.units[u].attempt /\ c.attempt \in 1..unit.attempt
      PROVE  Unspent'
  <2>1. \A v \in Units : run'.units[v] = IF v = u THEN unit ELSE run.units[v]
    BY <1>0, <1>5 DEF UnitOnly, Run
  <2>2. Recorded(run') = Recorded(run) \cup {c}
    BY <1>5 DEF CandidatesNow, Recorded
  <2>3. ASSUME NEW d \in Recorded(run)
        PROVE  /\ d.round <= run'.units[d.unit].round
               /\ run'.units[d.unit].status \in {"pending"} \cup InFlight
                  /\ d.round = run'.units[d.unit].round
                  => d.attempt \in 1..run'.units[d.unit].attempt
    <3>1. CASE d.unit = u
      BY <1>0, <1>1, <1>2, <1>5, <2>1, <3>1 DEF Unspent
    <3>2. CASE d.unit # u
      BY <1>0, <1>1, <2>1, <3>2 DEF Unspent
    <3> QED BY <3>1, <3>2
  <2>4. /\ c.round <= run'.units[c.unit].round
        /\ run'.units[c.unit].status \in {"pending"} \cup InFlight
           => c.attempt \in 1..run'.units[c.unit].attempt
    BY <1>1, <1>5, <2>1
  <2> QED BY <2>2, <2>3, <2>4 DEF Unspent
<1>6. ASSUME NEW i \in Identity, StartAttempt(i) PROVE Unspent'
  <2> DEFINE next == Started(run.units[i.unit], i)
  <2>1. i.unit \in Units BY <1>6, Identities
  <2>2. UnitOnly(i.unit, next) /\ CandidatesNow(run.valid, run.invalid)
    BY <1>0, <1>6, Effects
  <2>3. /\ next.round = run.units[i.unit].round
        /\ next.attempt = IF Strategy[i.unit] = "model" THEN i.attempt ELSE 0
    BY <1>0, <2>1, UnitFields
  <2>4. /\ run.units[i.unit].status = "pending"
        /\ Strategy[i.unit] = "model" => i.attempt = run.units[i.unit].attempt + 1
    BY <1>6 DEF StartAttempt, CanMarkUnitGenerating, NextAttempt
  <2>5. Strategy[i.unit] # "model" => run.units[i.unit].attempt = 0
    BY <1>0, <2>1 DEF UnitLifecycle
  <2>6. next.attempt \in Nat /\ next.attempt >= run.units[i.unit].attempt
    BY <1>2, <2>1, <2>3, <2>4, <2>5
  <2> HIDE DEF next
  <2> QED BY <1>4, <2>1, <2>2, <2>3, <2>4, <2>6
<1>7. ASSUME NEW i \in Identity, StartValidation(i) PROVE Unspent'
  <2> DEFINE next == [run.units[i.unit] EXCEPT !.status = "validating"]
  <2>1. i.unit \in Units BY <1>7, Identities
  <2>2. UnitOnly(i.unit, next) /\ CandidatesNow(run.valid, run.invalid)
    BY <1>0, <1>7, Effects
  <2>3. next.round = run.units[i.unit].round /\ next.attempt = run.units[i.unit].attempt
    BY <1>0, <2>1, UnitFields
  <2>4. run.units[i.unit].status \in InFlight
    BY <1>7 DEF StartValidation, CanMarkUnitValidating, Expected, InFlight
  <2> HIDE DEF next
  <2>5. next.attempt \in Nat /\ next.attempt >= run.units[i.unit].attempt
    BY <1>2, <2>1, <2>3
  <2> QED BY <1>4, <2>1, <2>2, <2>3, <2>4, <2>5
<1>8. ASSUME NEW i \in Identity, CandidateInvalid(i) PROVE Unspent'
  <2> DEFINE unit == run.units[i.unit]
             next == Rejected(unit)
  <2>1. i.unit \in Units /\ i \in CandidateId BY <1>8, Identities
  <2>2. UnitOnly(i.unit, next) /\ CandidatesNow(run.valid, run.invalid \cup {i})
    BY <1>0, <1>8, Effects
  <2>3. /\ unit.status \in InFlight /\ unit.expected = i /\ Strategy[i.unit] = "model"
    BY <1>8 DEF CandidateInvalid, CanRecordCandidateInvalid, Expected
  <2>4. i.round = unit.round /\ i.attempt = unit.attempt
    <3>1. i = [unit |-> i.unit, round |-> unit.round, attempt |-> unit.attempt]
      BY <1>0, <1>8, <2>1, <2>3, Identities DEF UnitLifecycle
    <3> QED BY <3>1
  <2>5. next.round = unit.round /\ next.attempt = unit.attempt
    BY <1>0, <2>1 DEF Rejected, UnitState
  <2>6. i.attempt \in 1..next.attempt
    <3>1. i.attempt \in 1..LocalMax BY <1>8 DEF Identity
    <3> QED BY <2>4, <2>5, <3>1, PlanningRunAssumption
  <2> HIDE DEF next, unit
  <2> QED BY <1>5, <2>1, <2>2, <2>3, <2>4, <2>5, <2>6 DEF unit
<1>9. ASSUME NEW i \in Identity, CandidateReady(i) PROVE Unspent'
  <2> DEFINE next == Accepted(run.units[i.unit], i)
  <2>1. i.unit \in Units /\ i \in CandidateId /\ i # None BY <1>9, Identities
  <2>2. UnitOnly(i.unit, next) /\ CandidatesNow(run.valid \cup {i}, run.invalid)
    BY <1>0, <1>9, Effects
  <2>3. run.units[i.unit].expected = i
    BY <1>9 DEF CandidateReady, CanRecordCandidateReady, Expected
  <2>4. i.round = run.units[i.unit].round
    <3>1. i = [unit |-> i.unit, round |-> run.units[i.unit].round,
               attempt |-> IF Strategy[i.unit] = "model" THEN run.units[i.unit].attempt ELSE 1]
      BY <1>0, <2>1, <2>3 DEF UnitLifecycle
    <3> QED BY <3>1
  <2>5. next.round = run.units[i.unit].round /\ next.status = "candidate_ready"
    BY <1>0, <2>1, UnitFields
  <2> HIDE DEF next
  <2> QED BY <1>5, <2>1, <2>2, <2>4, <2>5 DEF InFlight
<1>10. ASSUME NEW u \in Units, RecoveredAccepted(u) PROVE Unspent'
  <2> DEFINE c == RecoveredId(run, u)
             next == Accepted(run.units[u], c)
  <2>1. c \in CandidateId /\ c.unit = u /\ c.round = run.units[u].round
    BY <1>0, <1>10, Identities DEF RecoveredId
  <2>2. UnitOnly(u, next) /\ CandidatesNow(run.valid \cup {c}, run.invalid)
    BY <1>0, <1>10, Effects
  <2>3. next.round = run.units[u].round /\ next.status = "candidate_ready"
    BY <1>0, <1>10, <2>1, UnitFields
  <2> HIDE DEF next, c
  <2> QED BY <1>5, <1>10, <2>1, <2>2, <2>3 DEF InFlight
<1>11. ASSUME NEW u \in Units, RoundExhausted(u) PROVE Unspent'
  <2> DEFINE next == [run.units[u] EXCEPT !.status = "round_exhausted"]
  <2>1. UnitOnly(u, next) /\ CandidatesNow(run.valid, run.invalid)
    BY <1>0, <1>11, Effects
  <2>2. next.round = run.units[u].round /\ next.status = "round_exhausted"
    BY <1>0, <1>11, UnitFields
  <2> HIDE DEF next
  <2> QED BY <1>4, <1>11, <2>1, <2>2 DEF InFlight
<1>12. ASSUME NEW T \in SUBSET Units, StartGlobalRepair(T) PROVE Unspent'
  <2>1. \A u \in Units : run'.units[u] = IF u \in T THEN Reopened(run.units[u]) ELSE run.units[u]
    BY <1>0, <1>12 DEF StartGlobalRepair, BeginGlobalRepair, Run
  <2>2. \A u \in T : Reopened(run.units[u]).round = run.units[u].round + 1
    BY <1>0, UnitFields
  <2>3. /\ run'.valid = run.valid \ Replaced(run, T) /\ run'.invalid = run.invalid
        /\ run'.superseded = run.superseded \cup Replaced(run, T)
    BY <1>0, <1>12 DEF StartGlobalRepair, BeginGlobalRepair, Run
  <2>4. Replaced(run, T) \subseteq run.valid
    BY <1>12 DEF Replaced, IInv, NoHiddenFallback
  <2>5. Recorded(run') = Recorded(run)
    BY <2>3, <2>4 DEF Recorded
  <2>6. ASSUME NEW c \in Recorded(run)
        PROVE  /\ c.round <= run'.units[c.unit].round
               /\ run'.units[c.unit].status \in {"pending"} \cup InFlight
                  /\ c.round = run'.units[c.unit].round
                  => c.attempt \in 1..run'.units[c.unit].attempt
    <3>1. CASE c.unit \in T
      BY <1>0, <1>1, <1>2, <2>1, <2>2, <3>1 DEF Unspent
    <3>2. CASE c.unit \notin T
      BY <1>0, <1>1, <2>1, <3>2 DEF Unspent
    <3> QED BY <3>1, <3>2
  <2> QED BY <2>5, <2>6 DEF Unspent
<1>13. ASSUME NEW status \in {"failed", "cancelled"}, run' = Terminate(run, status)
       PROVE  Unspent'
  <2>1. /\ run'.valid = run.valid /\ run'.invalid = run.invalid
        /\ run'.superseded = run.superseded
        /\ \A u \in Units : run'.units[u] = Aborted(run.units[u])
    BY <1>0, <1>13 DEF Terminate, Run
  <2>2. \A u \in Units : /\ run'.units[u].round = run.units[u].round
                         /\ run'.units[u].status \notin {"pending"} \cup InFlight
    BY <1>0, <2>1, UnitFields
  <2>3. Recorded(run') = Recorded(run)
    BY <2>1 DEF Recorded
  <2> QED BY <1>0, <1>1, <2>2, <2>3 DEF Unspent
<1> QED
  BY <1>0, <1>3, <1>6, <1>7, <1>8, <1>9, <1>10, <1>11, <1>12, <1>13, Effects
     DEF Next, UnitNext, Fail, Cancel

\* By the counters and the types, the next attempt of a pending unit is new.
LEMMA UnusedNext ==
  ASSUME IInv, Unspent
  PROVE  NextIsUnused
<1>0. /\ run \in Run
      /\ \A u \in Units : run.units[u] \in UnitState /\ UnitLifecycle(u, run.units[u])
  BY RunFields DEF IInv, TypeOK, LifecycleValid
<1> SUFFICES ASSUME NEW i \in Identity, run.units[i.unit].status = "pending",
                    i.round = run.units[i.unit].round,
                    i.attempt = NextAttempt(run, i.unit)
             PROVE  i \notin UsedAttempts(run)
  BY DEF NextIsUnused
<1>1. i.unit \in Units /\ i # None BY Identities
<1>2. i \notin Recorded(run)
  <2>1. run.units[i.unit].attempt \in Nat
    BY <1>0, <1>1, PlanningRunAssumption DEF UnitState
  <2>2. Strategy[i.unit] # "model" => run.units[i.unit].attempt = 0
    BY <1>0, <1>1 DEF UnitLifecycle
  <2>3. i.attempt = run.units[i.unit].attempt + 1
    BY <2>1, <2>2 DEF NextAttempt
  <2> QED BY <2>1, <2>3 DEF Unspent
<1>3. ASSUME NEW u \in Units PROVE run.units[u].expected # i
  <2> SUFFICES ASSUME run.units[u].expected = i PROVE FALSE
    OBVIOUS
  <2>1. u = i.unit
    <3>1. i = [unit |-> u, round |-> run.units[u].round,
               attempt |-> IF Strategy[u] = "model" THEN run.units[u].attempt ELSE 1]
      BY <1>0, <1>1 DEF UnitLifecycle
    <3> QED BY <3>1
  <2> QED BY <1>0, <1>1, <2>1 DEF UnitLifecycle, InFlight
<1> QED BY <1>2, <1>3 DEF UsedAttempts

\* A pending unit can always be started: no candidate, whatever became of it, has
\* the identity of its next attempt.
THEOREM FreshAttempts == Spec => []NextIsUnused
<1>1. Init => Unspent
  BY DEF Init, NewRun, Unspent, Recorded
<1>2. IInv /\ Unspent /\ [Next]_run => Unspent'
  <2>1. ASSUME Unspent, UNCHANGED run PROVE Unspent'
    BY <2>1 DEF Unspent, Recorded
  <2> QED BY <2>1, UnspentStep
<1>3. IInv /\ Unspent => NextIsUnused
  BY UnusedNext
<1> QED BY <1>1, <1>2, <1>3, Invariance, PTL DEF Spec

------------------------------------------------------------------------------
(* The ledger of model attempts *)

\* The identities a unit has spent, in the rounds it closed and in its own: the
\* set BudgetLedger counts.
Earlier(u, unit) ==
  LET closed == {h \in {unit.history[k] : k \in 1..Len(unit.history)} : h.attempt > 0}
  IN UNION {{[unit |-> u, round |-> h.round, attempt |-> a] : a \in 1..h.attempt} : h \in closed}
Current(u, unit) == {[unit |-> u, round |-> unit.round, attempt |-> a] : a \in 1..unit.attempt}
Spent(u, unit) == Earlier(u, unit) \cup Current(u, unit)

Counted(u, unit) == IsFiniteSet(Spent(u, unit)) /\ unit.total = Cardinality(Spent(u, unit))

Ledger ==
  /\ \A u \in Units : Counted(u, run.units[u])
  /\ \A c \in Recorded(run) :
       Strategy[c.unit] = "model" /\ c.attempt > 0 => c \in Spent(c.unit, run.units[c.unit])

\* The earlier identities are of closed rounds, hence of rounds before this one.
LEMMA EarlierRounds ==
  ASSUME NEW u \in Units, NEW unit \in UnitState, UnitLifecycle(u, unit)
  PROVE  \A x \in Earlier(u, unit) : x.round < unit.round
<1> SUFFICES ASSUME NEW x \in Earlier(u, unit) PROVE x.round < unit.round
  OBVIOUS
<1>1. PICK k \in 1..Len(unit.history) : \E a \in 1..unit.history[k].attempt :
        x = [unit |-> u, round |-> unit.history[k].round, attempt |-> a]
  BY DEF Earlier
<1>2. unit.history[k].round = k /\ Len(unit.history) = unit.round - 1
  BY DEF UnitLifecycle
<1>3. unit.round \in Nat
  BY PlanningRunAssumption DEF UnitState
<1> QED BY <1>1, <1>2, <1>3

\* What counts is the history, the round and the attempt.
LEMMA SameSpent ==
  ASSUME NEW u, NEW a, NEW b, a.history = b.history, a.round = b.round, a.attempt = b.attempt
  PROVE  Spent(u, a) = Spent(u, b)
BY DEF Spent, Earlier, Current

\* A started attempt of a model unit is one more identity, of no closed round
\* and above the others of its own.
LEMMA StartedSpent ==
  ASSUME NEW i \in Identity, NEW unit \in UnitState, UnitLifecycle(i.unit, unit),
         i.unit \in Units, Counted(i.unit, unit), i.round = unit.round,
         Strategy[i.unit] = "model", i.attempt = unit.attempt + 1
  PROVE  /\ Spent(i.unit, Started(unit, i)) = Spent(i.unit, unit) \cup {i}
         /\ Counted(i.unit, Started(unit, i))
<1> DEFINE next == Started(unit, i)
           u == i.unit
<1>1. /\ next.history = unit.history /\ next.round = unit.round
      /\ next.attempt = unit.attempt + 1 /\ next.total = unit.total + 1
  BY DEF Started, UnitState
<1>2. unit.attempt \in Nat /\ unit.total \in Nat
  BY PlanningRunAssumption DEF UnitState
<1>3. i = [unit |-> u, round |-> unit.round, attempt |-> unit.attempt + 1]
  BY DEF Identity
<1>4. Earlier(u, next) = Earlier(u, unit)
  BY <1>1 DEF Earlier
<1>5. Current(u, next) = Current(u, unit) \cup {i}
  <2>1. 1..next.attempt = (1..unit.attempt) \cup {unit.attempt + 1}
    BY <1>1, <1>2
  <2> HIDE DEF next, u
  <2> QED BY <1>1, <1>3, <2>1 DEF Current
<1>6. Spent(u, next) = Spent(u, unit) \cup {i}
  BY <1>4, <1>5 DEF Spent
<1>7. i \notin Spent(u, unit)
  <2>1. i \notin Earlier(u, unit)
    <3>1. unit.round \in Nat BY PlanningRunAssumption DEF UnitState
    <3> QED BY <3>1, EarlierRounds
  <2>2. i \notin Current(u, unit)
    <3> SUFFICES ASSUME NEW a \in 1..unit.attempt,
                        i = [unit |-> u, round |-> unit.round, attempt |-> a]
                 PROVE  FALSE
      BY DEF Current
    <3>1. i.attempt = a OBVIOUS
    <3> QED BY <1>2, <3>1
  <2> QED BY <2>1, <2>2 DEF Spent
<1>8. IsFiniteSet(Spent(u, unit)) /\ unit.total = Cardinality(Spent(u, unit))
  BY DEF Counted
<1> HIDE DEF next, u
<1>9. /\ IsFiniteSet(Spent(u, unit) \cup {i})
      /\ Cardinality(Spent(u, unit) \cup {i}) = Cardinality(Spent(u, unit)) + 1
  BY <1>7, <1>8, FS_AddElement
<1> QED BY <1>1, <1>6, <1>8, <1>9 DEF Counted, next, u

\* Reopening a unit moves the identities of its round to the closed ones.
LEMMA ReopenedSpent ==
  ASSUME NEW u \in Units, NEW unit \in UnitState
  PROVE  /\ Spent(u, Reopened(unit)) = Spent(u, unit)
         /\ Reopened(unit).total = unit.total
<1> DEFINE next == Reopened(unit)
           h == [round |-> unit.round, attempt |-> unit.attempt,
                 status |-> unit.status, candidate |-> unit.latest]
           n == Len(unit.history)
<1>1. /\ next.history = Append(unit.history, h) /\ next.attempt = 0
      /\ next.total = unit.total
  BY DEF Reopened, UnitState
<1>2. unit.history \in Seq(History) /\ unit.attempt \in Nat
  BY PlanningRunAssumption DEF UnitState
<1>3. n \in Nat /\ Len(next.history) = n + 1
  BY <1>1, <1>2
<1>4. next.history[n + 1] = h /\ \A k \in 1..n : next.history[k] = unit.history[k]
  BY <1>1, <1>2
<1>5. Current(u, next) = {}
  BY <1>1 DEF Current
<1>6. Earlier(u, next) = Earlier(u, unit) \cup Current(u, unit)
  <2> DEFINE H(s) == {g \in {s[k] : k \in 1..Len(s)} : g.attempt > 0}
             I(g) == {[unit |-> u, round |-> g.round, attempt |-> a] : a \in 1..g.attempt}
  <2>1. I(h) = Current(u, unit)
    BY DEF Current
  <2>2. {next.history[k] : k \in 1..Len(next.history)}
          = {unit.history[k] : k \in 1..Len(unit.history)} \cup {h}
    <3>1. 1..(n + 1) = (1..n) \cup {n + 1} BY <1>3
    <3> HIDE DEF next, h
    <3> QED BY <1>3, <1>4, <3>1
  <2>3. h.attempt = unit.attempt
    OBVIOUS
  <2> HIDE DEF next, h
  <2>4. CASE unit.attempt > 0
    <3>1. H(next.history) = H(unit.history) \cup {h}
      BY <2>2, <2>3, <2>4
    <3>2. UNION {I(g) : g \in H(next.history)} = (UNION {I(g) : g \in H(unit.history)}) \cup I(h)
      <4> HIDE DEF I, H
      <4> QED BY <3>1
    <3> QED BY <2>1, <3>2 DEF Earlier
  <2>5. CASE ~(unit.attempt > 0)
    <3>1. H(next.history) = H(unit.history)
      BY <2>2, <2>3, <2>5
    <3>2. UNION {I(g) : g \in H(next.history)} = UNION {I(g) : g \in H(unit.history)}
      <4> HIDE DEF I, H
      <4> QED BY <3>1
    <3>3. Current(u, unit) = {}
      BY <1>2, <2>5 DEF Current
    <3> QED BY <3>2, <3>3 DEF Earlier
  <2> QED BY <2>4, <2>5
<1> QED BY <1>1, <1>5, <1>6 DEF Spent

\* Every step keeps the ledger.
LEMMA LedgerStep ==
  ASSUME IInv, Ledger, Next
  PROVE  Ledger'
<1>0. /\ run \in Run
      /\ \A u \in Units : run.units[u] \in UnitState /\ UnitLifecycle(u, run.units[u])
      /\ Recorded(run) \subseteq CandidateId /\ \A c \in CandidateId : c.unit \in Units
  BY RunFields DEF IInv, TypeOK, LifecycleValid, Recorded, CandidateId
<1>1. ASSUME NEW phase, PhaseOnly(phase) PROVE Ledger'
  BY <1>1 DEF PhaseOnly, Recorded, Ledger
<1>2. ASSUME NEW u \in Units, NEW unit, UnitOnly(u, unit), Counted(u, unit),
             Spent(u, run.units[u]) \subseteq Spent(u, unit),
             \A c \in Recorded(run') \ Recorded(run) :
               c.unit = u /\ (Strategy[u] = "model" /\ c.attempt > 0 => c \in Spent(u, unit))
      PROVE  Ledger'
  <2>1. \A v \in Units : run'.units[v] = IF v = u THEN unit ELSE run.units[v]
    BY <1>0, <1>2 DEF UnitOnly, Run
  <2>2. \A v \in Units : Counted(v, run'.units[v])
    BY <1>2, <2>1 DEF Ledger
  <2>3. ASSUME NEW c \in Recorded(run), Strategy[c.unit] = "model", c.attempt > 0
        PROVE  c \in Spent(c.unit, run'.units[c.unit])
    <3>1. c.unit \in Units /\ c \in Spent(c.unit, run.units[c.unit])
      BY <1>0, <2>3 DEF Ledger
    <3>2. CASE c.unit = u BY <1>2, <2>1, <3>1, <3>2
    <3>3. CASE c.unit # u BY <2>1, <3>1, <3>3
    <3> QED BY <3>2, <3>3
  <2>4. ASSUME NEW c \in Recorded(run') \ Recorded(run), Strategy[c.unit] = "model", c.attempt > 0
        PROVE  c \in Spent(c.unit, run'.units[c.unit])
    BY <1>2, <2>1, <2>4
  <2> QED BY <1>2, <2>2, <2>3, <2>4 DEF Ledger
<1>3. ASSUME NEW u \in Units, NEW unit, UnitOnly(u, unit),
             unit.history = run.units[u].history, unit.round = run.units[u].round,
             unit.attempt = run.units[u].attempt, unit.total = run.units[u].total,
             \A c \in Recorded(run') \ Recorded(run) :
               c.unit = u /\ (Strategy[u] = "model" /\ c.attempt > 0 => c \in Spent(u, unit))
      PROVE  Ledger'
  <2>1. Spent(u, unit) = Spent(u, run.units[u])
    BY <1>3, SameSpent
  <2>2. Counted(u, unit)
    BY <1>3, <2>1 DEF Ledger, Counted
  <2> QED BY <1>2, <1>3, <2>1, <2>2
<1>4. ASSUME NEW i \in Identity, StartAttempt(i) PROVE Ledger'
  <2> DEFINE unit == run.units[i.unit]
             next == Started(unit, i)
  <2>1. i.unit \in Units BY <1>4, Identities
  <2>2. UnitOnly(i.unit, next) /\ CandidatesNow(run.valid, run.invalid)
    BY <1>0, <1>4, Effects
  <2>3. Recorded(run') = Recorded(run)
    BY <2>2 DEF CandidatesNow, Recorded
  <2>4. /\ i.round = unit.round
        /\ Strategy[i.unit] = "model" => i.attempt = unit.attempt + 1
    BY <1>4 DEF StartAttempt, CanMarkUnitGenerating, NextAttempt
  <2>5. Counted(i.unit, unit)
    BY <2>1 DEF Ledger
  <2>6. CASE Strategy[i.unit] = "model"
    <3>1. Spent(i.unit, next) = Spent(i.unit, unit) \cup {i} /\ Counted(i.unit, next)
      BY <1>0, <2>1, <2>4, <2>5, <2>6, StartedSpent
    <3> HIDE DEF next
    <3> QED BY <1>2, <2>1, <2>2, <2>3, <3>1
  <2>7. CASE Strategy[i.unit] # "model"
    <3>1. /\ next.history = unit.history /\ next.round = unit.round
          /\ next.attempt = 0 /\ next.total = unit.total
      BY <1>0, <2>1, <2>7 DEF Started, UnitState
    <3>2. unit.attempt = 0
      BY <1>0, <2>1, <2>7 DEF UnitLifecycle
    <3> HIDE DEF next
    <3> QED BY <1>3, <2>1, <2>2, <2>3, <3>1, <3>2
  <2> QED BY <2>6, <2>7
<1>5. ASSUME NEW i \in Identity, StartValidation(i) PROVE Ledger'
  <2> DEFINE next == [run.units[i.unit] EXCEPT !.status = "validating"]
  <2>1. i.unit \in Units BY <1>5, Identities
  <2>2. UnitOnly(i.unit, next) /\ CandidatesNow(run.valid, run.invalid)
    BY <1>0, <1>5, Effects
  <2>3. Recorded(run') = Recorded(run)
    BY <2>2 DEF CandidatesNow, Recorded
  <2>4. /\ next.history = run.units[i.unit].history /\ next.round = run.units[i.unit].round
        /\ next.attempt = run.units[i.unit].attempt /\ next.total = run.units[i.unit].total
    BY <1>0, <2>1 DEF UnitState
  <2> HIDE DEF next
  <2> QED BY <1>3, <2>1, <2>2, <2>3, <2>4
<1>6. ASSUME NEW i \in Identity, CandidateInvalid(i) \/ CandidateReady(i) PROVE Ledger'
  <2> DEFINE unit == run.units[i.unit]
  <2>1. i.unit \in Units /\ i # None /\ i \in CandidateId BY <1>6, Identities
  <2>2. PICK next \in {Rejected(unit), Accepted(unit, i)} : UnitOnly(i.unit, next)
    BY <1>0, <1>6, Effects
  <2>3. Recorded(run') = Recorded(run) \cup {i}
    BY <1>0, <1>6, Effects DEF CandidatesNow, Recorded
  <2>4. /\ next.history = unit.history /\ next.round = unit.round
        /\ next.attempt = unit.attempt /\ next.total = unit.total
    BY <1>0, <2>1, <2>2 DEF Rejected, Accepted, UnitState
  <2>5. ASSUME Strategy[i.unit] = "model" PROVE i \in Spent(i.unit, next)
    <3>1. unit.expected = i
      BY <1>6 DEF CandidateInvalid, CanRecordCandidateInvalid, CandidateReady,
                  CanRecordCandidateReady, Expected
    <3>2. i = [unit |-> i.unit, round |-> unit.round, attempt |-> unit.attempt]
      BY <1>0, <2>1, <2>5, <3>1 DEF UnitLifecycle
    <3>3. unit.attempt \in 1..unit.attempt
      <4>1. i.attempt \in 1..LocalMax BY DEF Identity
      <4>2. i.attempt = unit.attempt BY <3>2
      <4> QED BY <4>1, <4>2, PlanningRunAssumption
    <3> QED BY <2>4, <3>2, <3>3 DEF Spent, Current
  <2> QED BY <1>3, <2>1, <2>2, <2>3, <2>4, <2>5
<1>7. ASSUME NEW u \in Units, RecoveredAccepted(u) PROVE Ledger'
  <2> DEFINE c == RecoveredId(run, u)
             next == Accepted(run.units[u], c)
  <2>1. c.unit = u /\ c.attempt = 0
    BY DEF RecoveredId
  <2>2. UnitOnly(u, next) /\ Recorded(run') = Recorded(run) \cup {c}
    BY <1>0, <1>7, Effects DEF CandidatesNow, Recorded
  <2>3. /\ next.history = run.units[u].history /\ next.round = run.units[u].round
        /\ next.attempt = run.units[u].attempt /\ next.total = run.units[u].total
    BY <1>0 DEF Accepted, UnitState
  <2> HIDE DEF next, c
  <2> QED BY <1>3, <2>1, <2>2, <2>3
<1>8. ASSUME NEW u \in Units, RoundExhausted(u) PROVE Ledger'
  <2> DEFINE next == [run.units[u] EXCEPT !.status = "round_exhausted"]
  <2>1. UnitOnly(u, next) /\ Recorded(run') = Recorded(run)
    BY <1>0, <1>8, Effects DEF CandidatesNow, Recorded
  <2>2. /\ next.history = run.units[u].history /\ next.round = run.units[u].round
        /\ next.attempt = run.units[u].attempt /\ next.total = run.units[u].total
    BY <1>0 DEF UnitState
  <2> HIDE DEF next
  <2> QED BY <1>3, <2>1, <2>2
<1>9. ASSUME NEW T \in SUBSET Units, StartGlobalRepair(T) PROVE Ledger'
  <2>1. \A u \in Units : run'.units[u] = IF u \in T THEN Reopened(run.units[u]) ELSE run.units[u]
    BY <1>0, <1>9 DEF StartGlobalRepair, BeginGlobalRepair, Run
  <2>2. \A u \in Units : /\ Spent(u, run'.units[u]) = Spent(u, run.units[u])
                         /\ run'.units[u].total = run.units[u].total
    BY <1>0, <2>1, ReopenedSpent
  <2>3. /\ run'.valid = run.valid \ Replaced(run, T) /\ run'.invalid = run.invalid
        /\ run'.superseded = run.superseded \cup Replaced(run, T)
    BY <1>0, <1>9 DEF StartGlobalRepair, BeginGlobalRepair, Run
  <2>4. Replaced(run, T) \subseteq run.valid
    BY <1>9 DEF Replaced, IInv, NoHiddenFallback
  <2>5. Recorded(run') = Recorded(run)
    BY <2>3, <2>4 DEF Recorded
  <2> QED BY <1>0, <2>2, <2>5 DEF Ledger, Counted
<1>10. ASSUME NEW status \in {"failed", "cancelled"}, run' = Terminate(run, status)
       PROVE  Ledger'
  <2>1. /\ run'.valid = run.valid /\ run'.invalid = run.invalid
        /\ run'.superseded = run.superseded
        /\ \A u \in Units : run'.units[u] = Aborted(run.units[u])
    BY <1>0, <1>10 DEF Terminate, Run
  <2>2. \A u \in Units : /\ run'.units[u].history = run.units[u].history
                         /\ run'.units[u].round = run.units[u].round
                         /\ run'.units[u].attempt = run.units[u].attempt
                         /\ run'.units[u].total = run.units[u].total
    BY <1>0, <2>1 DEF Aborted, UnitState
  <2>3. \A u \in Units : Spent(u, run'.units[u]) = Spent(u, run.units[u])
    BY <2>2, SameSpent
  <2>4. Recorded(run') = Recorded(run)
    BY <2>1 DEF Recorded
  <2> QED BY <1>0, <2>2, <2>3, <2>4 DEF Ledger, Counted
<1> QED
  BY <1>0, <1>1, <1>4, <1>5, <1>6, <1>7, <1>8, <1>9, <1>10, Effects
     DEF Next, UnitNext, Fail, Cancel

\* The cumulative count of a unit is the number of model attempts its rounds were
\* charged, and every candidate it generated is one of them.
THEOREM Budgets == Spec => []BudgetLedger
<1>1. Init => Ledger
  <2> SUFFICES ASSUME Init PROVE Ledger
    OBVIOUS
  <2>1. Recorded(run) = {}
    BY DEF Init, NewRun, Recorded
  <2>2. ASSUME NEW u \in Units PROVE Counted(u, run.units[u])
    <3>1. run.units[u].history = <<>> /\ run.units[u].attempt = 0 /\ run.units[u].total = 0
      BY <2>2 DEF Init, NewRun, NewUnit
    <3>2. Spent(u, run.units[u]) = {}
      BY <3>1 DEF Spent, Earlier, Current
    <3> QED BY <3>1, <3>2, FS_EmptySet DEF Counted
  <2> QED BY <2>1, <2>2 DEF Ledger
<1>2. IInv /\ Ledger /\ [Next]_run => Ledger'
  <2>1. ASSUME Ledger, UNCHANGED run PROVE Ledger'
    BY <2>1 DEF Ledger, Recorded
  <2> QED BY <2>1, LedgerStep
<1>3. Ledger => BudgetLedger
  <2> SUFFICES ASSUME Ledger, NEW u \in Units
               PROVE  /\ run.units[u].total = Cardinality(Spent(u, run.units[u]))
                      /\ Strategy[u] = "model" =>
                           {c \in Recorded(run) : c.unit = u /\ c.attempt > 0}
                             \subseteq Spent(u, run.units[u])
    BY DEF BudgetLedger, Spent, Earlier, Current
  <2> QED BY DEF Ledger, Counted
<1> QED BY <1>1, <1>2, <1>3, Invariance, PTL DEF Spec

=============================================================================

----------------------- MODULE UnitGenerationScheduler -----------------------
(***************************************************************************)
(* One planning run end to end: the orchestrator task (plan_dag_sequential *)
(* with run_global_repair_loop and UnitGenerationScheduler.run_round), the *)
(* model workers of a generation round, and the PlanningRunController all  *)
(* of them commit through.                                                 *)
(*                                                                         *)
(* Everything runs on one asyncio loop, so the code between two awaits is  *)
(* one atomic step.  pc names the await a task is suspended in; the action *)
(* that leaves it is the continuation up to the next await.                *)
(***************************************************************************)
EXTENDS Naturals, Sequences, FiniteSets

CONSTANTS Units, Strategy, LocalMax, GlobalLimit, None,
          UnitOrder,    \* planning_unit_ids
          Concurrency,  \* min(configured concurrency, MAX_MODEL_CONCURRENCY)
          Recoverable,  \* units whose earlier candidate still passes validation
          Main,         \* the orchestrator task
          MaxFaults,    \* bound: failing writes, failing publications, unexpected errors
          MaxCancels    \* bound: calls of task.cancel() on the orchestrator

Workers == 1..Concurrency
Tasks == Workers \cup {Main}

VARIABLES
  snapshot,    \* controller._snapshot, the last committed run
  lockQ,       \* controller._lock: its holder, then its waiters, in FIFO order
  call,        \* the event each task is applying, None if it applies none
  tx,          \* the commit of each task's event: its stage and proposed run
  cancelled,   \* tasks with an undelivered cancellation
  pc, job,     \* where each task awaits, the job each worker holds
  queue, unfinished,           \* asyncio.Queue: items and join counter
  aborting, fatal, failures,   \* run_round's nonlocal flags
  todo,        \* units still to recover, or deterministic units still to run
  faults, cancels              \* counters of the two bounds

ctrl == <<snapshot, lockQ, call, tx, faults>>
round == <<queue, unfinished, aborting, fatal, failures>>
vars == <<ctrl, cancelled, pc, job, round, todo, cancels>>

R == INSTANCE PlanningRun WITH run <- snapshot

\* What a worker does next: one attempt of a model unit.
Jobs == [id : R!Identity, local : BOOLEAN]

\* The events by what they name: an attempt, a unit, the targets of a repair or
\* nothing.
AttemptEvents == {"UnitAttemptStarted", "UnitValidationStarted", "CandidateInvalid",
                  "CandidateReady"}
UnitEvents == {"RecoveredCandidateAccepted", "RoundExhausted"}
Events == AttemptEvents \cup UnitEvents \cup
  {"GenerationStarted", "GlobalCheckStarted", "GlobalRepairStarted", "AssemblyStarted",
   "GlobalValidationStarted", "PendingPersistenceStarted", "RunFailed", "RunCancelled"}
Arguments == R!Identity \cup Units \cup {None} \cup (SUBSET Units)

\* The planning units are ordered, a worker is not the orchestrator, and no
\* identity, snapshot, job or event is None.
ASSUME SchedulerAssumption ==
  /\ IsFiniteSet(Units) /\ Strategy \in [Units -> R!Strategies]
  /\ LocalMax \in Nat \ {0} /\ GlobalLimit \in Nat
  /\ UnitOrder \in Seq(R!Planning)
  /\ \A u \in R!Planning : \E k \in DOMAIN UnitOrder : UnitOrder[k] = u
  /\ \A k, l \in DOMAIN UnitOrder : UnitOrder[k] = UnitOrder[l] => k = l
  /\ Concurrency \in Nat \ {0} /\ Main \notin Workers
  /\ MaxFaults \in Nat /\ MaxCancels \in Nat
  /\ None \notin R!CandidateId /\ None \notin R!Run /\ None \notin Jobs
  /\ None \notin [type : Events, arg : Arguments]

Ended == {"returned", "run_failed", "error", "cancelled"}
MainPcs == Ended \cup
  {"begin", "recover", "det_start", "det_validate", "det_ready", "det_fail",
   "join", "gather", "check", "assemble", "validate", "repair", "fail_run",
   "persist", "cancel_det", "cancel_round", "cancel_gather", "cancel_run"}
WorkerPcs == {"get", "start", "generate", "validate", "invalid", "exhaust",
              "ready", "fail", "done"}

------------------------------------------------------------------------------
(* PlanningRunController.apply *)

Event(type, arg) == [type |-> type, arg |-> arg]

\* _TRANSITIONS: whether the event's transition accepts the snapshot ...
Legal(e) ==
  CASE e.type = "GenerationStarted" -> R!CanBeginGeneration(snapshot)
    [] e.type = "UnitAttemptStarted" -> R!CanMarkUnitGenerating(snapshot, e.arg)
    [] e.type = "UnitValidationStarted" -> R!CanMarkUnitValidating(snapshot, e.arg)
    [] e.type = "CandidateInvalid" -> R!CanRecordCandidateInvalid(snapshot, e.arg)
    [] e.type = "CandidateReady" -> R!CanRecordCandidateReady(snapshot, e.arg)
    [] e.type = "RecoveredCandidateAccepted" -> R!CanAcceptRecoveredCandidate(snapshot, e.arg)
    [] e.type = "RoundExhausted" -> R!CanMarkRoundExhausted(snapshot, e.arg)
    [] e.type = "GlobalCheckStarted" -> R!CanBeginGlobalCheck(snapshot)
    [] e.type = "GlobalRepairStarted" -> R!CanBeginGlobalRepair(snapshot, e.arg)
    [] e.type = "AssemblyStarted" -> R!CanBeginAssembly(snapshot)
    [] e.type = "GlobalValidationStarted" -> R!CanBeginValidation(snapshot)
    [] e.type = "PendingPersistenceStarted" -> R!CanBeginPendingPersistence(snapshot)
    [] e.type \in {"RunFailed", "RunCancelled"} -> R!CanTerminate(snapshot)

\* ... and the snapshot it proposes.
Proposed(e) ==
  CASE e.type = "GenerationStarted" -> R!BeginGeneration(snapshot)
    [] e.type = "UnitAttemptStarted" -> R!MarkUnitGenerating(snapshot, e.arg)
    [] e.type = "UnitValidationStarted" -> R!MarkUnitValidating(snapshot, e.arg)
    [] e.type = "CandidateInvalid" -> R!RecordCandidateInvalid(snapshot, e.arg)
    [] e.type = "CandidateReady" -> R!RecordCandidateReady(snapshot, e.arg)
    [] e.type = "RecoveredCandidateAccepted" -> R!AcceptRecoveredCandidate(snapshot, e.arg)
    [] e.type = "RoundExhausted" -> R!MarkRoundExhausted(snapshot, e.arg)
    [] e.type = "GlobalCheckStarted" -> R!BeginGlobalCheck(snapshot)
    [] e.type = "GlobalRepairStarted" -> R!BeginGlobalRepair(snapshot, e.arg)
    [] e.type = "AssemblyStarted" -> R!BeginAssembly(snapshot)
    [] e.type = "GlobalValidationStarted" -> R!BeginValidation(snapshot)
    [] e.type = "PendingPersistenceStarted" -> R!BeginPendingPersistence(snapshot)
    [] e.type = "RunFailed" -> R!Terminate(snapshot, "failed")
    [] e.type = "RunCancelled" -> R!Terminate(snapshot, "cancelled")

\* Events the gate drops without a commit: a repeated cancel, a result nobody
\* waits for any more, a repeated start of the validation.
Ignored(e) ==
  \/ e.type = "RunCancelled" /\ snapshot.status # "active"
  \/ /\ e.type \in {"UnitValidationStarted", "CandidateInvalid", "CandidateReady"}
     /\ ~R!AcceptsAttempt(snapshot, e.arg)
  \/ /\ e.type = "UnitValidationStarted"
     /\ snapshot.units[e.arg.unit].status = "validating"

NoTx == [stage |-> "none", run |-> None]

\* A task is in the lock queue once, while it applies an event.
Place(t) == CHOOSE k \in DOMAIN lockQ : lockQ[k] = t

Without(t) ==
  IF call[t] = None THEN lockQ
  ELSE [k \in 1..(Len(lockQ) - 1) |-> IF k < Place(t) THEN lockQ[k] ELSE lockQ[k + 1]]

\* A bug: nobody waits for the lock, every event is evaluated at once.
AnyoneHolds(t) == call[t] # None

HoldsLock(t) == lockQ # <<>> /\ Head(lockQ) = t

Committing(t, stage) == HoldsLock(t) /\ tx[t].stage = stage

\* A bug: a task that returns from apply keeps its place in the lock queue.
LeavesLocked(t) == UNCHANGED lockQ /\ call' = [call EXCEPT ![t] = None]

\* A task that awaits apply queues for the lock; a task that returns from
\* apply and calls it again queues behind those already waiting.
Submits(t, e) ==
  /\ lockQ' = Append(Without(t), t)
  /\ call' = [call EXCEPT ![t] = e]

Leaves(t) == lockQ' = Without(t) /\ call' = [call EXCEPT ![t] = None]

\* The transition is evaluated under the lock and the commit task is created.
BeginCommit(t) ==
  /\ Committing(t, "none") /\ t \notin cancelled
  /\ ~Ignored(call[t]) /\ Legal(call[t])
  /\ tx' = [tx EXCEPT ![t] = [stage |-> "write", run |-> Proposed(call[t])]]
  /\ UNCHANGED <<snapshot, lockQ, call, faults, cancelled, pc, job, round, todo, cancels>>

\* _commit, up to the publication: the file is replaced, then the snapshot.
CommitWrites(t) ==
  /\ Committing(t, "write")
  /\ snapshot' = tx[t].run
  /\ tx' = [tx EXCEPT ![t] = [stage |-> "publish", run |-> None]]
  /\ UNCHANGED <<lockQ, call, faults, cancelled, pc, job, round, todo, cancels>>

\* How apply returns to task t.  A cancellation that arrives during the commit
\* waits for its end, and is lost when the commit fails.
Returns(t, result) ==
  /\ UNCHANGED snapshot
  /\ \/ /\ Committing(t, "none") /\ t \notin cancelled
        /\ \/ Ignored(call[t]) /\ result = "ok"
           \/ ~Ignored(call[t]) /\ ~Legal(call[t]) /\ result = "illegal"
        /\ UNCHANGED <<tx, faults>>
     \/ /\ call[t] # None /\ tx[t].stage = "none" /\ t \in cancelled
        /\ result = "cancelled"
        /\ UNCHANGED <<tx, faults>>
     \/ /\ Committing(t, "publish")
        /\ result = IF t \in cancelled THEN "cancelled" ELSE "ok"
        /\ tx' = [tx EXCEPT ![t] = NoTx]
        /\ UNCHANGED faults
     \/ /\ \/ Committing(t, "write") /\ result = "persistence"
           \/ Committing(t, "publish") /\ result = "projection"
        /\ faults < MaxFaults /\ faults' = faults + 1
        /\ tx' = [tx EXCEPT ![t] = NoTx]

------------------------------------------------------------------------------
(* Worker tasks: UnitGenerationScheduler.run_round.worker                    *)

UnitStatus(u) == snapshot.units[u].status

NextJob(u) ==
  [id |-> [unit |-> u, round |-> snapshot.units[u].round,
           attempt |-> snapshot.units[u].attempt + 1],
   local |-> snapshot.units[u].issues = "local"]

\* The checks of run_unit_generation_attempt before its first await.
JobCurrent(j) ==
  /\ R!Active(snapshot, {"generating_units"})
  /\ Strategy[j.id.unit] = "model" /\ UnitStatus(j.id.unit) = "pending"
  /\ snapshot.units[j.id.unit].attempt < LocalMax
  /\ j = NextJob(j.id.unit)

Draining == aborting \/ snapshot.status # "active"

\* task_done and back to queue.get, or the end of the task.
Idles(w) ==
  /\ pc' = [pc EXCEPT ![w] = "get"] /\ job' = [job EXCEPT ![w] = None]
  /\ unfinished' = unfinished - 1
Quits(w) ==
  /\ pc' = [pc EXCEPT ![w] = "done"] /\ job' = [job EXCEPT ![w] = None]
  /\ unfinished' = unfinished - 1

WorkerTakes(w) ==
  /\ pc[w] = "get" /\ w \notin cancelled /\ queue # <<>>
  /\ queue' = Tail(queue)
  /\ LET j == Head(queue)
     IN CASE j = None ->
               Quits(w) /\ UNCHANGED <<lockQ, call, failures>>
          [] j # None /\ Draining ->
               Idles(w) /\ UNCHANGED <<lockQ, call, failures>>
          [] j # None /\ ~Draining /\ ~JobCurrent(j) ->
               Idles(w) /\ failures' = TRUE /\ UNCHANGED <<lockQ, call>>
          [] OTHER ->
               /\ Submits(w, Event("UnitAttemptStarted", j.id))
               /\ pc' = [pc EXCEPT ![w] = "start"]
               /\ job' = [job EXCEPT ![w] = j]
               /\ UNCHANGED <<unfinished, failures>>
  /\ UNCHANGED <<snapshot, tx, faults, cancelled, aborting, fatal, todo, cancels>>

\* The except clause and the finally of the worker for an apply that raised.
\* Only an error of the three fatal types, and only after its RunFailed was
\* applied, stops the round; that case is WorkerFatal below.
WorkerRaises(w, result) ==
  /\ Leaves(w)
  /\ IF result = "cancelled" \/ snapshot.status # "active"
     THEN Quits(w) /\ UNCHANGED failures
     ELSE Idles(w) /\ failures' = TRUE
  /\ UNCHANGED <<queue, aborting, fatal>>

Goes(w, next, e) ==
  /\ Submits(w, e) /\ pc' = [pc EXCEPT ![w] = next]
  /\ UNCHANGED <<job, round>>

\* The attempt was committed: a unit left pending is queued again at the tail.
AttemptEnds(w) ==
  LET u == job[w].id.unit
  IN /\ Leaves(w)
     /\ CASE Draining -> Quits(w) /\ UNCHANGED queue
          [] ~Draining /\ UnitStatus(u) = "pending" ->
               /\ queue' = Append(queue, NextJob(u))
               /\ pc' = [pc EXCEPT ![w] = "get"] /\ job' = [job EXCEPT ![w] = None]
               /\ UNCHANGED unfinished   \* put_nowait and task_done cancel out
          [] OTHER -> Idles(w) /\ UNCHANGED queue
     /\ UNCHANGED <<aborting, fatal, failures>>

\* What remains to frame when w's apply returned.
Resumed(w) == cancelled' = cancelled \ {w} /\ UNCHANGED <<todo, cancels>>

WorkerStarted(w) ==
  /\ pc[w] = "start"
  /\ \E result \in {"ok", "illegal", "persistence", "projection", "cancelled"} :
       /\ Returns(w, result)
       /\ IF result = "ok"
          THEN Leaves(w) /\ pc' = [pc EXCEPT ![w] = "generate"] /\ UNCHANGED <<job, round>>
          ELSE WorkerRaises(w, result)
  /\ Resumed(w)

\* The model session ends: with tasks, with local issues of its own, with a
\* failure that ends the run (infrastructure, platform, a foreign result), or with
\* an error nobody expects, which leaves the unit generating.  A provider may
\* swallow a cancellation and still deliver.
WorkerGenerated(w) ==
  /\ pc[w] = "generate"
  /\ \/ Goes(w, "validate", Event("UnitValidationStarted", job[w].id)) /\ UNCHANGED faults
     \/ Goes(w, "invalid", Event("CandidateInvalid", job[w].id)) /\ UNCHANGED faults
     \/ Goes(w, "fail", Event("RunFailed", None)) /\ UNCHANGED faults
     \/ WorkerRaises(w, "error") /\ faults < MaxFaults /\ faults' = faults + 1
  /\ Resumed(w) /\ UNCHANGED <<snapshot, tx>>

WorkerValidated(w) ==
  /\ pc[w] = "validate"
  /\ \/ /\ Returns(w, "ok")
        /\ \/ Goes(w, "ready", Event("CandidateReady", job[w].id))
           \/ Goes(w, "invalid", Event("CandidateInvalid", job[w].id))
           \/ Goes(w, "fail", Event("RunFailed", None))
     \/ \E result \in {"illegal", "persistence", "projection", "cancelled"} :
          Returns(w, result) /\ WorkerRaises(w, result)
  /\ Resumed(w)

\* A bug: the round is only exhausted one attempt later.
BudgetSpentLate(u) == snapshot.units[u].attempt > LocalMax

BudgetSpent(u) == snapshot.units[u].attempt = LocalMax

WorkerInvalid(w) ==
  /\ pc[w] = "invalid"
  /\ \/ /\ Returns(w, "ok")
        /\ IF BudgetSpent(job[w].id.unit)
           THEN Goes(w, "exhaust", Event("RoundExhausted", job[w].id.unit))
           ELSE AttemptEnds(w)
     \/ \E result \in {"illegal", "persistence", "projection", "cancelled"} :
          Returns(w, result) /\ WorkerRaises(w, result)
  /\ Resumed(w)

WorkerCommitted(w) ==
  /\ pc[w] \in {"exhaust", "ready"}
  /\ \/ Returns(w, "ok") /\ AttemptEnds(w)
     \/ \E result \in {"illegal", "persistence", "projection", "cancelled"} :
          Returns(w, result) /\ WorkerRaises(w, result)
  /\ Resumed(w)

Alive == {w \in Workers : pc[w] # "done"}

\* A bug: the discarded jobs are not counted as done.
StopWithoutTaskDone(w) ==
  /\ fatal' = TRUE /\ aborting' = TRUE
  /\ queue' = <<>> /\ unfinished' = unfinished - 1
  /\ cancelled' = (cancelled \cup Alive) \ {w}

\* A bug: the siblings are left running.
StopKeepsSiblings(w) ==
  /\ fatal' = TRUE /\ aborting' = TRUE
  /\ queue' = <<>> /\ unfinished' = unfinished - Len(queue) - 1
  /\ cancelled' = cancelled \ {w}

\* stop_for_fatal: keep the first fatal error, drop the queued jobs, cancel
\* the siblings.
StopForFatal(w) ==
  IF fatal
  THEN /\ unfinished' = unfinished - 1
       /\ cancelled' = cancelled \ {w}
       /\ UNCHANGED <<fatal, aborting, queue>>
  ELSE /\ fatal' = TRUE /\ aborting' = TRUE
       /\ queue' = <<>> /\ unfinished' = unfinished - Len(queue) - 1
       /\ cancelled' = (cancelled \cup Alive) \ {w}

WorkerFatal(w) ==
  /\ pc[w] = "fail"
  /\ Returns(w, "ok")
  /\ Leaves(w)
  /\ pc' = [pc EXCEPT ![w] = "done"] /\ job' = [job EXCEPT ![w] = None]
  /\ StopForFatal(w)
  /\ UNCHANGED <<failures, todo, cancels>>

WorkerFailRejected(w) ==
  /\ pc[w] = "fail"
  /\ \E result \in {"illegal", "persistence", "projection", "cancelled"} :
       Returns(w, result) /\ WorkerRaises(w, result)
  /\ Resumed(w)

WorkerCancelled(w) ==
  /\ w \in cancelled /\ pc[w] \in {"get", "generate"}
  /\ pc' = [pc EXCEPT ![w] = "done"] /\ job' = [job EXCEPT ![w] = None]
  /\ unfinished' = IF pc[w] = "generate" THEN unfinished - 1 ELSE unfinished
  /\ cancelled' = cancelled \ {w}
  /\ UNCHANGED <<ctrl, queue, aborting, fatal, failures, todo, cancels>>

WorkerStep(w) ==
  \/ WorkerTakes(w) \/ WorkerStarted(w) \/ WorkerGenerated(w)
  \/ WorkerValidated(w) \/ WorkerInvalid(w) \/ WorkerCommitted(w)
  \/ WorkerFatal(w) \/ WorkerFailRejected(w) \/ WorkerCancelled(w)

------------------------------------------------------------------------------
(* The orchestrator task: plan_dag_sequential, run_round, the repair loop    *)

\* The orchestrator's next await is an apply of e.
Awaits(next, e) ==
  /\ Submits(Main, e) /\ pc' = [pc EXCEPT ![Main] = next]
  /\ UNCHANGED <<job, round>>

Finishes(end) ==
  /\ Leaves(Main) /\ pc' = [pc EXCEPT ![Main] = end]
  /\ UNCHANGED <<job, round, todo>>

Before(u, v) ==
  \E k, l \in DOMAIN UnitOrder : k < l /\ UnitOrder[k] = u /\ UnitOrder[l] = v

\* The units of S in the order of the plan: there is one such sequence.
InOrder(S) ==
  {s \in [1..Cardinality(S) -> S] :
     /\ \A u \in S : \E k \in DOMAIN s : s[k] = u
     /\ \A k, l \in DOMAIN s : k < l => Before(s[k], s[l])}

\* A bug: a round regenerates every unit, the ready ones included.
AllOf(strategy) == {u \in Units : Strategy[u] = strategy}

PendingOf(strategy) == {u \in Units : Strategy[u] = strategy /\ UnitStatus(u) = "pending"}

DeterministicId(u) == [unit |-> u, round |-> snapshot.units[u].round, attempt |-> 1]

\* complete_generation_round, checked again before its event is applied.
EntersBarrier ==
  IF R!AllIn(snapshot, R!RoundEnded)
  THEN Awaits("check", Event("GlobalCheckStarted", None)) /\ UNCHANGED todo
  ELSE Finishes("error")

\* The model units are queued in order and the pool is started on them.
StartsPool(models) ==
  /\ queue' = [k \in 1..Len(models) |-> NextJob(models[k])]
  /\ unfinished' = Len(models)
  /\ aborting' = FALSE /\ fatal' = FALSE /\ failures' = FALSE
  /\ pc' = [t \in Tasks |-> IF t = Main THEN "join"
                            ELSE IF t <= Len(models) THEN "get" ELSE "done"]
  /\ Leaves(Main) /\ todo' = <<>> /\ UNCHANGED job

StartsWorkers ==
  IF PendingOf("model") = {} THEN EntersBarrier
  ELSE \E models \in InOrder(PendingOf("model")) : StartsPool(models)

\* run_round: deterministic units first, one after the other, then the pool.
RunsDeterministic(units) ==
  IF units = <<>> THEN StartsWorkers
  ELSE /\ todo' = units
       /\ Awaits("det_start", Event("UnitAttemptStarted", DeterministicId(Head(units))))

StartsRound ==
  \E units \in InOrder(PendingOf("deterministic")) : RunsDeterministic(units)

\* Recovered candidates are accepted one by one before the first round.
Recovers(units) ==
  IF units = <<>> THEN StartsRound
  ELSE /\ todo' = units
       /\ Awaits("recover", Event("RecoveredCandidateAccepted", Head(units)))

\* run_global_repair_loop: an empty set of targets stands for a decision that
\* is not retryable.
Decides(targets) ==
  /\ IF targets = {} \/ snapshot.globalRound >= GlobalLimit
     THEN Awaits("fail_run", Event("RunFailed", None))
     ELSE Awaits("repair", Event("GlobalRepairStarted", targets))
  /\ UNCHANGED todo

MainBegun ==
  /\ pc[Main] = "begin" /\ Returns(Main, "ok")
  /\ \E S \in SUBSET (Recoverable \cap R!Planning) : \E units \in InOrder(S) : Recovers(units)

MainRecovered == pc[Main] = "recover" /\ Returns(Main, "ok") /\ Recovers(Tail(todo))

MainDeterministicStarted ==
  /\ pc[Main] = "det_start" /\ Returns(Main, "ok") /\ UNCHANGED todo
  /\ \/ Awaits("det_validate", Event("UnitValidationStarted", DeterministicId(Head(todo))))
     \/ Awaits("det_fail", Event("RunFailed", None))

MainDeterministicValidated ==
  /\ pc[Main] = "det_validate" /\ Returns(Main, "ok") /\ UNCHANGED todo
  /\ Awaits("det_ready", Event("CandidateReady", DeterministicId(Head(todo))))

MainDeterministicReady ==
  pc[Main] = "det_ready" /\ Returns(Main, "ok") /\ RunsDeterministic(Tail(todo))

\* A bug: the barrier opens when the queue is empty, not when it is joined.
JoinOnEmptyQueue == queue = <<>>

Joined == unfinished = 0

\* queue.join() returned: without a fatal error the idle workers get a sentinel
\* each (those the code puts for workers already gone are never read).
MainJoined ==
  /\ pc[Main] = "join" /\ Main \notin cancelled /\ Joined
  /\ pc' = [pc EXCEPT ![Main] = "gather"]
  /\ IF fatal THEN UNCHANGED <<queue, unfinished>>
     ELSE /\ queue' = queue \o [k \in 1..Cardinality(Alive) |-> None]
          /\ unfinished' = unfinished + Cardinality(Alive)
  /\ UNCHANGED <<ctrl, cancelled, job, aborting, fatal, failures, todo, cancels>>

MainGathered ==
  /\ pc[Main] = "gather" /\ Main \notin cancelled /\ Alive = {}
  /\ CASE fatal -> Finishes("run_failed")
       [] ~fatal /\ failures -> Finishes("error")
       [] OTHER -> EntersBarrier
  /\ UNCHANGED <<snapshot, tx, faults>>

MainChecked ==
  /\ pc[Main] = "check" /\ Returns(Main, "ok")
  /\ IF R!AllIn(snapshot, {"candidate_ready"})
     THEN Awaits("assemble", Event("AssemblyStarted", None)) /\ UNCHANGED todo
     ELSE Decides({u \in Units : UnitStatus(u) = "round_exhausted"})

\* Assembly may fail with issues attributed to some units, or to none.
MainAssembled ==
  /\ pc[Main] = "assemble" /\ Returns(Main, "ok")
  /\ \/ Awaits("validate", Event("GlobalValidationStarted", None)) /\ UNCHANGED todo
     \/ \E T \in SUBSET R!Planning : Decides(T)

\* Compilation issues are platform issues: never retryable.
MainValidated ==
  /\ pc[Main] = "validate" /\ Returns(Main, "ok")
  /\ \/ Awaits("persist", Event("PendingPersistenceStarted", None)) /\ UNCHANGED todo
     \/ Decides({})

MainRepaired == pc[Main] = "repair" /\ Returns(Main, "ok") /\ StartsRound

MainEnds ==
  \/ pc[Main] = "persist" /\ Returns(Main, "ok") /\ Finishes("returned")
  \/ pc[Main] \in {"fail_run", "det_fail"} /\ Returns(Main, "ok") /\ Finishes("run_failed")
  \/ \E result \in {"illegal", "persistence", "projection"} :
       Returns(Main, result) /\ Finishes("error")

------------------------------------------------------------------------------
(* Cancellation of the orchestrator task                                     *)

AwaitsCancel(next) == Awaits(next, Event("RunCancelled", None)) /\ UNCHANGED todo

\* run_round's handler: stop the dispatch, then record the cancellation.
CancelsRound ==
  /\ Submits(Main, Event("RunCancelled", None))
  /\ pc' = [pc EXCEPT ![Main] = "cancel_round"]
  /\ aborting' = TRUE /\ queue' = <<>> /\ unfinished' = unfinished - Len(queue)
  /\ UNCHANGED <<job, fatal, failures, todo>>

\* A bug: only the await of the round is guarded by a handler.
CancelledOutsideRound ==
  /\ Returns(Main, "cancelled")
  /\ IF pc[Main] = "check" THEN CancelsRound ELSE Finishes("cancelled")

\* The CancelledError raised out of an apply goes to the handler around it.
MainCancelledInApply ==
  /\ Returns(Main, "cancelled")
  /\ CASE pc[Main] \in {"det_start", "det_validate", "det_ready"} -> AwaitsCancel("cancel_det")
       [] pc[Main] = "check" -> CancelsRound
       [] pc[Main] \in {"det_fail", "persist", "cancel_run"} -> Finishes("cancelled")
       [] OTHER -> AwaitsCancel("cancel_run")

\* gather without a fatal error raises at once, with one only when all are done.
MainCancelledInRound ==
  /\ Main \in cancelled
  /\ pc[Main] = "join" \/ (pc[Main] = "gather" /\ (fatal => Alive = {}))
  /\ CancelsRound
  /\ UNCHANGED <<snapshot, tx, faults>>

MainCancelCommitted ==
  /\ pc[Main] = "cancel_det" /\ Returns(Main, "ok")
  /\ AwaitsCancel("cancel_run")

\* A bug: the handler does not wait for the workers it cancelled.
MainCancelDoesNotGather ==
  /\ pc[Main] = "cancel_gather"
  /\ AwaitsCancel("cancel_run")
  /\ UNCHANGED <<snapshot, tx, faults>>

MainCancelGathered ==
  /\ pc[Main] = "cancel_gather" /\ Alive = {}
  /\ AwaitsCancel("cancel_run")
  /\ UNCHANGED <<snapshot, tx, faults>>

MainCancelEnds == pc[Main] = "cancel_run" /\ Returns(Main, "ok") /\ Finishes("cancelled")

MainResumes ==
  /\ \/ MainBegun \/ MainRecovered \/ MainDeterministicStarted
     \/ MainDeterministicValidated \/ MainDeterministicReady \/ MainGathered
     \/ MainChecked \/ MainAssembled \/ MainValidated \/ MainRepaired \/ MainEnds
     \/ MainCancelledInApply \/ MainCancelledInRound \/ MainCancelCommitted
     \/ MainCancelGathered \/ MainCancelEnds
  /\ cancelled' = cancelled \ {Main}
  /\ UNCHANGED cancels

\* After the cancellation is recorded the workers still alive are cancelled.
MainCancelsWorkers ==
  /\ pc[Main] = "cancel_round" /\ Returns(Main, "ok") /\ Leaves(Main)
  /\ pc' = [pc EXCEPT ![Main] = "cancel_gather"]
  /\ cancelled' = (cancelled \cup Alive) \ {Main}
  /\ UNCHANGED <<job, round, todo, cancels>>

MainStep == MainResumes \/ MainJoined \/ MainCancelsWorkers

\* task.cancel() by the workflow registry; gather passes it on to its children.
\* Taking a free lock and creating the commit do not suspend, so there is no
\* cancellation between the two.
CancelMain ==
  /\ cancels < MaxCancels /\ cancels' = cancels + 1
  /\ ~Committing(Main, "none")
  /\ pc[Main] \notin Ended /\ Main \notin cancelled
  /\ cancelled' = cancelled \cup {Main}
       \cup (IF pc[Main] \in {"gather", "cancel_gather"} THEN Alive ELSE {})
  /\ UNCHANGED <<ctrl, pc, job, round, todo>>

------------------------------------------------------------------------------
Init ==
  /\ R!Init
  /\ lockQ = <<Main>>
  /\ call = [t \in Tasks |-> IF t = Main THEN Event("GenerationStarted", None) ELSE None]
  /\ tx = [t \in Tasks |-> NoTx] /\ cancelled = {}
  /\ pc = [t \in Tasks |-> IF t = Main THEN "begin" ELSE "done"]
  /\ job = [w \in Workers |-> None]
  /\ queue = <<>> /\ unfinished = 0
  /\ aborting = FALSE /\ fatal = FALSE /\ failures = FALSE
  /\ todo = <<>> /\ faults = 0 /\ cancels = 0

CommitStep(t) == BeginCommit(t) \/ CommitWrites(t)

Next ==
  \/ \E t \in Tasks : CommitStep(t)
  \/ \E w \in Workers : WorkerStep(w)
  \/ MainStep
  \/ CancelMain

Spec == Init /\ [][Next]_vars

\* The event loop runs every ready task, a write or a publication ends, and a
\* model session ends because the whole session has a timeout.
Fairness ==
  /\ \A t \in Tasks : WF_vars(CommitStep(t))
  /\ \A w \in Workers : WF_vars(WorkerStep(w))
  /\ WF_vars(MainStep)

FairSpec == Spec /\ Fairness

------------------------------------------------------------------------------
(* Properties *)

EventOk(e) ==
  /\ e = Event(e.type, e.arg) /\ e.type \in Events
  /\ e.type \in AttemptEvents => e.arg \in R!Identity
  /\ e.type \in UnitEvents => e.arg \in R!Planning
  /\ e.type = "GlobalRepairStarted" => e.arg \in SUBSET R!Planning

\* Ranges of the variables; a task is in the lock queue exactly while it
\* applies an event, and a transaction belongs to the lock's holder.
TypeOK ==
  /\ R!TypeOK
  /\ pc \in [Tasks -> MainPcs \cup WorkerPcs]
  /\ pc[Main] \in MainPcs /\ \A w \in Workers : pc[w] \in WorkerPcs
  /\ job \in [Workers -> Jobs \cup {None}]
  /\ queue \in Seq(Jobs \cup {None}) /\ unfinished \in Nat
  /\ DOMAIN call = Tasks /\ \A t \in Tasks : call[t] # None => EventOk(call[t])
  /\ lockQ \in Seq(Tasks)
  /\ {lockQ[k] : k \in DOMAIN lockQ} = {t \in Tasks : call[t] # None}
  /\ DOMAIN tx = Tasks
  /\ \A t \in Tasks :
       /\ tx[t] = [stage |-> tx[t].stage, run |-> tx[t].run]
       /\ tx[t].stage \in {"none", "write", "publish"}
       /\ tx[t].stage # "write" => tx[t].run = None
       /\ tx[t].stage # "none" => HoldsLock(t)
  /\ cancelled \subseteq Tasks
  /\ aborting \in BOOLEAN /\ fatal \in BOOLEAN /\ failures \in BOOLEAN
  /\ todo \in Seq(R!Planning)
  /\ faults \in 0..MaxFaults /\ cancels \in 0..MaxCancels

\* The controller with all its concurrent callers makes exactly the steps of
\* one PlanningRun: no interleaving of proposals loses an update, no late
\* result or repeated event changes the run.
ImplementsPlanningRun == R!Spec

\* The join counter is the queued items plus the items being worked on: the
\* round barrier neither opens early nor waits for an item nobody holds.
JoinCounter ==
  unfinished = Len(queue) + Cardinality({w \in Workers : pc[w] \notin {"get", "done"}})

\* While the round is dispatching, every queued job is the next attempt of a
\* pending unit with that unit's newest feedback, no unit is queued twice, and
\* no unit is queued while a worker has it: the attempt identity fixed at
\* enqueue time is still the right one when a worker takes the job.
QueuedJobsCurrent ==
  pc[Main] = "join" /\ ~Draining =>
    \A k \in DOMAIN queue :
      /\ JobCurrent(queue[k])
      /\ \A l \in DOMAIN queue : queue[l].id.unit = queue[k].id.unit => l = k
      /\ \A w \in Workers : job[w] # None => job[w].id.unit # queue[k].id.unit

\* While the run is active no caller applies an event the transitions reject:
\* illegal transitions only ever come from callers that lost a race against
\* the end of the run.
RejectedOnlyAfterTheEnd ==
  \A t \in Tasks : Committing(t, "none") /\ snapshot.status = "active" =>
    Ignored(call[t]) \/ Legal(call[t])

\* How the orchestrator ends agrees with how the run ended.  The plan is handed
\* over only from a run ready to be persisted; a run that failed is reported
\* with its own failure, not with an error of a sibling or about the aborted
\* units (a cancellation may win over it); and without a failing write or
\* publication no internal check of the round ever raises.
OutcomeMatchesRun ==
  /\ pc[Main] = "returned" =>
       /\ R!Active(snapshot, {"persisting_pending"})
       /\ R!AllIn(snapshot, {"candidate_ready"})
  /\ pc[Main] = "run_failed" => snapshot.status = "failed"
  /\ faults = 0 /\ pc[Main] \in Ended =>
       /\ pc[Main] # "error"
       /\ snapshot.status = "failed" => pc[Main] \in {"run_failed", "cancelled"}

\* run_round waits for all its workers: none is alive once the orchestrator
\* ended, whichever way it ended.
NoWorkerOutlivesTheRun == pc[Main] \in Ended => Alive = {}

\* The cancellation of the orchestrator before its last await is recorded: the
\* CancelledError leaves it only with a terminal run.  The last apply, of
\* PendingPersistenceStarted, stands outside of the handler.
CancelBeforeLastAwaitIsRecorded ==
  pc[Main] = "cancelled" /\ snapshot.phase # "persisting_pending" => snapshot.status # "active"

\* run_round returns after the whole round: the orchestrator does not wait at
\* the barrier for ever.
RoundEnds == (pc[Main] = "join") ~> (pc[Main] # "join")

\* Local retries, global repairs and the round barrier all end: the
\* orchestrator comes to an end, and the workers with it.
RunEnds == <>[](pc[Main] \in Ended /\ Alive = {})

==============================================================================

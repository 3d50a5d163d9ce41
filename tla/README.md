# XCodeAgent: a TLA+ model of its planning, its runs and its Build

XCodeAgent turns a confirmed application plan into code. Its backend
(`src/Backend/app`) first splits the application into *units* (pages, services,
contracts, ...), lets a pool of model sessions generate the build tasks of each
unit, assembles them into one DAG, validates it, and stores it as a *pending
draft* which the user confirms or abandons. Only a confirmed draft is executed.

This directory models the planning side (the state machine of one planning run,
everything that drives it concurrently, and the life of the drafts it produces
under several chat sessions), the workflow runs of the workbench with their
stops, ends, retries and crashes, the Build that executes a confirmed plan, and
the durable transaction that updates template files. All paths below are relative
to `src/Backend/app` unless they start with `src/`.

## 1. Inventory

| Component | State | Operations | Interacts with | Modelled in |
|---|---|---|---|---|
| PlanningRun (`services/planning_run.py`, `planning_run_contracts.py`) | status, phase, global round; per unit: status, round, attempt, cumulative attempts, current candidate, history, expected attempt; sets of valid, invalid and superseded candidates | 16 pure transitions, pydantic validators | called by the controller | `PlanningRun` |
| PlanningRunController (`services/planning_run_controller.py`) | last committed snapshot, `asyncio.Lock`, the commit in flight | `apply(event)` | all tasks of the run; the run file; the publisher | `UnitGenerationScheduler` |
| Unit generation scheduler (`services/unit_generation_scheduler.py`) | `asyncio.Queue`, workers, abort, fatal and failure flags | `run_round`, `stop_for_fatal` | workers call the attempt function, which calls the controller | `UnitGenerationScheduler` |
| Attempts and barrier (`services/unit_generation_orchestrator.py`) | the frozen job of a worker | allocate, run an attempt, pass the barrier | controller, model session | `UnitGenerationScheduler` |
| Orchestrator and repair loop (`services/dag_planning_orchestrator.py`, `global_repair_orchestrator.py`) | where the run is | recover, generate, check, repair, assemble, validate, hand over | scheduler, controller | `UnitGenerationScheduler` |
| Global validation and attribution (`services/global_planning_validation.py`, `global_issue_attribution.py`) | none | pure functions on task documents | repair loop | free choice of targets |
| Draft lifecycle (`services/build_task_plan_lifecycle.py`, `build_task_planning_service.py`, `dag_planning_regeneration.py`, `planning_refresh_recovery.py`) | pending file, formal file, tombstone, regeneration fact, run file | persist, confirm, abandon, release, regenerate, refresh | workflow nodes and control requests under the workspace lock | `DraftLifecycle` |
| Run control (`protocols/workflow/run_control.py`, `runtime.py`, `services/run_workers.py`, `workspace_process_registry.py`, `stopped_run_cleanup.py`, `failed_run_cleanup.py`, `execution_cleanup.py`) | in memory: registry of streams, worker threads, fence of cancelled runs | register, run nodes in threads, finish, fail, cancel, stop and wait, clean up | lifecycle document, durable records, drafts | `RunLifecycle`; a planning task's cancellation in `UnitGenerationScheduler` |
| Application lifecycle (`domain/application_lifecycle.py`, `services/application_lifecycle.py`, `planning_execution_end.py`) | versioned document: active and ended executions, gates, resource locks, tombstone | admit, start, hand over, wait, fail, stop, end, abandon | drafts, run control, recovery | `RunLifecycle` (executions, archive, locks), `DraftLifecycle` (admission, gates, tombstone) |
| Execution recovery (`persistence/execution_recovery.py`, `services/execution_recovery_scanner.py`, `execution_recovery_projection.py`, `business_node_retry.py`, `retry_preparation.py`, `execution_recovery_executor.py`) | durable records with leases, checkpoints | finish, scan for orphans, project, retry, withdraw; native claims and attempts | run control, lifecycle document | `RunLifecycle`; the native recovery is not modelled |
| Build DAG execution (`graph/subgraphs/build.py`, `services/build_scheduler.py`, `build_repair_planner.py`, `build_restart.py`, `workspace/task_documents.py`) | formal plan with statuses, execution record per run, graph values | bind, prepare, dispatch batches, ask, repair, record, finalize, retry, resume | confirmed plan, retry, user | `BuildScheduling` |
| Template transaction (`services/template_reconcile/transaction_v4.py`, `service.py`) | journal of images, manifest, managed files | recover, read, prepare, replace, commit, clear | user's files | `TemplateTransaction` |
| Run lease (`services/execution_lease_heartbeat.py` and the records) | leases | heartbeat, lapse | orphan scan | only the lapse, `Interrupt` |
| Launchers, preview, deletion, UI pool, graphs, frontend | | | | not modelled (processes, I/O, wiring) |

What is hard here: all tasks of a run share one event loop, so the code between
two awaits is atomic, but every commit awaits a file write and a publication
under a lock, shielded from cancellation; results come back in any order and
after the run ended; retries, repairs and failures nest; and the transitions
copy snapshots without running their validators. Around a run, the sessions of an
application share one set of plan files; the files are written in critical
sections without a transaction over them, planning lies between two of these
sections, and requests name drafts that may be gone. A workflow run is known to
four places, memory, the lifecycle document, a durable record and a checkpoint,
which are written one after the other, and its nodes work in threads that no
cancellation stops. A Build keeps its progress in three places and is entered
again by retries and answers. `PROJECT.json` lists the hazards line by line with the properties that cover them.

What makes each modelled component right:

* PlanningRun: every snapshot a legal sequence of events reaches can be
  persisted (it satisfies the validators); no attempt is used twice; a
  superseded candidate never comes back; assembly sees only a complete set of
  candidates; a terminal run changes no more.
* Controller: whatever its callers do concurrently, the committed snapshots form
  one behaviour of PlanningRun.
* Scheduler and workers: the join counter counts what is really left to do,
  queued identities stay current, nobody is left behind.
* Orchestrator: it ends, and its outcome is the run's; a cancellation is
  recorded.
* Runs: a plan that was begun has one entry until it is completed or dismissed;
  no lock is left behind or let go while a worker still writes; what a stop
  answers stays true.
* Build: nothing counts as done out of order, or without having been done under
  the plan it is recorded in; finished work is not repeated by a retry; the
  iterations run out only over several repairs of one task; an answer reaches its
  question.
* Template update: all files or none, whatever fails, and never over an edit.
* Drafts: whatever is overwritten, cut or repeated, no abandoned draft is
  confirmed, the formal plans form one history, and a regeneration happens once.

## 2. Modules

`PlanningRun.tla` is the abstract specification as well as the translation of
the pure functions: each transition is a guard `CanX(r, ...)`, the `_require`
checks, and an operator `X(r, ...)`, the snapshot it returns. As a state machine
of its own it allows any legal event at any time, which is the promise of the
controller to its users. A candidate is named by the attempt that produced it
(attempt 0: recovered from an earlier run); contents, digests, timestamps and
issue texts are abstracted away. Issues keep only their origin, local or global.

`UnitGenerationScheduler.tla` is the detailed specification. `snapshot` is the
controller's `_snapshot`, and `R == INSTANCE PlanningRun WITH run <- snapshot`
both supplies the transitions and states the refinement
(`ImplementsPlanningRun`). Each asyncio task has a `pc` naming the await it is
suspended in; the action leaving it is the code up to the next await:

| Action | Code |
|---|---|
| `BeginCommit`, `CommitWrites`, `Returns` | `PlanningRunController.apply`, `_commit`: gate under the lock, file write and snapshot, publication; `Returns` has the ways in which apply comes back |
| `WorkerTakes` ... `WorkerFailRejected` | `run_round.worker` and `run_unit_generation_attempt` |
| `StopForFatal` | `stop_for_fatal`: queue discarded, siblings cancelled |
| `MainBegun` ... `MainEnds` | `plan_dag_sequential`, `run_global_repair_loop`, `complete_generation_round` |
| `MainCancelled...`, `MainCancelsWorkers`, `MainCancelGathered` | the three `except asyncio.CancelledError` handlers |
| `CancelMain` | `task.cancel()` by the workflow's run control |

Units are recovered, run and queued in the order of the plan: `InOrder(S)` holds the
one sequence of the units of `S` in that order. The lock is the FIFO of its holder and
waiters, as `asyncio.Lock` is. A
cancellation reaches a task at its await; during a commit it is held back until
the commit ends and is lost if the commit fails, as `apply` does it. A model session
may also raise an error of none of the fatal types (`unit_generation_scheduler.py:274`):
the worker notes it and goes on, and the round raises it behind the join, with the run
still active and the unit generating. The same error out of a candidate's validation is
left out.

`DraftLifecycle.tla` models what happens to the result of a run. A draft is named
by its planning run id (0: none); the digests that go with the id in the code
stand or fall with it. Each session has one execution in the application
lifecycle, `job[s]`; a planning run appears only as its start, its commits to the
run file, and its end.

| Action | Code |
|---|---|
| `Enter` | `start_workbench_execution` with `_assert_application_mutation_admission` (`services/application_lifecycle.py`) and `_validate_resumable_execution` (`protocols/workflow/lifecycle.py`) |
| `Recover` | `handoff_workbench_execution_for_recovery`, called by `business_node_retry.py` (which drops the old decision, `retry_node_state.py`) and `execution_recovery_executor.py` (which repeats it) |
| `Plan`, `Commit`, `Persist` | `run_mainline_planning`, `write_planning_run_atomic`, `_persist_validated_pending_plan`; `Persist` also the write at the end of `regenerate_pending_build_task_plan` |
| `Regenerate`: `Consume`, `Replan`, `Adopt`, `Refuse` | `regenerate_pending_build_task_plan` up to the planning, by the phase of the fact |
| `Confirm`: `ConfirmAgain`, `Promote`, `ConfirmStale` | `_run_confirm_branch` and `confirm_pending_build_task_plan`; an outdated draft goes on to `Regenerate` |
| `Abandon` | `abandon_pending_build_task_plan` with `record_abandoned_planning_result`; the release of a deleted session takes the same steps on its own draft |
| `Withdraw` | `abandon_invalid_pending`, without a tombstone |
| `Interrupt`, `Stop`, `End` | failure, cancellation or process end; `stop_workbench_execution`; `end_workbench_execution` |
| `Revise` | a formal revision of the planning inputs |

A critical section that makes several writes (`Persist`, `Consume`, `Replan`, `Adopt`,
`Promote`, `Abandon`) has one outcome per prefix of its writes: an `OSError` or the end of
the process may cut it, also after the last of them and before the gate is shown. A process crash is an `Interrupt` of every running
execution. `issued`, `confirmed` and `abandoned` are history variables.

`locks` is the `phase` of an execution as `_is_active_dag_planning_execution` sees
it: the lifecycle records a phase when its node *ends*
(`project_workflow_lifecycle_boundary`), so that a plan which starts at an
earlier node never counts as planning, while a decision or a retry, which is
registered at the planning node, does.

What `DraftLifecycle` leaves out: sessions have disjoint pages, so that the check
of resource claims never refuses one; the status kept in the run file (only its
id is); the state `stopping`; a plan request entered directly at the planning
node, as a debug re-entry does, which would only lock more; whether the DAG gate
rejects a draft is a free choice.

`RunLifecycle.tla` models the workflow runs of one application's workbench, as four
stores see them. `task`, `work`, `fence`, `control` and `retry` are the memory of
the process and are lost with it; `exec`, `archive` and `lock` are the lifecycle
document; `record` is the durable record and `outcome` what the checkpoint tells.
`plan`, `from`, `closed` and `stopped` are history variables. Code between two
awaits is one action, a worker thread interleaves with all of it.

| Action | Code |
|---|---|
| `Start` (`Begin`), `Resume` | `register`, `start_workbench_execution`, `begin_workflow_lifecycle` with `_validate_resumable_execution` |
| `Schedule`, `WorkerBegin`, `WorkerRejected`, `WorkerEnd` | `run_worker`: a node in a thread, refused when its run is fenced |
| `NodeBoundary`, `GraphEnds`, `GraphRaises` | the graph's progress and end (`protocols/workflow/lifecycle.py`, `runtime.py`) |
| `Finish`, `FailReport`, `FinalWrites`, `Close`, `PayOwed` | normal end; failure: report after a bounded wait, then the writes once the workers left, then the release, and its repetition after a failed write |
| `Disconnect`, `Cancelled` | a lost client and the `CancelledError` handler |
| `StopRequest`, `StopEnd`, `StopTimeout`, `StopRecords`, `StopReleases` | `cancel_and_wait` up to its last look at the draft, or its timeout; then `finish_stopped_run`, in the request or in the background: the durable record, and after an await the document and the lock |
| `PlanStop` | `stop_workbench_execution`, of any listed execution |
| `EndRequest`, `EndDone`, `EndTimeout` | `_execute_workbench_plan_control`, `end_workbench_execution` |
| `Project`, `RetryRequest`, `RetryHandoff`, `RetryGiveUp`, `RetryDismiss`, `RetryInsert`, `ChildRegister`, `RetryAbandon` | the projection with its reconciliation, and the business retry: drain, hand over the entry, insert the record, register the child, or withdraw it |
| `Interrupt`, `Crash` | the orphan scan; the end of the process |

It leaves out deletion and maintenance, child processes beside threads, the
native recovery, and several resources (all runs want the same one, so that the
lock matters).

`BuildScheduling.tla` models the Build node: `plan` is the formal plan and the
statuses written back to it, `rec` the execution record of each run, `thread` the
values of the conversation's graph, `cur` the invocation under way. History
variables: `ran`, what succeeded under which version; `adopted`, the versions under
which a run took done tasks from the thread that were bound to nothing; `behind`,
whether work was taken up from before what the formal plan has. A job is a task or
one of its repairs: a repair plan may give a failed task several (`normalize_repair_plan`),
at most `MaxRepairs` of them, a constant per task. `Eligible` are the jobs that may run; the batch is the one set `B` with
`LockCompatible(B, Eligible(st))`, the greedy choice in the order of `Rank`.

| Action | Code |
|---|---|
| `Start`, `Replan` | a confirmation here or in another conversation (`services/build_restart.py`) |
| `Retry`, `Resume` | `business_node_retry.py`; a request that resumes at Build, by an answer or explicitly (`protocols/workflow/request.py`) |
| `Bind` | restart, restore from the record of the retried run (`_restore_build_runtime`), fall back when it drifted, or go on from the graph's values; then the binding is recorded |
| `Rejected`, `Unanswered`, `Approved`, `Prepare` | the user's answer to an approval or a wider repair; retryable tasks reopened, else repairs appended |
| `Dispatch`, `Drift`, `LoopEnds` | one turn of the loop: batch, plan changed, nothing to do or no iteration left |
| `Ask` | a database operation needs approval: the whole batch is taken back |
| `Results`, `WriteFormal`, `Assess` | `_apply_scheduler_results`: results and record, then the formal plan; then the repair planner |
| `Returns` | the final record and the graph's values |
| `Die` | the run is stopped or raises, or the process ends, between any two steps |

A failed task's status is the class of its failure. What the agents do is a free
choice of a result per job; what the repair planner answers is a free choice per
failed task, combined as `create_build_failure_repair_plan` does. Left out: slicing by
scope (all tasks are in it), the capture and attribution of file changes, what
finalization writes, and the native recovery branch. Two abstractions to know:
a repairable failure always has the same signature, so that a failed task has at most
one repair *plan* (`repair_already_exists`; a repair itself is not repaired,
`MAX_REPAIR_DEPTH`), and task contracts of different versions of
the plan are not told apart.

`TemplateTransaction.tla` models a template update with every file operation as a
step of its own: `disk` the managed files, `dir`, `images`, `strays` and `manifest` the
journal, `thread` the requests. A request recovers an old journal (`StartRecovery`,
`Sweep`, `RestoreFile`, `ClearStep`), reads the files (`ReadFiles`), recovers again, and goes on
with `CheckUnchanged`, `MakeJournal`, `WriteImage`, `Prepare`, `ReplaceFile`, `Commit`.
`Fail` is an `OSError` in any of these steps and `Catch` its handler, `Crash` the
end of the process, with the temporary file of the write left behind. `Edit` is a
user's change of a file while no request is writing or recovering: in that window
nothing in the code guards the files, and nothing is promised. `AtomicUpdate.tla` says what
is promised: the files change by a whole update or by an edit. The refinement maps an
update to the moment its `COMMITTED` manifest is on disk; until then the files
are what a recovery would restore (`Logical`).

`PlanningRunProofs`, `SchedulerInvariant`, `SchedulerProofs`, `TransactionProofs`,
`DraftProofs`, `RunLifecycleProofs` and `BuildProofs` hold the theorems about these modules
(section 4). The modules `MC*`
give the instances TLC checks. Operators introduced by a
comment "A bug: ..." are deliberate mutations of the definition that follows
them; no specification uses them.

## 3. Runs

| Run | Instance | Shows |
|---|---|---|
| `planning_run` | a model, a deterministic and a not required unit; 3 attempts, 2 repairs (the code's own limits) | the validators, identities, candidates and terminal states, for every legal sequence of events |
| `scheduler_commits` | 2 model units, 2 workers, 2 attempts, 1 repair, 1 fault, 2 cancellations, one recoverable unit | the refinement, the join counter, the queue, and that cancellations are recorded |
| `scheduler_round` | 2 model units and a deterministic one, 2 workers, 2 attempts, 1 repair, 1 cancellation, fair | outcomes, no orphaned worker, no event illegal before the end, termination |
| `lost_publication` | 2 model units, 1 worker, 1 fault, fair | a counterexample: the round never returns |
| `drafts_confirm` | 2 sessions, 3 drafts, 4 workflow runs | no abandoned draft is confirmed, the formal plans form one history, a regenerated draft has one successor |
| `drafts_regenerate` | 2 sessions, 3 drafts, 3 runs, 2 versions of the inputs | a regeneration cut anywhere neither revives the old draft nor forgets the new one |
| `foreign_overwrite` | 2 sessions, 2 drafts, 3 runs | a counterexample: a session's draft is overwritten |
| `run_faults` | 2 runs, 2 plans, 2 requests, 2 faults | plans, locks, stops and failures across stop, end, retry, resumption and crash |
| `run_writers` | 2 runs of a plan, 1 lost client | a counterexample: two writers of one plan |
| `build_faults` | a chain of 3 tasks of 3 agents, up to 2 repairs of one and 1 of the others, 3 runs, 2 versions of the plan, 1 death | order of work, no work counted that was not done, no finished work repeated by a run that goes on from the formal plan, iterations exhausted only by several repairs of one task |
| `build_approval` | the same tasks, 2 runs, no fault | a counterexample: the answer to an approval finds no question |
| `template_faults` | 3 files, one of which exists, 2 updates, 2 edits, 2 errors, 2 crashes | all or nothing, no edit overwritten or invented, one error cleans up |

Bounds. Two units are enough for a worker to hold one unit while another is
queued, retried or discarded; three units on two workers make a round with more
units than workers, so that a job is still queued when two workers fail
together. Two repairs give a second reopening, the first one with a history to
preserve. `MaxFaults` counts failing writes, failing publications and unexpected errors of
a session, `MaxCancels` the
calls of `task.cancel()`; with two cancellations one can arrive inside the
handler of the other. `scheduler_round` allows one cancellation only: with a
second one during the handler's own `apply`, or a failing write there, the
handler leaves `run_round` before it cancels the workers
(`unit_generation_scheduler.py:326`), and `NoWorkerOutlivesTheRun` is not true.
Deadlock is not checked because every run ends, and because the counters of the
other modules run out.

For the drafts, four workflow runs are two plannings and two confirmations, the
least that could fork the formal history or confirm a draft after a second
abandonment took the tombstone; three drafts are one and two successors of it.
`MaxDrafts`, `MaxRuns` and `MaxInputs` bound the planning runs, the workflow runs
and the changes of the inputs. The sessions are interchangeable, and no property
names one, so symmetry is sound.

Two runs are a run and the one that resumes or retries its plan, or two plans that
compete for the lock; with two requests a stop meets a retry or an end; with two
faults a write fails during the clean up of a lost client or after a crash.
`MaxPlans`, `MaxRequests` and `MaxFaults` bound the rest. Run ids are interchangeable.

For the Build, a chain of a frontend, a backend and a database task has a task
that waits, directly and indirectly, for a repaired one, and the priority of the
database agent; each job writes the file of its task, so a repair conflicts with
a reopened task. `MaxRepairs` allows the frontend task two repairs and the others one: with
its own three tasks the plan then has one repair more than its six iterations have room
for, the least that exhausts them. Three runs are a first one, its retry, and what
follows the retry; two versions of the plan make an old record meet a new plan.
The failures of the instance are those that are retried and those that are
repaired; `requires_confirmation` and terminal ones end a run early, and the
questions and refusals of a run come from approvals and wider repairs.

For the template update, three files give one that is written, one in
the middle and one that is not, and both an existing and a created one; with two
crashes a recovery is itself interrupted. It is checked with one request at a
time: with two, a request recovers the journal of the other one that is still
running and rolls its files back (`transaction_v4.py:71` takes no lock), and
`AllOrNothing` does not hold. Whether two requests of one workspace meet is up to the
callers, and nothing in this code keeps them apart.

Fairness. `FairSpec`, of the scheduler, assumes that the event loop runs each ready task, that a
file write and a publication end, and that a model session ends because the
session as a whole has a timeout (`agents/execution_control.py`). Nothing is
assumed of cancellations and faults.

### Counterexamples

1. `lost_publication`. A worker commits `RunFailed`; the publication of that
   commit fails, so the caller sees `PlanningRunProjectionError` instead of the
   fatal error. The worker's handler (`unit_generation_scheduler.py:271`) sees a
   run no longer active and returns, without discarding the queue. When the last
   worker has gone and jobs remain, `queue.join()` (line 300) waits for ever.
   `src/docs/SEQUENTIAL_DAG_PLANNING.md:71-73` says that the scheduler then
   discards the jobs not yet dispatched.
2. `foreign_overwrite`. Two sessions start to plan; the second is admitted because
   the first one's recorded phase is still its first node
   (`services/application_lifecycle.py:1028`). Both persist, and the second draft
   replaces the first while it awaits its user's decision.
   `src/docs/DAG_TASK_GENERATION_UNIT_CANDIDATE_PLAN.md:2664` demands that the
   second request be refused; `src/docs/DEVAGENTSTUDIO_COMPLETE_WORKFLOW.md:842`
   concedes that the server has no mutex for this yet. `drafts_confirm` shows that
   the overwritten draft is only lost: it is not confirmed by mistake.
3. `run_writers`. A node works in its thread; the client is lost; the `CancelledError`
   handler records the execution as stopped without waiting for the thread
   (`runtime.py:2523`). The user resumes the plan: `_validate_resumable_execution`
   looks at the recorded status only (`lifecycle.py:278`), and a second run's worker
   starts while the first one still writes. A failure has the same effect, since
   its report waits for a bounded time only. Retry and end wait for the workers,
   and `services/failed_run_cleanup.py:111` says that concurrent writing is forbidden.
4. `build_approval`. A database job asks for approval; the Build pauses. The
   request with the answer resumes with `resume_from = "build"`, which
   `run_build_scheduler` (`build.py:1646`) takes as the wish to restart: it clears
   the tasks, the approved plan of the operation and the binding before it reads
   the answer. All work is done again and the question put again, whatever the
   answer was. `src/Backend/tests/test_workbench_confirmation_continuation.py:84` says the answer is
   handled by the Build that asked, and `test_build_subgraph_scheduler.py:1987` that
   the approved plan is used again.

### Seen in the models, without a run

Each of these is a behaviour of a model above, reached by TLC while the model was
written; no property forbids it.

* A cancellation during the last `apply(PendingPersistenceStarted)`
  (`dag_planning_orchestrator.py:416`) is outside the `try` whose handler records
  it. `CancelBeforeLastAwaitIsRecorded` shows that this await is the only such place, for two
  cancellations. Three leave another one: the first ends the join
  (`unit_generation_scheduler.py:322`), the second the wait of its handler for the lock, the
  third that of the outer handler (`dag_planning_orchestrator.py:397`), and the run is still active. This
  was found by trying to prove the property without a bound.
* Run 1 plans a draft, run 2 confirms it and fails before the promotion; ending run 2
  archives run 2, but `services/planning_refresh_recovery.py:155` asks for run 1,
  so the draft stays actionable and every other session is refused
  (`src/docs/CODEBASE_INDEX.md:329` says that End releases the application).
* A stop or end of a child that is prepared but not yet registered answers that it is stopped, and the child then
  registers and runs. A projection read in that window marks the child's entry as failed and
  drops its lock.
* The status a retry acts on is older than its writes: a retry asked for a child that
  is prepared, and so counts as interrupted, reconciles after the child has registered
  and reached its gate (`business_node_retry.py:198`). The entry of a run that awaits
  its user becomes failed, with its lock, which `FailedIsReleased` leaves aside by
  asking for a run whose own graph failed.
* A crash between the handoff of a retry and the insertion of the child's record
  leaves an entry that is running for ever; only an end removes it.
* A draft persisted while a stop waits is pending confirmation in the answer, but the
  cancelled stream has already recorded the execution as stopped.
* A retry of a run that left no progress goes on from the tasks of the thread. When
  an early return (`build.py:1813`) has kept restored tasks there without their
  binding, and another conversation has confirmed a new plan since, these count as
  done under the new plan (`build.py:1727`), although nothing ran under it. This
  takes two interruptions; `DoneWasRun` leaves such versions (`adopted`) aside.
* A run that goes back behind the formal plan, as a resumption may, and dies before
  it writes the plan hands its position on to its retry, which runs tasks again that the
  plan has as done. `WorkKept` leaves this aside (`behind`). Both were found by trying to
  prove the properties without these conditions: one death, as in `build_faults`, does not
  reach them.
* A Build that ends between the record of its last batch and the statuses of the
  formal plan is completed by its retry without the formal plan ever being written.
* The handoff to a new Build keeps the repair plan of the last one
  (`build_restart.py:18`), so a stale repair joins the new tasks and may close a
  failure it was never planned for.
* A Build ends with `iteration_budget_exhausted` and a repair that is ready: the
  iterations are twice the tasks, counted before any repair is planned (`build.py:1917`), and
  one failed task may get several repairs, which share its files and so run one after the
  other (`build_repair_planner.py:284`). A plan of one task, with two repairs,
  suffices. The docstring at `build.py:1639` says that scheduling goes on until the slice is
  complete or blocked, as does `src/docs/WORKFLOW.md:409`, and line 431 that there may be one or more repair
  tasks. `ExhaustedByRepairs` states what does hold: nothing else exhausts them.
* A Build stops as failed when the planner has no second repair plan for one task,
  although other jobs could still run (`build.py:2115`).
* Progress that a retry inherited and did not rewrite is refused by the next
  retry (`BUILD_RETRY_SOURCE_DRIFT`), as is one that holds a repair which a later repair plan
  dropped (`BUILD_RETRY_TASK_DRIFT`). The retry then falls back on the formal plan, and its failed tasks are
  not reopened. A resumption after a retry restores the progress of the run that was retried, not of the last one.
* A crash in the write of the template manifest leaves a temporary file which the
  next recovery takes for a foreign file, and a crash while a journal is cleared after a rollback a manifest without its images: every later request is
  refused until someone deletes the journal.

One difference of words has no run: `src/docs/SEQUENTIAL_DAG_PLANNING.md:112`
says that a run stops at `active/validating` once its draft is pending; the code
leaves it in `persisting_pending`.

## 4. Theorems

Each theorem is of the form `Spec => []P`, for every value of the constants that the
module's assumption allows: any set of units, sessions, runs, files or tasks, and any
value of the bounds, which the runs keep small. Two assumptions ask for a finite set:
`BuildAssumption`, since the iterations are counted from the tasks, and
`SchedulerAssumption`, since the units are listed (`UnitOrder` has each planning unit
once) and queued; it also tells the orchestrator from the workers, and None from
identities, snapshots, jobs and events. No theorem assumes fairness. Where a
theorem has a hypothesis of its own, it is named below.

None of the properties is inductive, so each module has one inductive invariant
`IInv` of named parts, checked by TLC before it was proved. The proofs
first sort the steps by what they change, then keep each part of the invariant,
step by step.

### PlanningRunProofs

Proves all that `planning_run` checks. `IInv` is the conjunction of
`TypeOK`, `LifecycleValid`, `ProjectionValid`, `NoHiddenFallback`, `AttemptOnce` and
`AssemblyComplete`. None of them is inductive alone:

* `AttemptOnce` needs `LifecycleValid`, by which the attempt a unit waits for
  names that unit, its round and its count, so that it cannot be another unit's;
* `TypeOK` needs `ProjectionValid`: a reopened round stays in range because a
  unit is reopened at most once per global repair;
* a repair keeps the other units' candidates valid by `NoHiddenFallback`, and
  `AssemblyComplete` with it.

`Effects` shows that every step either changes the phase alone, one unit, or the
units of a repair; the lemmas then follow from which fields a unit transition
changes (`UnitFields`, `UnitLifecycleStep`). `CandidateHistory` and
`TerminalIsFinal` follow from the same effects.

Two more facts are inductive over `IInv`. `Unspent`: what was recorded in the current
round of an open unit was produced by an attempt its budget counts already. Hence
`FreshAttempts`: the guard of `mark_unit_generating` against used identities never
refuses a pending unit. `Ledger`: the identities of the closed rounds and of the current
one (`Spent`) are as many as the total says, and every recorded candidate of a model
unit is one of them; a started attempt adds one identity that is in no closed
round (`StartedSpent`), a reopened round moves its identities to the closed ones
(`ReopenedSpent`). It gives `Budgets`, the theorem about `BudgetLedger`.

### SchedulerInvariant and SchedulerProofs

All safety properties of `scheduler_commits` and `scheduler_round`, for any units, strategies
and order, any number of workers, attempts, repairs and faults, with the refinement of
`PlanningRun`: whatever the tasks do concurrently, the committed snapshots form one of
its behaviours. The first module has the invariant and the steps of the controller and
of the workers, the second those of the orchestrator and the theorems. The parts of
the invariant, and what needs them:

* `Snapshots` is the invariant of `PlanningRunProofs` over the committed snapshot; the
  lemmas about the transitions come from there.
* `Locking`: the lock queue names a task once, and what its holder is about to write
  is still the transition of the current snapshot, as nobody else can write. This is
  the refinement.
* `WorkerCalls`, `MainCall`: an await is for the event of its place, and no two workers
  have jobs of one unit.
* `Pool`: while workers are alive the orchestrator waits for them or the round is
  aborting, and jobs are queued only up to the join. Hence no worker meets the next
  round, and the counter of the join is exact.
* `WorkersProgress`, `MainProgress`: how far each task is with the snapshot, while the run
  is active. No event but the task's own moves the unit it has, so the event it awaits
  is accepted: `OnlyLosersAreRejected`.
* `Faultless`: without a fault, each unit of a round is ready, exhausted, queued or held, so
  that the barrier behind the join always holds and no internal check raises; with
  `Ends`, this is `OutcomesMatch`.
* `Recording`, `Orphans`: which cancellation can reach which await.

The steps of a worker are sorted into seven forms by what they do to its job, the queue
and the counter (`Taken`, `Skipped`, `Continued`, `Dropped`, `Requeued`, `Stopped`,
`Withdrawn`), those of the orchestrator into one turn of the controller (`Turn`) with the
place it goes to (`Aims`, `Lands`); the start of the pool, the join and the cancelled round
have lemmas of their own.

Two theorems have a hypothesis. `CancellationRecorded` is about at most two
cancellations: a third one is not always recorded, see above. `NoOrphans` is about runs
without a failing write and with one cancellation; what breaks it otherwise is told with the
bounds.

### TransactionProofs

`Typing` holds for any threads. `Conflicts`, `CleanedUp` and `Atomic`, the refinement of
`AtomicUpdate`, are about one request at a time (`Threads = {t}`): with two they are
not true, see the bounds above. The invariant says what the journal on disk and the
request in memory know of each other at each step (`JInv`): the images are those the
request read, an update that was not written yet is in no file and no before image,
and what is being cleared was rolled back. Two history facts go with it: every
content that is neither an update's nor restored was an edit (`EditedOrAccounted`), and
after one error the journal is on its way out (`Clean`). For the refinement each
write is shown to leave `Logical` alone, but for the write of the `COMMITTED`
manifest, which changes all files, and an edit, which changes one.

### DraftProofs

All invariants of `drafts_confirm` and `drafts_regenerate`, for any number of sessions, drafts
and runs. That an abandoned draft is not confirmed needs that an abandoned or
confirmed draft which is still in the pending file is the one decided last, so that
the tombstone or the formal plan names it (`Decisions`). That confirmed plans do not fork
needs the base of every draft to be a confirmed plan, and none to have the formal
plan for its base (`Bases`). What regenerations promise needs runs to belong to one session
(`RunsOwned`), a running regeneration to be the one its fact records
(`Regenerations`), and its draft to be reserved to that session (`Successors`).

### RunLifecycleProofs

All properties of `run_faults`. The parts of the invariant are the views the stores
have of each other: how far the stream is bounds what workers do (`Stages`); a
child that waits to be registered knows the run it retries and the status to give back
(`Children`); a stopped run keeps its fence and has neither lock nor draft
(`Releases`, also while a stop is between its last look at the draft and its writes); an entry is one of a plan, and each plan that is not closed has exactly
one (`Entries`). `WorkersKeepTheLock` is an action property over the same
invariant.

### BuildProofs

All properties of `build_faults`, for any finite set of tasks with any dependencies (also
cyclic ones, which merely never run), locks, ranks and any number of deaths.
Statuses are kept in four places and move between them at any step, so each
property is a fact of the statuses wherever they are: a task past `pending` has
its dependencies and the database tasks done (`Orders`); what is done is in `ran` under
the version it is bound to (`Runs`, with `Binds`: a run keeps its version, and a question
the one it was put under); statuses bound to the formal version keep up with
it unless `behind` (`Work`). `ExhaustedByRepairs` needs a count: the iterations left, with the jobs
that were tried, are at least twice the tasks (`Budgets`), since each iteration tries
at least one job that was not tried before, and a preparation starts the
count anew. When none is left while a job is ready, there are more jobs than twice the
tasks, so more repairs than tasks.

### Only model-checked

`RoundEnds` and `RunEnds`, as liveness under fairness is beyond the proof system, and the
other properties of the runs that expect a violation. Every other property is a theorem.

## 5. Plan

1. The native recovery (claims, attempts, lineage), the configuration operation
   that shares the workspace with the template update, and the interplay of
   `BuildScheduling` with `RunLifecycle`, whose `Crash` and `Resume` it now takes as free choices.
2. The safety half of `RunEnds`, as a theorem: what is left of the attempts and repairs
   of a run never grows, and each started attempt lowers it, so that only fairness is left
   to TLC.

## 6. Not modelled

* Global validation and issue attribution: pure functions on task documents; the
  scheduler's model chooses the targets of a repair freely.
* The workflow graphs, node contents, agents and prompts: the models see a node as
  a worker thread and an agent as a free choice of its result. The testing, review
  and acceptance subgraphs are mostly calls of agents.
* The UI design pool, launchers, preview and deletion: processes and network I/O.
* The frontend: a projection of the backend's state.

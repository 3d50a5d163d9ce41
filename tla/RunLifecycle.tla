----------------------------- MODULE RunLifecycle -----------------------------
(***************************************************************************)
(* Workflow runs in the workbench of one application, seen by the parts    *)
(* that each keep a view of them:                                          *)
(*   - the registry of tasks and of worker threads, and the fence of       *)
(*     cancelled runs, in memory (run_control.py, run_workers.py,          *)
(*     workspace_process_registry.py);                                     *)
(*   - the lifecycle document: executions, archive of ended ones, resource *)
(*     locks (application_lifecycle.py);                                   *)
(*   - the durable records with their leases (execution_recovery.py);      *)
(*   - the checkpoint of the graph.                                        *)
(* Runs start, fail, lose their client, are stopped, ended, resumed, handed *)
(* to a retry, scanned for orphans, and die with the process.              *)
(*                                                                         *)
(* All runs want the same resource, so there is one lock.  A run id is used *)
(* once.  Code between two awaits of the event loop is one action; worker  *)
(* threads interleave with it.  A run has one control request at a time.   *)
(***************************************************************************)
EXTENDS Naturals, FiniteSets

CONSTANTS Runs,         \* run ids
          None,         \* no run
          MaxPlans,     \* plans begun
          MaxRequests,  \* requests to stop, end or retry a run
          MaxFaults     \* lost clients, failed writes, ends of the process

ASSUME RunLifecycleAssumption ==
  /\ None \notin Runs
  /\ MaxPlans \in Nat
  /\ MaxRequests \in Nat
  /\ MaxFaults \in Nat

VARIABLES
  task,     \* the stream of a run, and how far it is
  work,     \* its worker threads: none, one waiting for a thread, one at work
  fence,    \* cancelled runs, whose workers must not start
  control,  \* the request to stop or end a run
  retry,    \* the request to retry a run, by what was read of it
  exec,     \* active_executions of the lifecycle document: status
  archive,  \* its ended_executions
  lock,     \* its resource lock
  record,   \* durable record: status, where "ended" is a status the outcome tells
  outcome,  \* what the checkpoint of the run says of its end
  pending,  \* the run that wrote the draft which awaits confirmation
  from,     \* the run whose retry a run is, and that run's status before
  plan,     \* the first run of the plan that a run works on
  closed,   \* plans that were completed or dismissed
  stopped,  \* runs that a stop request reported as cancelled
  requests, faults

memory == <<task, work, fence, control, retry>>
document == <<exec, archive, lock>>
history == <<plan, from, closed, stopped>>
bounds == <<requests, faults>>
vars == <<memory, document, record, outcome, pending, history, bounds>>

\* Streams in the registry.  A handed or prepared run has none yet; an owing
\* one left the registry with its last writes to be repeated.
Streaming == {"running", "finishing", "cancelling", "draining", "closing"}
Tasks == Streaming \cup {"idle", "handed", "prepared", "owing", "gone", "dead"}

\* A request that waits for the work of its run, and how far the stop is then:
\* the request settles it, or a background task does and nobody is told.
Controls == {"none", "ending", "stopping", "checking",
             "settling", "releasing", "background", "trailing"}

TypeOK ==
  /\ task \in [Runs -> Tasks]
  /\ work \in [Runs -> {"idle", "queued", "busy"}]
  /\ fence \subseteq Runs
  /\ control \in [Runs -> Controls]
  /\ retry \in [Runs -> {"none", "broken", "stopped"}]
  /\ exec \in [Runs -> {"absent", "running", "awaiting", "failed", "stopped"}]
  /\ archive \subseteq Runs
  /\ lock \in Runs \cup {None}
  /\ record \in [Runs -> {"none", "running", "ended", "interrupted", "cancelled"}]
  /\ outcome \in [Runs -> {"none", "completed", "awaiting", "failed"}]
  /\ pending \in Runs \cup {None}
  /\ from \in [Runs -> [source : Runs \cup {None}, was : {"none", "failed", "stopped"}]]
  /\ plan \in [Runs -> Runs \cup {None}]
  /\ closed \subseteq Runs
  /\ stopped \subseteq Runs
  /\ requests \in 0..MaxRequests
  /\ faults \in 0..MaxFaults

NoSource == [source |-> None, was |-> "none"]

Init ==
  /\ task = [r \in Runs |-> "idle"] /\ work = [r \in Runs |-> "idle"] /\ fence = {}
  /\ control = [r \in Runs |-> "none"] /\ retry = [r \in Runs |-> "none"]
  /\ exec = [r \in Runs |-> "absent"] /\ archive = {} /\ lock = None
  /\ record = [r \in Runs |-> "none"] /\ outcome = [r \in Runs |-> "none"]
  /\ pending = None /\ from = [r \in Runs |-> NoSource]
  /\ plan = [r \in Runs |-> None] /\ closed = {} /\ stopped = {}
  /\ requests = 0 /\ faults = 0

-----------------------------------------------------------------------------
(* What several handlers do.                                               *)

\* is_active: the stream is a task that is not done, or a worker is at work.
Live(r) == task[r] \in Streaming \/ work[r] = "busy"

Listed(r) == exec[r] # "absent"

WithoutLock(r) == IF lock = r THEN None ELSE lock

\* update_workbench_execution, if the run is still in the document.
Mark(r, status) == exec' = [exec EXCEPT ![r] = IF @ = "absent" THEN @ ELSE status]

\* A bug: the lock of a removed execution stays.
RemoveKeepsLock(r) == exec' = [exec EXCEPT ![r] = "absent"] /\ UNCHANGED lock

Remove(r) == exec' = [exec EXCEPT ![r] = "absent"] /\ lock' = WithoutLock(r)

\* finish_execution_and_release_lease: only a running record takes an end.
Finished(r, status) ==
  record' = [record EXCEPT ![r] = IF @ = "running" THEN status ELSE @]

Fault == faults < MaxFaults /\ faults' = faults + 1

\* Records are written at best effort.
AtBest(write) == \/ write /\ UNCHANGED faults
                 \/ Fault /\ UNCHANGED record

Goto(r, at) == task' = [task EXCEPT ![r] = at]

\* task.cancel(), by the end of the client's connection or a control request.
\* The handler of an error is left for the final clean up; a second
\* cancellation cuts the handler of the first one short.
AfterCancel(r) ==
  CASE task[r] \in {"running", "finishing"} -> {"cancelling"}
    [] task[r] = "draining" -> {"closing"}
    [] task[r] = "cancelling" -> {"cancelling", "gone"}
    [] OTHER -> {task[r]}

-----------------------------------------------------------------------------
(* A run starts: it is registered, which removes its fence, begins in the   *)
(* document, and gets a record and a lease.  It goes on without a record if *)
(* this fails.                                                             *)

Start(r) ==
  /\ task[r] = "idle"
  /\ Goto(r, "running")
  /\ fence' = fence \ {r}
  /\ lock' = r
  /\ AtBest(record' = [record EXCEPT ![r] = "running"])
  /\ UNCHANGED <<work, control, retry, outcome, pending, from, closed, stopped, requests>>

\* A new plan; the lock goes to whoever asked for it last.
Begin(r) ==
  /\ Cardinality({p \in Runs : plan[p] = p}) < MaxPlans
  /\ Start(r)
  /\ exec' = [exec EXCEPT ![r] = "running"]
  /\ plan' = [plan EXCEPT ![r] = r]
  /\ UNCHANGED archive

\* An earlier run's plan is taken over: one that stopped, failed or awaits its
\* user, or an ended one, if no other execution holds its resources.
Resume(r, p) ==
  /\ Start(r)
  /\ \/ exec[p] \in {"stopped", "failed", "awaiting"}
     \/ p \in archive /\ lock = None
  /\ exec' = [exec EXCEPT ![p] = "absent", ![r] = "running"]
  /\ archive' = archive \ {p}
  /\ plan' = [plan EXCEPT ![r] = plan[p]]

-----------------------------------------------------------------------------
(* The graph runs its nodes in worker threads.                             *)

Working(r, to) ==
  /\ work' = [work EXCEPT ![r] = to]
  /\ UNCHANGED <<task, fence, control, retry, document, record, outcome, history,
                 bounds>>

Schedule(r) ==
  /\ task[r] = "running" /\ work[r] = "idle"
  /\ Working(r, "queued") /\ UNCHANGED pending

\* run_worker, which is entered in the thread: whatever became of the stream.
WorkerBegin(r) ==
  /\ work[r] = "queued" /\ r \notin fence
  /\ Working(r, "busy") /\ UNCHANGED pending

\* Fenced, or the call was cancelled before it got a thread.
WorkerRejected(r) ==
  /\ work[r] = "queued"
  /\ r \in fence \/ task[r] \notin Streaming
  /\ Working(r, "idle") /\ UNCHANGED pending

\* The worker returns, perhaps after it wrote the draft.
WorkerEnd(r) ==
  /\ work[r] = "busy"
  /\ Working(r, "idle")
  /\ pending' \in {pending, r}

\* project_workflow_lifecycle_boundary after a node; nothing happens, and the
\* run goes on, if it is no longer in the document.
NodeBoundary(r) ==
  /\ task[r] = "running" /\ work[r] = "idle"
  /\ Mark(r, "running")
  /\ UNCHANGED <<memory, archive, lock, record, outcome, pending, history, bounds>>

\* The last node completes the plan, awaits its user, or ends with a failure.
GraphEnds(r, end) ==
  /\ task[r] = "running" /\ work[r] = "idle"
  /\ outcome' = [outcome EXCEPT ![r] = end]
  /\ IF end = "completed" /\ Listed(r)
     THEN Remove(r) /\ closed' = closed \cup {plan[r]}
     ELSE Mark(r, end) /\ UNCHANGED <<lock, closed>>
  /\ Goto(r, IF end = "failed" THEN "draining" ELSE "finishing")
  /\ fence' = IF end = "failed" THEN fence \cup {r} ELSE fence
  /\ UNCHANGED <<work, control, retry, archive, record, pending, from, plan, stopped,
                 bounds>>

\* An exception in the graph, while a parallel node may be at work.
GraphRaises(r) ==
  /\ task[r] = "running"
  /\ outcome' = [outcome EXCEPT ![r] = "failed"]
  /\ Goto(r, "draining")
  /\ fence' = fence \cup {r}
  /\ UNCHANGED <<work, control, retry, document, record, pending, history, bounds>>

\* The end is recorded and the run leaves the registry.
Finish(r) ==
  /\ task[r] = "finishing"
  /\ AtBest(Finished(r, "ended"))
  /\ Goto(r, "gone")
  /\ UNCHANGED <<work, fence, control, retry, document, outcome, pending, history,
                 requests>>

-----------------------------------------------------------------------------
(* A failure: the report waits a few seconds for the workers, the final    *)
(* clean up until they have exited.                                        *)

\* A bug: the lock is released with the report, workers or not.
ReportReleases(r) ==
  /\ task[r] = "draining"
  /\ Mark(r, "failed")
  /\ lock' = IF Listed(r) THEN WithoutLock(r) ELSE lock
  /\ AtBest(Finished(r, "ended"))
  /\ Goto(r, "closing")
  /\ UNCHANGED <<work, fence, control, retry, archive, outcome, pending, history,
                 requests>>

FailReport(r) ==
  /\ task[r] = "draining"
  /\ Mark(r, "failed")
  /\ lock' = IF Listed(r) /\ work[r] # "busy" THEN WithoutLock(r) ELSE lock
  /\ AtBest(Finished(r, "ended"))
  /\ Goto(r, "closing")
  /\ UNCHANGED <<work, fence, control, retry, archive, outcome, pending, history,
                 requests>>

\* persist_failed_cleanup.
FinalWrites(r) ==
  /\ Mark(r, "failed")
  /\ lock' = IF Listed(r) THEN WithoutLock(r) ELSE lock
  /\ Finished(r, "ended")
  /\ Goto(r, "gone")
  /\ UNCHANGED faults

\* A bug: a failed write is not repeated.
CloseOnce(r) ==
  /\ task[r] = "closing" /\ work[r] # "busy"
  /\ \/ FinalWrites(r)
     \/ Fault /\ Goto(r, "gone") /\ UNCHANGED <<exec, lock, record>>
  /\ UNCHANGED <<work, fence, control, retry, archive, outcome, pending, history,
                 requests>>

\* release_run_ownership: the run leaves the registry even if a write failed.
Close(r) ==
  /\ task[r] = "closing" /\ work[r] # "busy"
  /\ \/ FinalWrites(r)
     \/ Fault /\ Goto(r, "owing") /\ UNCHANGED <<exec, lock, record>>
  /\ UNCHANGED <<work, fence, control, retry, archive, outcome, pending, history,
                 requests>>

PayOwed(r) ==
  /\ task[r] = "owing"
  /\ FinalWrites(r)
  /\ UNCHANGED <<work, fence, control, retry, archive, outcome, pending, history,
                 requests>>

-----------------------------------------------------------------------------
(* Cancellation.                                                           *)

Disconnect(r) ==
  /\ task[r] \in {"running", "finishing", "draining"}
  /\ Fault
  /\ \E at \in AfterCancel(r) : Goto(r, at)
  /\ UNCHANGED <<work, fence, control, retry, document, record, outcome, pending,
                 history, requests>>

\* The handler of CancelledError: a fenced run was stopped by its user.  The
\* workers may go on; the lock stays.
Cancelled(r) ==
  /\ task[r] = "cancelling"
  /\ AtBest(Finished(r, IF r \in fence THEN "cancelled" ELSE "interrupted"))
  /\ Mark(r, "stopped")
  /\ Goto(r, "gone")
  /\ UNCHANGED <<work, fence, control, retry, archive, lock, outcome, pending, history,
                 requests>>

\* cancel_and_wait.
Request(r, kind) ==
  /\ task[r] # "idle" /\ control[r] = "none"
  /\ requests < MaxRequests /\ requests' = requests + 1
  /\ control' = [control EXCEPT ![r] = kind]
  /\ fence' = fence \cup {r}
  /\ \E at \in AfterCancel(r) : Goto(r, at)
  /\ UNCHANGED <<work, retry, document, record, outcome, pending, history, faults>>

\* A draft that awaits confirmation wins over the stop, which does nothing.
StopRequest(r) ==
  /\ pending # r
  /\ Request(r, IF Live(r) THEN "stopping" ELSE "checking")

\* A control request goes on, or is answered.
Controlled(r, at) ==
  /\ control' = [control EXCEPT ![r] = at]
  /\ UNCHANGED <<task, work, fence, retry, outcome, pending, plan, from, closed, bounds>>

\* A bug: the draft is only looked for before the workers exit.
StopEndsUnchecked(r) ==
  /\ control[r] \in {"stopping", "checking"} /\ ~Live(r)
  /\ UNCHANGED <<document, record, stopped>>
  /\ Controlled(r, IF control[r] = "stopping" THEN "settling" ELSE "background")

\* All work has exited.  A draft it left wins again.  Only the stop of a run that
\* had work is answered with "cancelled".
StopEnd(r) ==
  /\ control[r] \in {"stopping", "checking"} /\ ~Live(r)
  /\ UNCHANGED <<document, record, stopped>>
  /\ Controlled(r, IF pending = r THEN "none"
                   ELSE IF control[r] = "stopping" THEN "settling" ELSE "background")

\* After 30 seconds the rest is done in the background.
StopTimeout(r) ==
  /\ control[r] \in {"stopping", "checking"} /\ Live(r)
  /\ UNCHANGED <<document, record, stopped>>
  /\ Controlled(r, "background")

Reported(r) ==
  stopped' = IF control[r] \in {"settling", "releasing"} THEN stopped \cup {r} ELSE stopped

\* finish_stopped_run, to its last await: nothing is written for a run that is
\* not listed.
StopRecords(r) ==
  /\ control[r] \in {"settling", "background"} /\ ~Live(r)
  /\ UNCHANGED document
  /\ IF Listed(r)
     THEN /\ record' = [record EXCEPT ![r] = IF @ = "interrupted" THEN "cancelled" ELSE @]
          /\ UNCHANGED stopped
          /\ Controlled(r, IF control[r] = "settling" THEN "releasing" ELSE "trailing")
     ELSE UNCHANGED record /\ Reported(r) /\ Controlled(r, "none")

\* Its writes to the document, by what is listed now; the lock of a run that
\* works again stays.
StopReleases(r) ==
  /\ control[r] \in {"releasing", "trailing"}
  /\ Mark(r, "stopped")
  /\ lock' = IF Listed(r) /\ r \in fence /\ work[r] # "busy" THEN WithoutLock(r) ELSE lock
  /\ UNCHANGED <<archive, record>>
  /\ Reported(r) /\ Controlled(r, "none")

\* stop_workbench_execution, for a plan and not for a run: whatever its run does.
PlanStop(r) ==
  /\ Listed(r)
  /\ requests < MaxRequests /\ requests' = requests + 1
  /\ Mark(r, "stopped")
  /\ UNCHANGED <<memory, archive, lock, record, outcome, pending, history, faults>>

EndRequest(r) == Listed(r) /\ Request(r, "ending")

\* end_workbench_execution: from the active executions into the archive.
EndDone(r) ==
  /\ control[r] = "ending" /\ ~Live(r)
  /\ Remove(r)
  /\ archive' = IF Listed(r) THEN archive \cup {r} ELSE archive
  /\ UNCHANGED <<record, stopped>>
  /\ Controlled(r, "none")

EndTimeout(r) ==
  /\ control[r] = "ending" /\ Live(r)
  /\ UNCHANGED <<document, record, stopped>>
  /\ Controlled(r, "none")

-----------------------------------------------------------------------------
(* Recovery.                                                               *)

\* resolve_checkpoint_source: the checkpoint decides, unless the user stopped
\* the run; a run that is not live and left no end was interrupted.
Status(r) ==
  CASE record[r] = "cancelled" -> "cancelled"
    [] outcome[r] \in {"failed", "awaiting"} -> outcome[r]
    [] Live(r) -> "running"
    [] outcome[r] = "completed" -> "completed"
    [] OTHER -> "interrupted"

Broken(r) == record[r] # "none" /\ Status(r) \in {"failed", "interrupted"}

\* reconcile_failed_execution_lifecycle: the entry of a broken run fails; the
\* lock is released, and the run fenced, when it is not live.
Reconciled(r, broken) ==
  IF ~broken THEN [status |-> exec[r], lock |-> lock, fence |-> fence]
  ELSE [status |-> "failed",
        lock   |-> IF Live(r) THEN lock ELSE WithoutLock(r),
        fence  |-> IF Live(r) THEN fence ELSE fence \cup {r}]

\* The projection for the pages does it for every run it shows.
Project(r) ==
  /\ Listed(r) /\ Broken(r)
  /\ exec' = [exec EXCEPT ![r] = Reconciled(r, TRUE).status]
  /\ lock' = Reconciled(r, TRUE).lock
  /\ fence' = Reconciled(r, TRUE).fence
  /\ UNCHANGED <<task, work, control, retry, archive, record, outcome, pending, history,
                 bounds>>

RetryRequest(s) ==
  /\ retry[s] = "none"
  /\ \/ Broken(s) /\ retry' = [retry EXCEPT ![s] = "broken"]
     \/ record[s] = "cancelled" /\ exec[s] = "stopped"
        /\ retry' = [retry EXCEPT ![s] = "stopped"]
  /\ requests < MaxRequests /\ requests' = requests + 1
  /\ UNCHANGED <<task, work, fence, control, document, record, outcome, pending,
                 history, faults>>

\* Some awaits later the source is fenced, and its workers are waited for.
RetryOf(s) ==
  /\ retry[s] # "none" /\ retry' = [retry EXCEPT ![s] = "none"]
  /\ fence' = fence \cup {s}
  /\ UNCHANGED <<work, control, record, outcome, pending, stopped, bounds>>

\* A bug: the status to give back is not kept.
HandoffForgets(s, c) ==
  LET source == Reconciled(s, retry[s] = "broken") IN
  /\ RetryOf(s) /\ work[s] # "busy"
  /\ Listed(s) /\ source.status \in {"failed", "stopped"} /\ source.lock \in {None, s}
  /\ task[c] = "idle"
  /\ Goto(c, "handed")
  /\ exec' = [exec EXCEPT ![s] = "absent", ![c] = "running"]
  /\ lock' = c
  /\ from' = [from EXCEPT ![c] = [source |-> s, was |-> "none"]]
  /\ plan' = [plan EXCEPT ![c] = plan[s]]
  /\ UNCHANGED <<archive, closed>>

\* Reconciliation and handoff_workbench_execution_for_recovery: the child takes
\* the entry over, unless another execution holds the resources.
RetryHandoff(s, c) ==
  LET source == Reconciled(s, retry[s] = "broken") IN
  /\ RetryOf(s) /\ work[s] # "busy"
  /\ Listed(s) /\ source.status \in {"failed", "stopped"} /\ source.lock \in {None, s}
  /\ task[c] = "idle"
  /\ Goto(c, "handed")
  /\ exec' = [exec EXCEPT ![s] = "absent", ![c] = "running"]
  /\ lock' = c
  /\ from' = [from EXCEPT ![c] = [source |-> s, was |-> source.status]]
  /\ plan' = [plan EXCEPT ![c] = plan[s]]
  /\ UNCHANGED <<archive, closed>>

\* The source has no entry, does not drain, or its resources are taken.
RetryGiveUp(s) ==
  /\ RetryOf(s)
  /\ \/ UNCHANGED document
     \/ LET source == Reconciled(s, retry[s] = "broken") IN
        /\ Listed(s) /\ work[s] # "busy"
        /\ exec' = [exec EXCEPT ![s] = source.status] /\ lock' = source.lock
        /\ UNCHANGED archive
  /\ UNCHANGED <<task, plan, from, closed>>

\* No node to retry from: release_unretryable_execution dismisses the plan, for
\* a request, or for the projection that reads the run to show it.
RetryDismiss(s) ==
  /\ RetryOf(s) /\ work[s] # "busy"
  /\ Listed(s)
  /\ Remove(s) /\ closed' = closed \cup {plan[s]}
  /\ UNCHANGED <<task, archive, plan, from>>

\* The child gets its record.
RetryInsert(c) ==
  /\ task[c] = "handed"
  /\ Goto(c, "prepared")
  /\ record' = [record EXCEPT ![c] = "running"]
  /\ UNCHANGED <<work, fence, control, retry, document, outcome, pending, history,
                 bounds>>

\* The runtime registers the child, without another look at the document.
ChildRegister(c) ==
  /\ task[c] = "prepared"
  /\ Goto(c, "running")
  /\ fence' = fence \ {c}
  /\ from' = [from EXCEPT ![c] = NoSource]
  /\ UNCHANGED <<work, control, retry, document, record, outcome, pending, plan, closed,
                 stopped, bounds>>

\* A bug: the source's entry comes back whether the child's is there or not.
AbandonRestores(c) ==
  LET s == from[c].source IN
  /\ task[c] \in {"handed", "prepared"}
  /\ Goto(c, "gone")
  /\ exec' = [exec EXCEPT ![c] = "absent", ![s] = from[c].was]
  /\ lock' = WithoutLock(c)
  /\ Finished(c, "cancelled")
  /\ from' = [from EXCEPT ![c] = NoSource]
  /\ UNCHANGED <<work, fence, control, retry, archive, outcome, pending, plan, closed,
                 stopped, bounds>>

\* abandon_prepared_retry: the entry goes back to the source.
RetryAbandon(c) ==
  LET s == from[c].source IN
  /\ task[c] \in {"handed", "prepared"}
  /\ Goto(c, "gone")
  /\ IF Listed(c)
     THEN /\ exec' = [exec EXCEPT ![c] = "absent",
                                  ![s] = IF @ = "absent" THEN from[c].was ELSE @]
          /\ lock' = WithoutLock(c)
     ELSE UNCHANGED <<exec, lock>>
  /\ Finished(c, "cancelled")
  /\ from' = [from EXCEPT ![c] = NoSource]
  /\ UNCHANGED <<work, fence, control, retry, archive, outcome, pending, plan, closed,
                 stopped, bounds>>

\* The scanner marks a running record whose lease another process held, or
\* which lapsed: its run has left the registry, and its heartbeat with it.  A
\* prepared child is registered well before its lease can lapse.
Interrupt(r) ==
  /\ record[r] = "running" /\ task[r] \in {"owing", "gone", "dead"} /\ ~Live(r)
  /\ Finished(r, "interrupted")
  /\ UNCHANGED <<memory, document, outcome, pending, history, bounds>>

\* The process ends: what is in memory is lost.
Crash ==
  /\ Fault
  /\ task' = [r \in Runs |-> IF task[r] = "idle" THEN "idle" ELSE "dead"]
  /\ work' = [r \in Runs |-> "idle"] /\ fence' = {}
  /\ control' = [r \in Runs |-> "none"] /\ retry' = [r \in Runs |-> "none"]
  /\ from' = [r \in Runs |-> NoSource]
  /\ UNCHANGED <<document, record, outcome, pending, plan, closed, stopped, requests>>

-----------------------------------------------------------------------------
Next ==
  \/ \E r \in Runs :
       \/ Begin(r)
       \/ Schedule(r) \/ WorkerBegin(r) \/ WorkerRejected(r) \/ WorkerEnd(r)
       \/ NodeBoundary(r) \/ GraphRaises(r) \/ Finish(r)
       \/ FailReport(r) \/ Close(r) \/ PayOwed(r)
       \/ Disconnect(r) \/ Cancelled(r)
       \/ StopRequest(r) \/ StopEnd(r) \/ StopTimeout(r)
       \/ StopRecords(r) \/ StopReleases(r)
       \/ PlanStop(r) \/ EndRequest(r) \/ EndDone(r) \/ EndTimeout(r)
       \/ Project(r) \/ RetryRequest(r) \/ RetryGiveUp(r)
       \/ RetryDismiss(r) \/ RetryInsert(r) \/ ChildRegister(r) \/ RetryAbandon(r)
       \/ Interrupt(r)
  \/ \E r \in Runs, end \in {"completed", "awaiting", "failed"} : GraphEnds(r, end)
  \/ \E r, p \in Runs : Resume(r, p) \/ RetryHandoff(p, r)
  \/ Crash

Spec == Init /\ [][Next]_vars

-----------------------------------------------------------------------------
(* Properties.                                                             *)

\* A plan that was begun has exactly one entry in the lifecycle document,
\* active or archived, until it is completed or dismissed: no handoff,
\* abandoned retry, end, resumption or crash loses it or doubles it.
OnePlanEntry ==
  \A p \in Runs : plan[p] = p =>
    Cardinality({r \in Runs : plan[r] = p /\ (Listed(r) \/ r \in archive)})
      = IF p \in closed THEN 0 ELSE 1

\* The lock is held by an execution that is listed: no run leaves it behind.
LockHeldByListed == lock # None => Listed(lock)

\* The lock of a run is not released, as opposed to taken over, while one of
\* its workers is at work.
ReleasedAfterExit ==
  [][\A r \in Runs : lock = r /\ lock' = None => work[r] # "busy"]_vars

\* When a stop has answered that the run was cancelled, none of its workers
\* runs or will, it holds no lock, and it left no draft to confirm behind.
CancelledIsFinal ==
  \A r \in stopped : work[r] # "busy" /\ lock # r /\ pending # r

\* A run whose graph failed and which left the registry with its writes done
\* has no lock.
FailedIsReleased ==
  \A r \in Runs :
    outcome[r] = "failed" /\ exec[r] = "failed" /\ task[r] = "gone" => lock # r

\* Two runs of one plan never write at the same time.
OneWriterPerPlan ==
  \A r, s \in Runs :
    work[r] = "busy" /\ work[s] = "busy" /\ plan[r] = plan[s] => r = s
===============================================================================

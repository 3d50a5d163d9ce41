---------------------------- MODULE BuildScheduling ----------------------------
(***************************************************************************)
(* The Build node and what it leaves behind: one invocation takes a        *)
(* confirmed task plan, binds itself to that plan, runs batches of tasks   *)
(* until the plan is done or stuck, plans repairs of failed tasks, and can *)
(* pause to ask the user.  Its facts are kept in three places:             *)
(*   - plan: the formal plan of the workspace, whose task statuses are     *)
(*     written back after every batch;                                     *)
(*   - rec: one execution record per run, with its binding and progress;   *)
(*   - thread: the values of the conversation's graph thread, which only   *)
(*     an invocation that returns changes.                                 *)
(* Runs are started by a confirmation, by a retry of a failed or           *)
(* interrupted run, and by a request that resumes at Build; another        *)
(* conversation may confirm a new plan at any time, and the process may    *)
(* die between any two steps.                                              *)
(*                                                                         *)
(* All tasks are in the execution scope.  A task has repairs of at most    *)
(* one repair plan, for a task that has repairs does not fail again; the   *)
(* plan may give it several.  A task is its id: what the versions of the   *)
(* plan ask of it is not told apart.                                       *)
(***************************************************************************)
EXTENDS Naturals, FiniteSets

CONSTANTS
  Tasks,
  Deps,         \* what a task waits for
  Locks,        \* files a task and its repairs write
  Database,     \* tasks whose owner is the database agent
  Rank,         \* order of scheduling of tasks and repairs
  Failures,     \* the classes of failures that occur
  MaxRepairs,   \* repairs the planner makes of a task that failed
  MaxRuns, MaxVersions, MaxFaults

\* A task, numbered 0, and its repairs.
Jobs == UNION {{t} \X (0..MaxRepairs[t]) : t \in Tasks}
Job(t) == <<t, 0>>
Repairs == UNION {{t} \X (1..MaxRepairs[t]) : t \in Tasks}
RunIds == 1..MaxRuns
Versions == 1..MaxVersions

ASSUME BuildAssumption ==
  /\ IsFiniteSet(Tasks)
  /\ Deps \in [Tasks -> SUBSET Tasks]
  /\ Database \subseteq Tasks
  /\ Rank \in [Jobs -> Nat]
  /\ \A i, j \in Jobs : i # j => Rank[i] # Rank[j]
  /\ \A i, j \in Jobs : (i[1] \in Database /\ j[1] \notin Database) => Rank[i] < Rank[j]
  /\ Failures \subseteq {"retry", "repair", "confirm", "terminal"}
  /\ MaxRepairs \in [Tasks -> Nat \ {0}]
  /\ MaxRuns \in Nat \ {0} /\ MaxVersions \in Nat \ {0} /\ MaxFaults \in Nat

VARIABLES
  plan,    \* formal plan: version and status of its tasks
  rec,     \* execution record of a run: binding and progress
  thread,  \* graph values: tasks, repair plan, binding, source of the retry
  cur,     \* the invocation of the node under way
  last,    \* the last run and how it ended
  ran,     \* tasks that succeeded, or a repair of theirs, with the version bound
  adopted, \* versions under which a run took over done tasks bound to nothing
  behind,  \* work was taken up from before what the formal plan has
  faults
history == <<ran, adopted, behind>>
vars == <<plan, rec, thread, cur, last, history, faults>>

\* A failed task is what its failure is classified as; a paused one is
\* pending, and waits for the approval of a database operation.
Failed == {"retry", "repair", "confirm", "terminal"}
Ready == {"pending", "paused"}
Status == {"absent", "done"} \cup Ready \cup Failed
Statuses == [Jobs -> Status]
Present(st) == {j \in Jobs : st[j] # "absent"}
With(st, S, s) == [j \in Jobs |-> IF j \in S THEN s ELSE st[j]]

RepairPlans == [decision : {"none", "repair", "confirm", "terminal"}, of : SUBSET Repairs]
NoRepairPlan == [decision |-> "none", of |-> {}]

\* A binding is the run that made it and the version of the plan it copied.
Bindings == (RunIds \cup {0}) \X (Versions \cup {0})
Unbound == <<0, 0>>

Progress == [by : RunIds \cup {0}, bind : Bindings, st : Statuses, repairs : RepairPlans]
Blank == [j \in Jobs |-> IF j = Job(j[1]) THEN "pending" ELSE "absent"]
\* by is 0 where a record has no progress.
NoProgress == [by |-> 0, bind |-> Unbound, st |-> Blank, repairs |-> NoRepairPlan]

Nothing == [at |-> "idle", kind |-> "none", answer |-> "none", st |-> Blank,
            repairs |-> NoRepairPlan, bind |-> Unbound, source |-> 0, retry |-> FALSE,
            batch |-> {}, left |-> 0, verdict |-> "none"]

TypeOK ==
  /\ plan \in [ver : Versions \cup {0}, st : Statuses]
  /\ rec \in [RunIds -> [bind : Bindings, progress : Progress]]
  /\ thread \in [st : Statuses, repairs : RepairPlans, bind : Bindings, source : RunIds \cup {0}]
  /\ cur \in [at : {"idle", "bind", "prepare", "loop", "batch", "formal", "assess", "return"},
              kind : {"none", "start", "retry", "resume"}, answer : {"none", "yes", "no"},
              st : Statuses, repairs : RepairPlans, bind : Bindings,
              source : RunIds \cup {0}, retry : BOOLEAN, batch : SUBSET Jobs,
              left : 0..(2 * Cardinality(Jobs)),
              verdict : {"none", "completed", "failed", "paused"}]
  /\ last \in [run : 0..MaxRuns,
               status : {"none", "running", "completed", "failed", "paused", "interrupted"}]
  /\ ran \subseteq (Versions \X Tasks)
  /\ adopted \subseteq Versions /\ behind \in BOOLEAN
  /\ faults \in 0..MaxFaults

Init ==
  /\ plan = [ver |-> 0, st |-> Blank]
  /\ rec = [r \in RunIds |-> [bind |-> Unbound, progress |-> NoProgress]]
  /\ thread = [st |-> Blank, repairs |-> NoRepairPlan, bind |-> Unbound, source |-> 0]
  /\ cur = Nothing
  /\ last = [run |-> 0, status |-> "none"]
  /\ ran = {} /\ adopted = {} /\ behind = FALSE /\ faults = 0

-----------------------------------------------------------------------------
(* Pure parts of the scheduler.                                            *)

Done(st) == {t \in Tasks : st[Job(t)] = "done"}

\* A repair has no dependencies.
WaitsFor(j) == IF j = Job(j[1]) THEN Deps[j[1]] ELSE {}

\* A bug: only the failed dependencies hold a task back.
UnblockedCandidates(st) ==
  {j \in Jobs : st[j] \in Ready /\ \A d \in WaitsFor(j) : st[Job(d)] \notin Failed}

Candidates(st) == {j \in Jobs : st[j] \in Ready /\ WaitsFor(j) \subseteq Done(st)}

\* No other agent works before every job of the database agent is done.
DatabaseFirst(st, C) ==
  LET database == {j \in Present(st) : j[1] \in Database}
  IN IF \A j \in database : st[j] = "done" THEN C ELSE C \cap database

Eligible(st) == DatabaseFirst(st, Candidates(st))

\* In the order of scheduling, each candidate whose locks no selected job has:
\* there is one such batch.
LockCompatible(B, C) ==
  \A j \in C :
    j \in B <=> \A i \in B : Rank[i] < Rank[j] => Locks[i[1]] \cap Locks[j[1]] = {}

\* A failed task is closed by the first of its repairs that succeeds.
CloseRepaired(st) ==
  [j \in Jobs |-> IF /\ j = Job(j[1]) /\ st[j] \in Failed
                     /\ \E r \in Repairs : r[1] = j[1] /\ st[r] = "done"
                  THEN "done" ELSE st[j]]

\* Failed tasks the repair planner is asked about: none has a second plan.
ToRepair(st) ==
  {t \in Tasks : st[Job(t)] = "repair" /\ \A r \in Repairs : r[1] = t => st[r] = "absent"}

\* Its answer about a task: so many repairs, or one that has to be confirmed.
Answers(t) == [decision : {"repair"}, repairs : 1..MaxRepairs[t]]
              \cup [decision : {"confirm", "terminal"}, repairs : {1}]
AnswersFor(T) ==
  {answer \in [T -> UNION {Answers(t) : t \in T}] : \A t \in T : answer[t] \in Answers(t)}

\* What it decides of each, taken together.
RepairPlan(answer) ==
  LET Asked(d) == {t \in DOMAIN answer : answer[t].decision = d}
      Of(d) == {r \in Repairs : r[1] \in Asked(d) /\ r[2] <= answer[r[1]].repairs}
  IN CASE Asked("confirm") # {} -> [decision |-> "confirm", of |-> Of("confirm")]
       [] Asked("confirm") = {} /\ (Asked("terminal") # {} \/ Asked("repair") = {}) ->
            [decision |-> "terminal", of |-> {}]
       [] OTHER -> [decision |-> "repair", of |-> Of("repair")]

\* A repair plan joins the tasks; a retry also reopens its failed repairs.
Append(st, repairs, reset) ==
  [j \in Jobs |-> IF j \in repairs.of /\ (st[j] = "absent" \/ (reset /\ st[j] # "done"))
                  THEN "pending" ELSE st[j]]

ReadyRepairs(repairs) == IF repairs.decision = "repair" THEN repairs.of ELSE {}

-----------------------------------------------------------------------------
(* What several steps do.                                                  *)

Goto(at) == cur' = [cur EXCEPT !.at = at]

Own(st, repairs) == [by |-> last.run, bind |-> cur.bind, st |-> st, repairs |-> repairs]

Write(progress) == rec' = [rec EXCEPT ![last.run] = [bind |-> cur.bind, progress |-> progress]]

End(status) ==
  /\ cur' = Nothing
  /\ last' = [last EXCEPT !.status = status]

\* The graph merges what the node returned into its values.  An early return
\* does not name the binding.
ReturnEarly(st, repairs, status) ==
  /\ End(status)
  /\ thread' = [thread EXCEPT !.st = st, !.repairs = repairs]

Return(st, repairs, status) ==
  /\ End(status)
  /\ thread' = [thread EXCEPT !.st = st, !.repairs = repairs, !.bind = cur.bind]

-----------------------------------------------------------------------------
(* How a run comes to the node.                                            *)

Confirm ==
  /\ plan.ver < MaxVersions
  /\ plan' = [ver |-> plan.ver + 1, st |-> Blank]

\* Another conversation confirms a new plan.
Replan ==
  /\ plan.ver > 0 /\ Confirm
  /\ UNCHANGED <<rec, thread, cur, last, history, faults>>

Enter(kind, answer) ==
  /\ cur.at = "idle" /\ last.run < MaxRuns
  /\ last' = [run |-> last.run + 1, status |-> "running"]
  /\ cur' = [Nothing EXCEPT !.at = "bind", !.kind = kind, !.answer = answer]
  /\ UNCHANGED <<history, faults>>

\* Only the record of the run retried last is read again: no other is kept.
From(source) ==
  rec' = [r \in RunIds |-> IF r = source THEN rec[r] ELSE [bind |-> Unbound, progress |-> NoProgress]]

\* This conversation confirms a plan, and goes on to its Build.  The handoff
\* keeps the repair plan of the last one.
Start ==
  /\ Confirm
  /\ Enter("start", "none")
  /\ thread' = [thread EXCEPT !.st = Blank, !.bind = Unbound, !.source = 0]
  /\ From(0)

Retry ==
  /\ last.status \in {"failed", "interrupted"}
  /\ Enter("retry", "none")
  /\ UNCHANGED plan
  /\ thread' = [thread EXCEPT !.source = last.run]
  /\ From(last.run)

\* The paused run put a question, of an approval or of a wider repair.
Asking == thread.repairs.decision = "confirm" \/ \E j \in Jobs : thread.st[j] = "paused"

\* The user answers a paused run, or asks to run from Build again.
Resume ==
  /\ last.status # "none"
  /\ \/ Enter("resume", "none")
     \/ last.status = "paused" /\ Asking /\ \E answer \in {"yes", "no"} : Enter("resume", answer)
  /\ From(thread.source)
  /\ UNCHANGED <<plan, thread>>

-----------------------------------------------------------------------------
(* Binding: which tasks this run works on, and under which plan.           *)

Restarting == cur.kind = "resume" /\ thread.source = 0

Source == IF thread.source = 0 THEN NoProgress ELSE rec[thread.source].progress

\* Not the progress that run inherited, nor one with a repair which the
\* repair plan of the progress no longer has.
Restorable(p) ==
  /\ p.by = thread.source
  /\ thread.bind \in {Unbound, p.bind}
  /\ p.bind[2] = plan.ver
  /\ Repairs \cap Present(p.st) \subseteq ReadyRepairs(p.repairs)

Take(mode, p, progress) ==
  /\ cur' = [cur EXCEPT !.at = "prepare", !.st = p.st, !.repairs = p.repairs,
                        !.bind = p.bind, !.retry = (mode = "restore"),
                        !.source = IF mode = "drift" THEN 0 ELSE thread.source]
  /\ rec' = [rec EXCEPT ![last.run] = [bind |-> p.bind, progress |-> progress]]
  /\ adopted' = IF mode = "entry" /\ thread.bind = Unbound /\ \E j \in Jobs : p.st[j] = "done"
                THEN adopted \cup {plan.ver} ELSE adopted
  /\ behind' = (mode # "drift" /\ (mode = "restore" /\ cur.kind = "retry" => behind))
  /\ UNCHANGED <<plan, thread, last, ran, faults>>

Formal(st) == [by |-> 0, bind |-> <<last.run, plan.ver>>, st |-> st, repairs |-> NoRepairPlan]

\* A bug: the progress does not come from the execution record.
BindIgnoresRecord ==
  /\ cur.at = "bind" /\ thread.bind[2] \in {0, plan.ver}
  /\ Take("restore", [by |-> 0, st |-> thread.st, repairs |-> thread.repairs,
                      bind |-> IF thread.bind = Unbound THEN <<last.run, plan.ver>> ELSE thread.bind],
          NoProgress)

Bind ==
  /\ cur.at = "bind"
  /\ \/ Restarting /\ Take("restart", Formal(Blank), NoProgress)
     \/ /\ ~Restarting /\ Source.by # 0
        /\ IF Restorable(Source) THEN Take("restore", Source, Source)
           ELSE Take("drift", Formal(plan.st), NoProgress)
     \/ /\ ~Restarting /\ Source.by = 0 /\ thread.bind[2] \in {0, plan.ver}
        /\ Take("entry", [by |-> 0, st |-> thread.st, repairs |-> thread.repairs,
                          bind |-> IF thread.bind = Unbound THEN <<last.run, plan.ver>> ELSE thread.bind],
                NoProgress)
     \/ /\ ~Restarting /\ Source.by = 0 /\ thread.bind[2] \notin {0, plan.ver}
        /\ End("failed")
        /\ UNCHANGED <<plan, rec, thread, history, faults>>

-----------------------------------------------------------------------------
(* Preparation: the user's answer, the selection of a retry, the repairs.  *)

Paused == {j \in Jobs : cur.st[j] = "paused"}

Rejected ==
  /\ cur.at = "prepare" /\ cur.answer = "no"
  /\ IF Paused # {} THEN ReturnEarly(With(cur.st, Paused, "terminal"), cur.repairs, "failed")
     ELSE /\ cur.repairs.decision = "confirm"
          /\ ReturnEarly(cur.st, [cur.repairs EXCEPT !.decision = "terminal"], "failed")
  /\ UNCHANGED <<plan, rec, history, faults>>

\* Asked for a wider repair, and still without an answer.
Unanswered ==
  /\ cur.at = "prepare" /\ cur.answer = "none" /\ cur.repairs.decision = "confirm"
  /\ ReturnEarly(cur.st, cur.repairs, "paused")
  /\ UNCHANGED <<plan, rec, history, faults>>

\* A bug: as many iterations as jobs that are ready to run or wait.
HalfBudget(st) == Cardinality({j \in Present(st) : st[j] \in Ready})

Budget(st) == 2 * Cardinality(Present(st))

\* How the run came to the node is not read again.
Prepared(st, repairs, write) ==
  /\ cur' = [cur EXCEPT !.at = "loop", !.st = st, !.repairs = repairs, !.left = Budget(st),
                        !.kind = "none", !.answer = "none", !.retry = FALSE]
  /\ IF write THEN Write(Own(st, repairs)) ELSE UNCHANGED rec
  /\ UNCHANGED <<plan, thread, last, history, faults>>

\* The repair may also have become invalid since it was asked for.
Approved ==
  /\ cur.at = "prepare" /\ cur.answer = "yes" /\ cur.repairs.decision = "confirm"
  /\ \/ LET repairs == [cur.repairs EXCEPT !.decision = "repair"]
        IN Prepared(Append(cur.st, repairs, FALSE), repairs, TRUE)
     \/ /\ ReturnEarly(cur.st, [decision |-> "terminal", of |-> {}], "failed")
        /\ UNCHANGED <<plan, rec, history, faults>>

Retryable(st) == {j \in Jobs : st[j] = "retry"}

\* Retryable tasks are reopened; only without any are the repairs.
Prepare ==
  /\ cur.at = "prepare" /\ cur.repairs.decision # "confirm"
  /\ ~(cur.answer = "no" /\ Paused # {})
  /\ LET repairs == ReadyRepairs(cur.repairs)
         retryable == Retryable(cur.st)
     IN IF cur.retry /\ retryable # {} THEN Prepared(With(cur.st, retryable, "pending"), cur.repairs, TRUE)
        ELSE IF repairs # {} THEN Prepared(Append(cur.st, cur.repairs, cur.retry), cur.repairs, cur.retry)
        ELSE Prepared(cur.st, cur.repairs, FALSE)

-----------------------------------------------------------------------------
(* The scheduling loop.                                                    *)

AllDone(st) == \A j \in Present(st) : st[j] = "done"

Verdict(st, repairs) ==
  IF repairs.decision = "confirm" \/ (~AllDone(st) /\ \E j \in Jobs : st[j] = "confirm") THEN "paused"
  ELSE IF AllDone(st) THEN "completed" ELSE "failed"

\* The record of the end; closing work after the last task may fail.
Finalize(st, repairs) ==
  /\ \/ cur' = [cur EXCEPT !.at = "return", !.repairs = repairs, !.verdict = Verdict(st, repairs)]
     \/ /\ Verdict(st, repairs) = "completed"
        /\ cur' = [cur EXCEPT !.at = "return", !.verdict = "failed"]
  /\ Write(Own(st, repairs))
  /\ UNCHANGED <<plan, thread, last, history, faults>>

\* Complete, stuck, or out of iterations.
LoopEnds ==
  /\ cur.at = "loop"
  /\ cur.left = 0 \/ Eligible(cur.st) = {}
  /\ Finalize(cur.st, cur.repairs)

\* The formal plan changed: what was done stays in the thread.
Drift ==
  /\ cur.at = "loop" /\ cur.left > 0 /\ Eligible(cur.st) # {}
  /\ plan.ver # cur.bind[2]
  /\ Return(cur.st, thread.repairs, "failed")
  /\ UNCHANGED <<plan, rec, history, faults>>

Dispatch ==
  /\ cur.at = "loop" /\ cur.left > 0 /\ Eligible(cur.st) # {}
  /\ plan.ver = cur.bind[2]
  /\ \E B \in SUBSET Eligible(cur.st) :
       /\ LockCompatible(B, Eligible(cur.st))
       /\ cur' = [cur EXCEPT !.at = "batch", !.batch = B, !.left = @ - 1]
  /\ UNCHANGED <<plan, rec, thread, last, history, faults>>

\* A bug: the jobs of the batch stay running.
AskLeavesRunning ==
  /\ cur.at = "batch"
  /\ \E j \in cur.batch : j[1] \in Database
  /\ End("paused")
  /\ thread' = [thread EXCEPT !.st = With(cur.st, cur.batch, "running"),
                              !.repairs = cur.repairs, !.bind = cur.bind, !.source = cur.source]
  /\ UNCHANGED <<plan, rec, history, faults>>

\* A high-risk database operation needs approval: the whole batch is taken
\* back, whatever the others did, and nothing is recorded.
Ask ==
  /\ cur.at = "batch"
  /\ \E j \in cur.batch : j[1] \in Database
  /\ End("paused")
  /\ thread' = [thread EXCEPT !.st = With(cur.st, cur.batch, "paused"),
                              !.repairs = cur.repairs, !.bind = cur.bind, !.source = cur.source]
  /\ UNCHANGED <<plan, rec, history, faults>>

\* Every job of the batch succeeds or fails; the progress is recorded.
Results ==
  /\ cur.at = "batch"
  /\ \E out \in [cur.batch -> Failures \cup {"done"}] :
       LET st == CloseRepaired([j \in Jobs |-> IF j \in cur.batch THEN out[j] ELSE cur.st[j]])
       IN /\ cur' = [cur EXCEPT !.at = "formal", !.st = st, !.batch = {}]
          /\ Write(Own(st, cur.repairs))
          /\ ran' = ran \cup {<<cur.bind[2], j[1]>> : j \in {i \in cur.batch : out[i] = "done"}}
  /\ UNCHANGED <<plan, thread, last, adopted, behind, faults>>

OfTasks(st) == [j \in Jobs |-> IF j = Job(j[1]) THEN st[j] ELSE "absent"]

\* A bug: the statuses go into whatever plan is formal.
WriteAnyPlan ==
  /\ cur.at = "formal" /\ Goto("assess")
  /\ plan' = [plan EXCEPT !.st = OfTasks(cur.st)]
  /\ UNCHANGED <<rec, thread, last, history, faults>>

\* The formal plan takes the statuses of its own tasks, unless it changed.
WriteFormal ==
  /\ cur.at = "formal"
  /\ IF plan.ver = cur.bind[2]
     THEN /\ Goto("assess") /\ plan' = [plan EXCEPT !.st = OfTasks(cur.st)]
          /\ behind' = FALSE /\ UNCHANGED last
     ELSE End("failed") /\ UNCHANGED <<plan, behind>>
  /\ UNCHANGED <<rec, thread, ran, adopted, faults>>

\* After a batch: on to the next one, a question, or the repair planner.
Assess ==
  /\ cur.at = "assess"
  /\ IF ~AllDone(cur.st) /\ \E j \in Jobs : cur.st[j] = "confirm" THEN Finalize(cur.st, cur.repairs)
     ELSE IF \E j \in Jobs : cur.st[j] = "repair" THEN
       \E answer \in AnswersFor(ToRepair(cur.st)) :
         LET repairs == RepairPlan(answer)
         IN IF repairs.decision = "repair"
            THEN /\ cur' = [cur EXCEPT !.at = "loop", !.repairs = repairs,
                                       !.st = Append(cur.st, repairs, FALSE)]
                 /\ UNCHANGED <<plan, rec, thread, last, history, faults>>
            ELSE Finalize(cur.st, repairs)
     ELSE Goto("loop") /\ UNCHANGED <<plan, rec, thread, last, history, faults>>

Returns ==
  /\ cur.at = "return"
  /\ Return(cur.st, cur.repairs, cur.verdict)
  /\ UNCHANGED <<plan, rec, history, faults>>

\* The run is stopped, raises, or its process dies.
Die ==
  /\ cur.at # "idle"
  /\ faults < MaxFaults /\ faults' = faults + 1
  /\ End("interrupted")
  /\ UNCHANGED <<plan, rec, thread, history>>

Step == \/ Bind \/ Rejected \/ Unanswered \/ Approved \/ Prepare \/ LoopEnds \/ Drift
        \/ Dispatch \/ Ask \/ Results \/ WriteFormal \/ Assess \/ Returns

Next == Replan \/ Start \/ Retry \/ Resume \/ Step \/ Die

Spec == Init /\ [][Next]_vars

-----------------------------------------------------------------------------
(* Properties.                                                             *)

\* The lists of tasks that are bound to a version of the plan.
Lists ==
  {<<plan.ver, plan.st>>}
  \cup (IF thread.bind = Unbound THEN {} ELSE {<<thread.bind[2], thread.st>>})
  \cup (IF cur.at \in {"idle", "bind"} THEN {} ELSE {<<cur.bind[2], cur.st>>})
  \cup {<<rec[r].progress.bind[2], rec[r].progress.st>> : r \in RunIds}

\* Wherever tasks are kept, one that is done has all it depends on done, and
\* no agent but the database agent has done anything before the database
\* tasks: whatever was restored, repaired, reset or rewritten in between.
DoneInOrder ==
  \A l \in Lists : \A t \in Done(l[2]) :
    /\ Deps[t] \subseteq Done(l[2])
    /\ t \in Database \/ Database \subseteq Done(l[2])

\* A task is done, in a list bound to a version of the plan, only if it or a
\* repair of it succeeded in a run bound to that version: no write of an old run
\* and no restored progress passes work off as done under a later plan.  The
\* one exception is a version under which a run took over, from the thread,
\* done tasks bound to nothing: an early return keeps the tasks of a restored
\* progress without their binding, and a run that finds no progress of the
\* run it retries takes them, whatever the formal plan has become.
DoneWasRun ==
  \A l \in Lists : l[1] \notin adopted => \A t \in Done(l[2]) :
    <<l[1], t>> \in ran

\* What the formal plan has as done is not run again: by no run once its Build
\* Run has written the plan, by no retry of it, whether it restores the
\* progress or finds it drifted and falls back on the plan.  (A resumed run
\* restarts, or restores what the run retried last had recorded, and a retry
\* of a run without progress starts from the thread: they go back behind the
\* plan, and they and their retries stay there until the plan is written.)
WorkKept == [][Dispatch /\ ~behind => \A j \in cur'.batch : plan.st[j] # "done"]_vars

\* The iterations of a run are fixed before any repair is planned.  A run ends
\* for want of them, with a job that could be run, only if the planner made
\* more repairs than the plan has tasks, by giving several to one failed task:
\* with one repair each, whatever fails, pauses or is retried, they are enough.
ExhaustedByRepairs ==
  cur.at = "loop" /\ cur.left = 0 /\ Eligible(cur.st) # {}
    => Cardinality(Repairs \cap Present(cur.st)) > Cardinality(Tasks)

\* The answer to a paused Build meets the question it answers: "批准和拒绝的
\* 既有审批答案都可返回原 Build，让原数据库审批逻辑处理结果"
\* (src/Backend/tests/test_workbench_confirmation_continuation.py:84).
AnswerMeetsItsQuestion ==
  cur.at = "prepare" /\ cur.answer # "none" => Paused # {} \/ cur.repairs.decision = "confirm"
=============================================================================

---------------------------- MODULE DraftLifecycle ----------------------------
(***************************************************************************)
(* The life of a build task plan after it was validated: it is written as  *)
(* the one pending draft of the workspace, and then confirmed into the     *)
(* formal plan, abandoned, or replaced by a regenerated draft.             *)
(*                                                                         *)
(* Several chat sessions drive workflow executions on the same files.  The *)
(* files are written under one lock per workspace, without an await, so a  *)
(* critical section is one action; an OSError or the end of the process    *)
(* between two of its writes is a choice of how many were made.  The model *)
(* calls of a planner happen outside the lock, between two actions.        *)
(*                                                                         *)
(* A draft is named by its planning run id, and 0 is "no draft".           *)
(***************************************************************************)
EXTENDS Naturals, FiniteSets

CONSTANTS Sessions,       \* chat sessions, each with its own page
          MaxDrafts,      \* planning runs started
          MaxRuns,        \* workflow runs started
          MaxInputs       \* versions of the formal planning inputs

ASSUME DraftLifecycleAssumption ==
  /\ MaxDrafts \in Nat
  /\ MaxRuns \in Nat
  /\ MaxInputs \in Nat

Ids == 1..MaxDrafts
IdOrNone == 0..MaxDrafts
Runs == 0..MaxRuns
Versions == 0..MaxInputs

VARIABLES
  pending,    \* build-task-plan.pending.json
  formal,     \* confirmed_from of build-task-plan.json
  tombstone,  \* extensions.planningResultLifecycle
  runFile,    \* planning-run.json
  inputs,     \* version of the formal planning inputs
  drafts,     \* what is frozen into each planning run when it starts
  born,       \* planning runs started so far
  fact,       \* runtime/dag-regeneration/<draft>.json
  job,        \* the execution each session has in the application lifecycle
  runs,       \* workflow runs started so far
  ended,      \* runs of lifecycle.ended_executions
  issued,     \* drafts that were ever pending, whose identity clients know
  confirmed,  \* drafts that were ever promoted
  abandoned   \* drafts that were ever given a tombstone

files == <<pending, formal, runFile, inputs>>
vars == <<pending, formal, tombstone, runFile, inputs, drafts, born, fact, job,
          runs, ended, issued, confirmed, abandoned>>

\* run: the workflow that planned it; parent: the draft it regenerates.
Draft == [session : Sessions, run : Runs \ {0}, base : IdOrNone, inputs : Versions,
          parent : IdOrNone]

Fact == [phase : {"none", "prepared", "consumed", "committed"}, next : IdOrNone,
         run : Runs]

Actions == {"plan", "confirm", "regenerate"}

\* on: the draft a request names or a gate shows; next, parent: what is being
\* planned; lineage: the runs a native recovery continues; locks: the recorded
\* phase is the planning node; mark: the files fingerprinted at the end.
Job == [st : {"idle", "entered", "planning", "persisting", "awaiting", "failed",
              "ended"},
        run : Runs, act : Actions, on : IdOrNone, next : IdOrNone,
        parent : IdOrNone, lineage : SUBSET Runs, locks : BOOLEAN,
        mark : IdOrNone \X IdOrNone \X IdOrNone \X Versions]

Idle == [st |-> "idle", run |-> 0, act |-> "plan", on |-> 0, next |-> 0,
         parent |-> 0, lineage |-> {}, locks |-> FALSE, mark |-> <<0, 0, 0, 0>>]

TypeOK ==
  /\ pending \in IdOrNone
  /\ formal \in IdOrNone
  /\ tombstone \in IdOrNone
  /\ runFile \in IdOrNone
  /\ inputs \in Versions
  /\ born \in IdOrNone
  /\ drafts \in [1..born -> Draft]
  /\ fact \in [Ids -> Fact]
  /\ job \in [Sessions -> Job]
  /\ runs \in Runs
  /\ ended \subseteq Runs
  /\ issued \subseteq Ids
  /\ confirmed \subseteq Ids
  /\ abandoned \subseteq Ids

Init ==
  /\ pending = 0 /\ formal = 0 /\ tombstone = 0 /\ runFile = 0 /\ inputs = 0
  /\ born = 0 /\ drafts = [d \in {} |-> 0]
  /\ fact = [d \in Ids |-> [phase |-> "none", next |-> 0, run |-> 0]]
  /\ job = [s \in Sessions |-> Idle]
  /\ runs = 0 /\ ended = {} /\ issued = {} /\ confirmed = {} /\ abandoned = {}

-----------------------------------------------------------------------------
(* Admission of a workflow request (start_workbench_execution).            *)

Running(s) == job[s].st \in {"entered", "planning", "persisting"}
Planning(s) == job[s].st \in {"planning", "persisting"}

\* A pending draft is shown for confirmation unless it was confirmed or
\* abandoned, or the execution that planned it is ended.
Actionable ==
  /\ pending # 0
  /\ pending \notin {formal, tombstone}
  /\ drafts[pending].run \notin ended

\* An ended execution may be continued while the workspace is unchanged.
Replaceable(s) ==
  \/ job[s].st \in {"awaiting", "failed"}
  \/ job[s].st = "ended" /\ job[s].mark = files

\* A session has one execution at a time.  No other one is known to plan, and
\* a draft that awaits confirmation only goes on in its session, from the
\* execution the request replaces.
Admitted(s, replaces) ==
  /\ ~Running(s)
  /\ \A t \in Sessions : Running(t) => ~job[t].locks
  /\ Actionable => drafts[pending].session = s /\ replaces

\* A request: plan, or a decision on a draft whose card the client has, which
\* may be an old one.  A decision starts at the planning node; a plan starts
\* at an earlier node, and its phase is recorded as nodes end: it never locks.
Enter(s, act, d, replaces) ==
  /\ runs < MaxRuns
  /\ replaces => Replaceable(s)
  /\ Admitted(s, replaces)
  /\ runs' = runs + 1
  /\ ended' = IF replaces THEN ended \ {job[s].run} ELSE ended
  /\ job' = [job EXCEPT ![s] = [Idle EXCEPT !.st = "entered", !.run = runs + 1,
                                            !.act = act, !.on = d,
                                            !.locks = (act # "plan")]]
  /\ UNCHANGED <<files, tombstone, drafts, born, fact, issued, confirmed, abandoned>>

\* A bug: the retried execution is started without its new run id.
RecoverUnnamed(s, kind) ==
  /\ job[s].st = "failed" /\ runs < MaxRuns
  /\ runs' = runs + 1
  /\ job' = [job EXCEPT ![s] = [Idle EXCEPT !.st = "entered", !.locks = TRUE]]
  /\ UNCHANGED <<files, tombstone, drafts, born, fact, ended, issued, confirmed, abandoned>>

\* The retry of a failed or stopped execution.  The handoff of its place in
\* the lifecycle does not ask for admission.  The business retry starts the
\* node without the old decision; the native recovery repeats it.
Recover(s, kind) ==
  /\ job[s].st = "failed" /\ runs < MaxRuns
  /\ runs' = runs + 1
  /\ job' = [job EXCEPT ![s] =
       IF kind = "business"
       THEN [Idle EXCEPT !.st = "entered", !.run = runs + 1, !.locks = TRUE]
       ELSE [@ EXCEPT !.st = "entered", !.run = runs + 1, !.locks = TRUE,
                      !.lineage = job[s].lineage \cup {job[s].run}]]
  /\ UNCHANGED <<files, tombstone, drafts, born, fact, ended, issued, confirmed, abandoned>>

\* What an execution leaves when it ends: a gate that shows d, or the request a
\* retry repeats.
Show(s, d) ==
  job' = [job EXCEPT ![s] = [Idle EXCEPT !.st = "awaiting", !.run = job[s].run,
                                         !.on = d]]
Fail(s) ==
  job' = [job EXCEPT ![s] = [@ EXCEPT !.st = "failed", !.next = 0, !.parent = 0,
                                      !.locks = FALSE]]

\* A running execution fails, is stopped by its user, or dies with the process.
Interrupt(s) ==
  /\ Running(s)
  /\ Fail(s)
  /\ UNCHANGED <<files, tombstone, drafts, born, fact, runs, ended, issued, confirmed, abandoned>>

\* A waiting execution can be stopped too; its gate is closed with it.
Stop(s) ==
  /\ job[s].st = "awaiting"
  /\ job' = [job EXCEPT ![s] = [Idle EXCEPT !.st = "failed", !.run = job[s].run]]
  /\ UNCHANGED <<files, tombstone, drafts, born, fact, runs, ended, issued, confirmed, abandoned>>

\* End keeps the files and archives the execution with their fingerprint.
End(s) ==
  /\ job[s].st \in {"awaiting", "failed"}
  /\ ended' = ended \cup {job[s].run}
  /\ job' = [job EXCEPT ![s] = [Idle EXCEPT !.st = "ended", !.run = job[s].run,
                                            !.mark = files]]
  /\ UNCHANGED <<files, tombstone, drafts, born, fact, runs, issued, confirmed, abandoned>>

\* A formal revision changes the planning inputs.
Revise ==
  /\ inputs < MaxInputs
  /\ inputs' = inputs + 1
  /\ UNCHANGED <<pending, formal, tombstone, runFile, drafts, born, fact, job, runs,
                 ended, issued, confirmed, abandoned>>

-----------------------------------------------------------------------------
(* Planning.                                                               *)

\* create_run freezes the inputs and the formal plan it starts from.
StartRun(s, d) ==
  /\ born < MaxDrafts
  /\ born' = born + 1
  /\ drafts' = [n \in 1..(born + 1) |->
       IF n <= born THEN drafts[n]
       ELSE [session |-> s, run |-> job[s].run, base |-> formal, inputs |-> inputs,
             parent |-> d]]
  /\ runFile' = born + 1
  /\ job' = [job EXCEPT ![s].st = "planning", ![s].next = born + 1, ![s].parent = d]

Plan(s) ==
  /\ job[s].st = "entered" /\ job[s].act = "plan"
  /\ StartRun(s, 0)
  /\ UNCHANGED <<pending, formal, tombstone, inputs, fact, runs, ended, issued,
                 confirmed, abandoned>>

\* The planner commits a transition of its run, and perhaps the last one,
\* after which it publishes once more and writes the draft.
Commit(s, last) ==
  /\ job[s].st = "planning"
  /\ runFile' = job[s].next
  /\ job' = [job EXCEPT ![s].st = IF last THEN "persisting" ELSE @]
  /\ UNCHANGED <<pending, formal, tombstone, inputs, drafts, born, fact, runs, ended,
                 issued, confirmed, abandoned>>

\* A bug: the regeneration is recorded as committed before its draft is written.
PersistRecordsFirst(s) ==
  LET n == job[s].next
      d == job[s].parent IN
  /\ job[s].st = "persisting"
  /\ fact' = IF d = 0 THEN fact ELSE [fact EXCEPT ![d].phase = "committed"]
  /\ \/ Show(s, n) /\ pending' = n /\ issued' = issued \cup {n}
     \/ Fail(s) /\ UNCHANGED <<pending, issued>>
  /\ UNCHANGED <<formal, tombstone, runFile, inputs, drafts, born, runs, ended,
                 confirmed, abandoned>>

\* The mainline writes the draft only if the run file still is its own; the
\* regeneration writes it in any case, then records that it did.  The process
\* may end before the execution is shown as awaiting a decision.
Persist(s) ==
  LET n == job[s].next
      d == job[s].parent IN
  /\ job[s].st = "persisting"
  /\ \/ /\ d = 0 /\ runFile # n
        /\ Fail(s)
        /\ UNCHANGED <<pending, fact, issued>>
     \/ /\ d = 0 /\ runFile = n
        /\ pending' = n /\ issued' = issued \cup {n}
        /\ Show(s, n) \/ Fail(s)
        /\ UNCHANGED fact
     \/ /\ d # 0
        /\ pending' = n /\ issued' = issued \cup {n}
        /\ \/ Fail(s) /\ UNCHANGED fact
           \/ (Show(s, n) \/ Fail(s)) /\ fact' = [fact EXCEPT ![d].phase = "committed"]
  /\ UNCHANGED <<formal, tombstone, runFile, inputs, drafts, born, runs, ended,
                 confirmed, abandoned>>

-----------------------------------------------------------------------------
(* Regeneration: the old draft is consumed before the new one is planned.  *)

\* The run file of d goes with it, at best effort.
Dropped(d) == {runFile, IF runFile = d THEN 0 ELSE runFile}
Deleted(d) == pending' = 0 /\ runFile' \in IF pending = d THEN Dropped(d) ELSE {runFile}

\* A bug: a later request need not continue the run that the fact names.
FactAdmitsAnyone(s, d) ==
  fact[d].phase = "none" => pending = d /\ drafts[d].session = s

\* The first request must name the pending draft of its session; a later one
\* must continue the run that the fact names.
FactAdmits(s, d) ==
  IF fact[d].phase = "none" THEN pending = d /\ drafts[d].session = s
                            ELSE fact[d].run \in job[s].lineage

Touched(s, d) ==
  [fact EXCEPT ![d].run = job[s].run,
               ![d].phase = IF @ = "none" THEN "prepared" ELSE @]

Unconsumed(d) == fact[d].phase \in {"none", "prepared"}
Decided(d) == d \in {formal, tombstone}

\* A bug: the consumption is recorded before the deletion.
ConsumeRecordsFirst(s, d) ==
  /\ FactAdmits(s, d) /\ Unconsumed(d)
  /\ pending = 0 \/ (pending = d /\ ~Decided(d))
  /\ Fail(s)
  /\ fact' = [Touched(s, d) EXCEPT ![d].phase = "consumed"]
  /\ UNCHANGED <<pending, runFile, drafts, born>>

\* Four writes: the fact, the deletion, the fact again, the new run.
Consume(s, d) ==
  /\ FactAdmits(s, d) /\ Unconsumed(d)
  /\ pending = 0 \/ (pending = d /\ ~Decided(d))
  /\ \/ /\ Fail(s)
        /\ fact' = Touched(s, d)
        /\ \/ UNCHANGED <<pending, runFile>>
           \/ Deleted(d)
        /\ UNCHANGED <<drafts, born>>
     \/ /\ Fail(s)
        /\ fact' = [Touched(s, d) EXCEPT ![d].phase = "consumed"]
        /\ Deleted(d)
        /\ UNCHANGED <<drafts, born>>
     \/ /\ StartRun(s, d)
        /\ fact' = [Touched(s, d) EXCEPT ![d].phase = "consumed", ![d].next = born + 1]
        /\ pending' = 0

\* The old draft is gone and nothing took its place: plan again.  The fact
\* names the request before it names the new run.
Replan(s, d) ==
  /\ FactAdmits(s, d) /\ fact[d].phase = "consumed" /\ pending = 0
  /\ \/ /\ StartRun(s, d)
        /\ fact' = [Touched(s, d) EXCEPT ![d].next = born + 1]
     \/ /\ Fail(s)
        /\ fact' = Touched(s, d)
        /\ UNCHANGED <<runFile, drafts, born>>
  /\ UNCHANGED pending

\* The new draft had been written: take it up, if its run file still is there.
Adopt(s, d) ==
  /\ FactAdmits(s, d) /\ ~Unconsumed(d) /\ pending # 0 /\ pending = fact[d].next
  /\ \/ /\ runFile = pending
        /\ fact' = [Touched(s, d) EXCEPT ![d].phase = "committed"]
        /\ Show(s, pending) \/ Fail(s)
     \/ /\ fact' = Touched(s, d)
        /\ Fail(s)
  /\ UNCHANGED <<pending, runFile, drafts, born>>

\* A stale decision shows the draft there is, and fails when there is none.
Stale(s) == IF pending' # 0 THEN Show(s, pending') ELSE Fail(s)

\* Any other request is refused.  Refused at the deletion, because the draft
\* was decided before, it still removes what that decision left.
Refuse(s, d) ==
  /\ \/ /\ ~FactAdmits(s, d)
        /\ UNCHANGED <<pending, runFile, fact>>
     \/ /\ FactAdmits(s, d) /\ Unconsumed(d)
        /\ pending # 0 /\ (pending # d \/ Decided(d))
        /\ fact' = Touched(s, d)
        /\ pending' \in IF pending = d THEN {0, d} ELSE {pending}
        /\ runFile' \in IF tombstone = d /\ formal # d THEN Dropped(d) ELSE {runFile}
     \/ /\ FactAdmits(s, d) /\ ~Unconsumed(d)
        /\ IF pending = 0 THEN fact[d].phase = "committed" ELSE pending # fact[d].next
        /\ fact' = Touched(s, d)
        /\ UNCHANGED <<pending, runFile>>
  /\ Stale(s)
  /\ UNCHANGED <<drafts, born>>

RegenerateSteps(s, d) ==
  /\ Consume(s, d) \/ Replan(s, d) \/ Adopt(s, d) \/ Refuse(s, d)
  /\ UNCHANGED <<formal, tombstone, inputs, runs, ended, issued, confirmed, abandoned>>

Regenerate(s) ==
  /\ job[s].st = "entered" /\ job[s].act = "regenerate"
  /\ RegenerateSteps(s, job[s].on)

-----------------------------------------------------------------------------
(* Confirmation.                                                           *)

\* An earlier confirmation of d went through: only its cleanup is repeated.
ConfirmAgain(s, d) ==
  /\ formal = d
  /\ pending' \in IF pending = d THEN {0, d} ELSE {pending}
  /\ job' = [job EXCEPT ![s] = Idle]
  /\ UNCHANGED <<formal, confirmed, runFile, fact, drafts, born>>

\* A bug: the tombstone is not looked at, as if a draft went with its file.
CurrentIfPending(d) == formal # d /\ pending = d

\* The checks a confirmation makes before it looks at the base and the inputs.
Current(d) == formal # d /\ tombstone # d /\ pending = d

\* A bug: only the inputs are compared, and not the formal plan.
OutdatedInputs(d) == drafts[d].inputs # inputs

\* A draft planned from another formal plan or from other inputs.
Outdated(d) == drafts[d].base # formal \/ drafts[d].inputs # inputs

\* The replacement of the formal file is the commit point; what follows, the
\* removal of the pending file and the end of the execution, may fail.
Promote(s, d) ==
  /\ Current(d) /\ ~Outdated(d)
  /\ formal' = d /\ confirmed' = confirmed \cup {d}
  /\ pending' \in {0, d}
  /\ job' = [job EXCEPT ![s] = Idle] \/ Fail(s)
  /\ UNCHANGED <<runFile, fact, drafts, born>>

\* Not current, or rejected by the DAG gate, which evaluates the plan anew.
ConfirmStale(s, d) ==
  /\ formal # d /\ (Current(d) => ~Outdated(d))
  /\ UNCHANGED <<pending, formal, confirmed, runFile, fact, drafts, born>>
  /\ Stale(s)

\* An outdated draft is regenerated at once, as a first request.
Confirm(s) ==
  LET d == job[s].on IN
  /\ job[s].st = "entered" /\ job[s].act = "confirm"
  /\ \/ /\ ConfirmAgain(s, d) \/ Promote(s, d) \/ ConfirmStale(s, d)
        /\ UNCHANGED <<tombstone, inputs, runs, ended, issued, abandoned>>
     \/ /\ Current(d) /\ Outdated(d)
        /\ IF fact[d].phase = "none" THEN RegenerateSteps(s, d)
           ELSE /\ UNCHANGED <<files, tombstone, drafts, born, fact, runs, ended,
                               issued, confirmed, abandoned>>
                /\ Stale(s)

-----------------------------------------------------------------------------
(* Abandonment, outside any workflow.                                      *)

\* The executions that wait for a decision on d are closed with it.
Closed(d) == [s \in Sessions |->
  IF job[s].st = "awaiting" /\ job[s].on = d /\ drafts[d].session = s
  THEN Idle ELSE job[s]]

\* The tombstone comes first: from then on d is not confirmable even if the
\* deletion fails.  The same steps release a session that owns the draft.
Abandon(d) ==
  /\ d \in issued
  /\ \/ /\ pending = d /\ ~Decided(d)
        /\ tombstone' = d /\ abandoned' = abandoned \cup {d}
        /\ job' = Closed(d)
        /\ \/ pending' = 0 /\ runFile' \in Dropped(d)
           \/ UNCHANGED <<pending, runFile>>
     \/ /\ Decided(d)
        /\ pending' \in IF pending = d THEN {0, d} ELSE {pending}
        /\ runFile' \in IF formal = d THEN {runFile} ELSE Dropped(d)
        /\ UNCHANGED <<tombstone, abandoned, job>>
  /\ UNCHANGED <<formal, inputs, drafts, born, fact, runs, ended, issued, confirmed>>

\* A failed execution returns to the planning of the documents and withdraws
\* its session's draft, without a tombstone.
Withdraw(s) ==
  /\ job[s].st = "failed"
  /\ pending # 0 /\ drafts[pending].session = s /\ ~Decided(pending)
  /\ pending' = 0 /\ runFile' \in Dropped(pending)
  /\ job' = [job EXCEPT ![s] = Idle]
  /\ UNCHANGED <<formal, tombstone, inputs, drafts, born, fact, runs, ended, issued,
                 confirmed, abandoned>>

-----------------------------------------------------------------------------
Next ==
  \/ \E s \in Sessions, replaces \in BOOLEAN : Enter(s, "plan", 0, replaces)
  \/ \E s \in Sessions, act \in {"confirm", "regenerate"}, d \in issued,
        replaces \in BOOLEAN : Enter(s, act, d, replaces)
  \/ \E s \in Sessions, kind \in {"business", "native"} : Recover(s, kind)
  \/ \E s \in Sessions : Interrupt(s)
  \/ \E s \in Sessions : Stop(s)
  \/ \E s \in Sessions : End(s)
  \/ Revise
  \/ \E s \in Sessions : Plan(s)
  \/ \E s \in Sessions, last \in BOOLEAN : Commit(s, last)
  \/ \E s \in Sessions : Persist(s)
  \/ \E s \in Sessions : Regenerate(s)
  \/ \E s \in Sessions : Confirm(s)
  \/ \E d \in Ids : Abandon(d)
  \/ \E s \in Sessions : Withdraw(s)

Spec == Init /\ [][Next]_vars

-----------------------------------------------------------------------------
(* Properties.                                                             *)

\* A draft that was abandoned is never confirmed, neither by a late request,
\* nor while its file outlives a failed deletion, nor when another draft was
\* abandoned since and took over the only tombstone.
AbandonedStaysOut == abandoned \cap confirmed = {}

\* No two confirmed drafts were planned from the same formal plan: the formal
\* plans form one history, and no confirmation discards another.
NoFork ==
  \A d, e \in confirmed : drafts[d].base = drafts[e].base => d = e

\* A draft whose regeneration passed the deletion is not pending again,
\* whatever was lost after it.
ConsumedStaysOut ==
  \A d \in Ids : fact[d].phase \in {"consumed", "committed"} => pending # d

\* A regenerated draft has at most one successor that awaits confirmation or
\* was confirmed, however often the regeneration is repeated or recovered.
OneSuccessor ==
  \A m, n \in confirmed \cup ({pending} \ {0}) :
    drafts[m].parent = drafts[n].parent /\ drafts[m].parent # 0 => m = n

\* A regeneration recorded as committed did write the draft it names: nothing
\* is lost when it is not repeated.
CommittedWasWritten ==
  \A d \in Ids : fact[d].phase = "committed" => fact[d].next \in issued

\* A draft that awaits confirmation is not overwritten by another session's.
NoForeignOverwrite ==
  [][Actionable /\ pending' \notin {0, pending}
       => drafts'[pending'].session = drafts[pending].session]_vars
=============================================================================

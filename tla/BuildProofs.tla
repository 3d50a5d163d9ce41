----------------------------- MODULE BuildProofs -----------------------------
(***************************************************************************)
(* Proofs about BuildScheduling for any finite set of tasks and any number *)
(* of runs, versions and faults.                                           *)
(*                                                                         *)
(* The statuses of the tasks are kept in four places and move between them *)
(* at any step, also when a run dies in between, so each property is kept  *)
(* as a fact of the statuses wherever they are: the order in which they    *)
(* were done (Orders), the version they were run under (Runs, which needs  *)
(* that a run keeps its version and a question the one it was put under:   *)
(* Binds), and that they keep up with the formal plan (Work).  The         *)
(* iterations left and the jobs tried since are as many as two for each    *)
(* task of the plan (Budgets).                                             *)
(*                                                                         *)
(* First what the operators on statuses do; then each step is brought into *)
(* a form that says what it keeps of them (Steps); then one lemma for each *)
(* part of the invariant, with one case for each step or group of steps.   *)
(***************************************************************************)
EXTENDS BuildScheduling, FiniteSetTheorems, TLAPS

-----------------------------------------------------------------------------
(* The inductive invariant.                                                *)

\* A task that failed, paused or is done was a candidate once: what it
\* depends on is done, and so are the tasks of the database agent.
Ordered(st) ==
  \A t \in Tasks :
    /\ st[Job(t)] # "absent"
    /\ st[Job(t)] \in Failed \cup {"done", "paused"} =>
         /\ Deps[t] \subseteq Done(st)
         /\ t \in Database \/ Database \subseteq Done(st)

Orders ==
  /\ Ordered(plan.st) /\ Ordered(thread.st) /\ Ordered(cur.st)
  /\ \A r \in RunIds : Ordered(rec[r].progress.st)
  /\ cur.at = "batch" => cur.batch \subseteq Eligible(cur.st)

\* The jobs that were dispatched and came to a result.
Tried(st) == {j \in Jobs : st[j] \notin Ready \cup {"absent"}}

\* Each iteration tries a job, and no result is undone within a run.
Budgets ==
  /\ cur.at \in {"loop", "formal", "assess"} =>
       2 * Cardinality(Tasks) <= cur.left + Cardinality(Tried(cur.st))
  /\ cur.at = "batch" =>
       2 * Cardinality(Tasks) <= cur.left + Cardinality(Tried(cur.st) \cup cur.batch)

NoneDone(st) == \A j \in Jobs : st[j] # "done"

\* What the tasks have as done was run under the version.
WasRun(R, A, v, st) == v \notin A => \A j \in Jobs : st[j] = "done" => <<v, j[1]>> \in R

Runs ==
  /\ WasRun(ran, adopted, plan.ver, plan.st)
  /\ thread.bind # Unbound => WasRun(ran, adopted, thread.bind[2], thread.st)
  /\ cur.at \notin {"idle", "bind"} => WasRun(ran, adopted, cur.bind[2], cur.st)
  /\ \A r \in RunIds : WasRun(ran, adopted, rec[r].progress.bind[2], rec[r].progress.st)

\* A question is answered under the plan it was put under, or under one of
\* which nothing is done.
Binds ==
  /\ cur.at # "idle" => last.status # "none"
  /\ last.status # "none" => plan.ver # 0 /\ last.run # 0
  /\ thread.bind # Unbound => thread.bind[2] # 0
  /\ cur.at \notin {"idle", "bind"} => cur.bind[2] # 0
  /\ cur.at \notin {"idle", "bind"} => plan.ver = cur.bind[2] \/ NoneDone(plan.st)
  /\ (cur.at = "idle" /\ last.status = "paused") \/ (cur.at = "bind" /\ cur.answer # "none") =>
       thread.bind = Unbound \/ plan.ver = thread.bind[2] \/ NoneDone(plan.st)
  /\ cur.at = "prepare" /\ cur.answer # "none" =>
       thread.bind = Unbound \/ thread.bind[2] = cur.bind[2] \/ NoneDone(cur.st)
  /\ cur.at = "prepare" /\ cur.repairs.decision = "confirm" => thread.bind \in {Unbound, cur.bind}

\* What the formal plan has as done is done in the tasks.
Kept(formal, st) == \A t \in Tasks : formal[Job(t)] = "done" => st[Job(t)] = "done"

Work ==
  /\ \A r \in Repairs : plan.st[r] = "absent"
  /\ thread.source <= last.run
  /\ cur.at # "idle" => thread.source < last.run /\ cur.source < last.run
  /\ cur.at = "bind" => rec[last.run].progress.by = 0
  /\ cur.at = "bind" /\ cur.kind = "retry" /\ ~behind /\ Source.by # 0
     /\ Source.bind[2] = plan.ver => Kept(plan.st, Source.st)
  /\ cur.at \notin {"idle", "bind"} /\ ~behind /\ plan.ver = cur.bind[2] => Kept(plan.st, cur.st)
  /\ (/\ last.run # 0 /\ ~behind /\ rec[last.run].progress.by # 0
      /\ rec[last.run].progress.bind[2] = plan.ver) => Kept(plan.st, rec[last.run].progress.st)
  /\ cur.at = "formal" => rec[last.run].progress.st = cur.st

IInv == TypeOK /\ Orders /\ Budgets /\ Runs /\ Binds /\ Work

-----------------------------------------------------------------------------
(* The operators on the statuses of tasks.                                 *)

SameDone(a, b) == \A j \in Jobs : a[j] = "done" <=> b[j] = "done"

\* A job is a task or a repair of one, and not both.
LEMMA JobsAre ==
  /\ \A t \in Tasks : Job(t) \in Jobs /\ Job(t)[1] = t /\ Job(t) \notin Repairs
  /\ \A j \in Jobs : j[1] \in Tasks /\ (j = Job(j[1]) \/ j \in Repairs)
  /\ \A r \in Repairs : r \in Jobs /\ r[1] \in Tasks /\ r # Job(r[1])
<1>1. \A j : j \in Jobs <=> \E t \in Tasks : \E n \in 0..MaxRepairs[t] : j = <<t, n>>
  BY DEF Jobs
<1>2. \A r : r \in Repairs <=> \E t \in Tasks : \E n \in 1..MaxRepairs[t] : r = <<t, n>>
  BY DEF Repairs
<1>3. \A t \in Tasks : MaxRepairs[t] \in Nat
  BY BuildAssumption
<1> QED
  BY <1>1, <1>2, <1>3 DEF Job

\* A new plan: no task waits for another that is not done, for none was tried.
LEMMA BlankIs ==
  /\ Blank \in Statuses
  /\ \A t \in Tasks : Blank[Job(t)] = "pending"
  /\ \A r \in Repairs : Blank[r] = "absent"
  /\ NoneDone(Blank) /\ Ordered(Blank)
<1>1. Blank \in Statuses
  BY DEF Blank, Statuses, Status, Ready
<1>2. /\ \A t \in Tasks : Blank[Job(t)] = "pending"
      /\ \A r \in Repairs : Blank[r] = "absent"
  BY JobsAre DEF Blank
<1>3. NoneDone(Blank)
  BY DEF Blank, NoneDone
<1> QED
  BY <1>1, <1>2, <1>3 DEF Ordered, Failed

\* Statuses that are rewritten, of jobs that are not done, leave what is done.
LEMMA WithIs ==
  ASSUME NEW st \in Statuses, NEW S \in SUBSET Jobs, NEW s \in Status \ {"absent", "done"},
         \A j \in S : st[j] \notin {"absent", "done"}
  PROVE  /\ With(st, S, s) \in Statuses
         /\ SameDone(st, With(st, S, s))
         /\ \A j \in Jobs : With(st, S, s)[j] = IF j \in S THEN s ELSE st[j]
         /\ Done(With(st, S, s)) = Done(st)
<1>1. /\ With(st, S, s) \in Statuses
      /\ \A j \in Jobs : With(st, S, s)[j] = IF j \in S THEN s ELSE st[j]
  BY DEF With, Statuses
<1>2. SameDone(st, With(st, S, s))
  BY <1>1 DEF SameDone
<1> QED
  BY <1>1, <1>2, JobsAre DEF Done, SameDone

\* An order is kept by reopening jobs, and by what has waited already.
LEMMA WithOrdered ==
  ASSUME NEW st \in Statuses, NEW S \in SUBSET Jobs, NEW s \in Status \ {"absent", "done"},
         \A j \in S : st[j] \notin {"absent", "done"}, Ordered(st),
         \/ s = "pending"
         \/ \A j \in S : st[j] \in Failed \cup {"paused"}
         \/ S \subseteq Eligible(st)
  PROVE  Ordered(With(st, S, s))
<1> DEFINE new == With(st, S, s)
<1>1. /\ Done(new) = Done(st)
      /\ \A j \in Jobs : new[j] = IF j \in S THEN s ELSE st[j]
  BY WithIs
<1>2. SUFFICES ASSUME NEW t \in Tasks
               PROVE  /\ new[Job(t)] # "absent"
                      /\ new[Job(t)] \in Failed \cup {"done", "paused"} =>
                           /\ Deps[t] \subseteq Done(st)
                           /\ t \in Database \/ Database \subseteq Done(st)
  BY <1>1 DEF Ordered
<1>3. Job(t) \in Jobs /\ Job(t)[1] = t
  BY JobsAre
<1>4. CASE Job(t) \notin S
  BY <1>1, <1>3, <1>4 DEF Ordered
<1>5. CASE Job(t) \in S /\ s = "pending"
  BY <1>1, <1>3, <1>5 DEF Failed
<1>6. CASE Job(t) \in S /\ st[Job(t)] \in Failed \cup {"paused"}
  BY <1>1, <1>3, <1>6 DEF Ordered
<1>7. CASE Job(t) \in Eligible(st)
  <2>1. \A d \in Tasks : Job(d) \in Present(st)
    BY JobsAre DEF Ordered, Present
  <2>2. Deps[t] \subseteq Done(st)
    BY <1>3, <1>7 DEF Eligible, DatabaseFirst, Candidates, WaitsFor
  <2>3. t \in Database \/ \A d \in Database : st[Job(d)] = "done"
    BY <1>3, <1>7, <2>1, JobsAre, BuildAssumption DEF Eligible, DatabaseFirst
  <2>4. t \in Database \/ Database \subseteq Done(st)
    BY <2>3, BuildAssumption DEF Done
  <2>5. new[Job(t)] # "absent"
    BY <1>1, <1>3 DEF Ordered
  <2> QED
    BY <2>2, <2>4, <2>5
<1> QED
  BY <1>4, <1>5, <1>6, <1>7

\* A repair plan opens repairs: it undoes nothing that is done, and unless it
\* reopens failed repairs the jobs tried are the same.
LEMMA AppendIs ==
  ASSUME NEW st \in Statuses, NEW p \in RepairPlans, NEW reset \in BOOLEAN
  PROVE  /\ Append(st, p, reset) \in Statuses
         /\ SameDone(st, Append(st, p, reset))
         /\ Ordered(st) => Ordered(Append(st, p, reset))
         /\ ~reset => Tried(Append(st, p, reset)) = Tried(st)
<1> DEFINE new == Append(st, p, reset)
<1>1. /\ new \in Statuses
      /\ \A j \in Jobs : \/ new[j] = st[j]
                         \/ j \in Repairs /\ new[j] = "pending"
                            /\ st[j] # "done" /\ (~reset => st[j] = "absent")
  BY DEF Append, Statuses, Status, Ready, RepairPlans
<1>2. SameDone(st, new)
  BY <1>1 DEF SameDone
<1>3. \A t \in Tasks : new[Job(t)] = st[Job(t)]
  BY <1>1, JobsAre
<1>4. Done(new) = Done(st)
  BY <1>3 DEF Done
<1>5. Ordered(st) => Ordered(new)
  BY <1>3, <1>4 DEF Ordered
<1>6. ~reset => Tried(new) = Tried(st)
  BY <1>1 DEF Tried, Ready
<1> QED
  BY <1>1, <1>2, <1>5, <1>6

Outcomes(B, out, st, new) ==
  /\ new \in Statuses
  /\ \A j \in Jobs : st[j] = "done" => new[j] = "done"
  /\ \A j \in Jobs :
       new[j] = "done" => \/ st[j] = "done" \/ (j \in B /\ out[j] = "done")
                          \/ \E r \in Repairs :
                               /\ r[1] = j[1]
                               /\ st[r] = "done" \/ (r \in B /\ out[r] = "done")
  /\ Ordered(st) => Ordered(new)
  /\ Tried(new) = Tried(st) \cup B

After(st, B, out) == CloseRepaired([j \in Jobs |-> IF j \in B THEN out[j] ELSE st[j]])

\* After a batch: what was done stays done, what is new is of the batch or
\* closed by a repair, and the jobs of the batch have been tried.
LEMMA ResultsAre ==
  ASSUME NEW st \in Statuses, NEW B \in SUBSET Jobs, B \subseteq Eligible(st),
         NEW out \in [B -> Failures \cup {"done"}]
  PROVE  Outcomes(B, out, st, After(st, B, out))
<1> SUFFICES ASSUME NEW raw, raw = [j \in Jobs |-> IF j \in B THEN out[j] ELSE st[j]],
                    NEW new, new = CloseRepaired(raw)
             PROVE  Outcomes(B, out, st, new)
  BY DEF After
<1>0. /\ B \subseteq Candidates(st) /\ Failures \subseteq Failed
      /\ \A j \in B : \/ j[1] \in Database
                     \/ \A i \in Present(st) : i[1] \in Database => st[i] = "done"
  BY BuildAssumption DEF Eligible, DatabaseFirst, Candidates, Failed
<1>1. raw \in Statuses
  BY BuildAssumption DEF Statuses, Status, Failed
<1>2. /\ new \in Statuses
      /\ \A j \in Jobs : \/ new[j] = raw[j]
                         \/ /\ raw[j] \in Failed /\ new[j] = "done"
                            /\ \E r \in Repairs : r[1] = j[1] /\ raw[r] = "done"
  BY <1>1 DEF CloseRepaired, Statuses, Status
<1>3. \A j \in B : st[j] \in Ready /\ raw[j] = out[j] /\ out[j] \in Failed \cup {"done"}
  BY <1>0 DEF Candidates
<1>4. \A j \in Jobs \ B : raw[j] = st[j]
  OBVIOUS
<1>5. \A j \in Jobs : st[j] = "done" => new[j] = "done"
  BY <1>2, <1>3, <1>4 DEF Ready, Failed
<1>6. \A j \in Jobs : new[j] = "done" => \/ raw[j] = "done"
                                         \/ \E r \in Repairs : r[1] = j[1] /\ raw[r] = "done"
  BY <1>2, JobsAre
<1>7. \A j \in Jobs : raw[j] = "done" => st[j] = "done" \/ (j \in B /\ out[j] = "done")
  <2>1. SUFFICES ASSUME NEW j \in Jobs, raw[j] = "done"
                 PROVE  st[j] = "done" \/ (j \in B /\ out[j] = "done")
    OBVIOUS
  <2>2. CASE j \in B
    BY <1>3, <2>1, <2>2
  <2>3. CASE j \notin B
    BY <1>4, <2>1, <2>3
  <2> QED
    BY <2>2, <2>3
<1>8. ASSUME Ordered(st)
      PROVE  Ordered(new)
  <2>1. Done(st) \subseteq Done(new)
    BY <1>5, JobsAre DEF Done
  <2>2. SUFFICES ASSUME NEW t \in Tasks
                 PROVE  /\ new[Job(t)] # "absent"
                        /\ new[Job(t)] \in Failed \cup {"done", "paused"} =>
                             /\ Deps[t] \subseteq Done(new)
                             /\ t \in Database \/ Database \subseteq Done(new)
    BY DEF Ordered
  <2>3. Job(t) \in Jobs /\ Job(t)[1] = t
    BY JobsAre
  <2>4. CASE Job(t) \in B
    <3>1. Deps[t] \subseteq Done(st)
      BY <1>0, <2>3, <2>4 DEF Candidates, WaitsFor
    <3>2. t \in Database \/ Database \subseteq Done(st)
      <4>1. SUFFICES ASSUME t \notin Database, NEW d \in Database
                     PROVE  d \in Done(st)
        OBVIOUS
      <4>2. d \in Tasks /\ Job(d) \in Jobs /\ Job(d)[1] = d
        BY JobsAre, BuildAssumption
      <4>3. Job(d) \in Present(st)
        BY <1>8, <4>2 DEF Ordered, Present
      <4> QED
        BY <1>0, <2>3, <2>4, <4>1, <4>2, <4>3 DEF Done
    <3>3. new[Job(t)] # "absent"
      BY <1>2, <1>3, <2>3, <2>4 DEF Failed
    <3> QED
      BY <2>1, <3>1, <3>2, <3>3
  <2>5. CASE Job(t) \notin B
    <3>1. raw[Job(t)] = st[Job(t)]
      BY <1>4, <2>3, <2>5
    <3>2. \/ new[Job(t)] = st[Job(t)]
          \/ st[Job(t)] \in Failed /\ new[Job(t)] = "done"
      BY <1>2, <2>3, <3>1
    <3> QED
      BY <1>8, <2>1, <3>2 DEF Ordered
  <2> QED
    BY <2>4, <2>5
<1>9. Tried(new) = Tried(st) \cup B
  BY <1>2, <1>3, <1>4 DEF Tried, Ready, Failed
<1> QED
  BY <1>2, <1>5, <1>6, <1>7, <1>8, <1>9, JobsAre DEF Outcomes

\* The formal plan takes over the statuses of tasks and none of a repair.
LEMMA FormalIs ==
  ASSUME NEW st \in Statuses
  PROVE  /\ OfTasks(st) \in Statuses
         /\ \A t \in Tasks : OfTasks(st)[Job(t)] = st[Job(t)]
         /\ \A r \in Repairs : OfTasks(st)[r] = "absent"
         /\ \A j \in Jobs : OfTasks(st)[j] = "done" => st[j] = "done"
         /\ NoneDone(st) => NoneDone(OfTasks(st))
         /\ Ordered(st) => Ordered(OfTasks(st))
<1>1. /\ OfTasks(st) \in Statuses
      /\ \A t \in Tasks : OfTasks(st)[Job(t)] = st[Job(t)]
      /\ \A r \in Repairs : OfTasks(st)[r] = "absent"
      /\ \A j \in Jobs : OfTasks(st)[j] = "done" => st[j] = "done"
  BY JobsAre DEF OfTasks, Statuses, Status
<1>2. Done(OfTasks(st)) = Done(st)
  BY <1>1 DEF Done
<1>3. NoneDone(st) => NoneDone(OfTasks(st))
  BY <1>1 DEF NoneDone
<1> QED
  BY <1>1, <1>2, <1>3 DEF Ordered

-----------------------------------------------------------------------------
(* The steps, with what they keep of the statuses.                         *)

Resumption(answer) ==
  /\ last.status # "none" /\ (answer # "none" => last.status = "paused")
  /\ Enter("resume", answer)
  /\ From(thread.source)
  /\ UNCHANGED <<plan, thread>>

BindRestart == cur.at = "bind" /\ Restarting /\ Take("restart", Formal(Blank), NoProgress)

BindRestore ==
  /\ cur.at = "bind" /\ ~Restarting /\ Source.by # 0 /\ Restorable(Source)
  /\ Take("restore", Source, Source)

BindDrift ==
  /\ cur.at = "bind" /\ ~Restarting /\ Source.by # 0
  /\ Take("drift", Formal(plan.st), NoProgress)

Entry == [by |-> 0, st |-> thread.st, repairs |-> thread.repairs,
          bind |-> IF thread.bind = Unbound THEN <<last.run, plan.ver>> ELSE thread.bind]

BindEntry ==
  /\ cur.at = "bind" /\ ~Restarting /\ Source.by = 0 /\ thread.bind[2] \in {0, plan.ver}
  /\ Take("entry", Entry, NoProgress)

BindFails ==
  /\ cur.at = "bind" /\ End("failed")
  /\ UNCHANGED <<plan, rec, thread, history, faults>>

EarlyReturn(st, repairs, status) ==
  /\ cur.at = "prepare"
  /\ st \in Statuses /\ SameDone(cur.st, st) /\ Ordered(st)
  /\ repairs \in RepairPlans /\ status \in {"failed", "paused"}
  /\ cur.answer # "none" \/ cur.repairs.decision = "confirm"
  /\ status = "paused" => cur.repairs.decision = "confirm"
  /\ ReturnEarly(st, repairs, status)
  /\ UNCHANGED <<plan, rec, history, faults>>

Preparation(st, repairs, write) ==
  /\ cur.at = "prepare"
  /\ st \in Statuses /\ SameDone(cur.st, st) /\ Ordered(st)
  /\ repairs \in RepairPlans
  /\ Prepared(st, repairs, write)

Finalization(repairs) ==
  /\ cur.at \in {"loop", "assess"} /\ repairs \in RepairPlans
  /\ Finalize(cur.st, repairs)

Recorded(out, st) ==
  /\ cur.at = "batch"
  /\ Outcomes(cur.batch, out, cur.st, st)
  /\ cur' = [cur EXCEPT !.at = "formal", !.st = st, !.batch = {}]
  /\ Write(Own(st, cur.repairs))
  /\ ran' = ran \cup {<<cur.bind[2], j[1]>> : j \in {i \in cur.batch : out[i] = "done"}}
  /\ UNCHANGED <<plan, thread, last, adopted, behind, faults>>

Onward(st, repairs) ==
  /\ cur.at = "assess"
  /\ st \in Statuses /\ SameDone(cur.st, st) /\ Ordered(st) /\ Tried(st) = Tried(cur.st)
  /\ repairs \in RepairPlans
  /\ cur' = [cur EXCEPT !.at = "loop", !.repairs = repairs, !.st = st]
  /\ UNCHANGED <<plan, rec, thread, last, history, faults>>

\* A resumption answers a paused run or starts anew.
LEMMA ResumeSteps ==
  ASSUME Resume
  PROVE  \E answer \in {"none", "yes", "no"} : Resumption(answer)
  BY DEF Resume, Resumption

\* Binding has five ways to go.
LEMMA BindSteps ==
  ASSUME Bind
  PROVE  BindRestart \/ BindRestore \/ BindDrift \/ BindEntry \/ BindFails
  BY DEF Bind, BindRestart, BindRestore, BindDrift, BindEntry, BindFails, Entry

\* The types of the invocation that the steps need.
LEMMA CurTyped ==
  ASSUME TypeOK
  PROVE  /\ cur.st \in Statuses /\ cur.repairs \in RepairPlans
         /\ cur.answer \in {"none", "yes", "no"}
         /\ cur.batch \in SUBSET Jobs /\ cur.retry \in BOOLEAN
  BY DEF TypeOK

\* Answered no, or not answered: the node returns what it bound.
LEMMA EarlySteps ==
  ASSUME TypeOK, Orders, Rejected \/ Unanswered
  PROVE  \E st \in Statuses, repairs \in RepairPlans, status \in {"failed", "paused"} :
           EarlyReturn(st, repairs, status)
<1>1. /\ Paused \in SUBSET Jobs
      /\ \A j \in Paused : cur.st[j] = "paused"
      /\ cur.st \in Statuses /\ Ordered(cur.st) /\ SameDone(cur.st, cur.st)
  BY CurTyped DEF Paused, Orders, SameDone
<1>2. /\ With(cur.st, Paused, "terminal") \in Statuses
      /\ SameDone(cur.st, With(cur.st, Paused, "terminal"))
      /\ Ordered(With(cur.st, Paused, "terminal"))
  BY <1>1, WithIs, WithOrdered DEF Status, Failed, Ready
<1>3. [cur.repairs EXCEPT !.decision = "terminal"] \in RepairPlans /\ cur.repairs \in RepairPlans
  BY CurTyped DEF RepairPlans
<1>4. CASE Rejected /\ Paused # {}
  BY <1>1, <1>2, <1>3, <1>4 DEF Rejected, EarlyReturn
<1>5. CASE Rejected /\ Paused = {}
  BY <1>1, <1>3, <1>5 DEF Rejected, EarlyReturn
<1>6. CASE Unanswered
  BY <1>1, <1>3, <1>6 DEF Unanswered, EarlyReturn
<1> QED
  BY <1>4, <1>5, <1>6

\* A preparation reopens jobs or appends repairs, and undoes nothing.
LEMMA PrepareSteps ==
  ASSUME TypeOK, Orders, Approved \/ Prepare
  PROVE  \/ \E st \in Statuses, repairs \in RepairPlans, status \in {"failed", "paused"} :
              EarlyReturn(st, repairs, status)
         \/ \E st \in Statuses, repairs \in RepairPlans, write \in BOOLEAN :
              Preparation(st, repairs, write)
<1>1. /\ cur.st \in Statuses /\ Ordered(cur.st) /\ SameDone(cur.st, cur.st)
      /\ cur.repairs \in RepairPlans
  BY CurTyped DEF Orders, SameDone
<1>2. CASE Approved
  <2> DEFINE repairs == [cur.repairs EXCEPT !.decision = "repair"]
             new == Append(cur.st, repairs, FALSE)
  <2>1. repairs \in RepairPlans
    BY <1>1 DEF RepairPlans
  <2>2. new \in Statuses /\ SameDone(cur.st, new) /\ Ordered(new)
    BY <1>1, <2>1, AppendIs
  <2>3. CASE Prepared(new, repairs, TRUE)
    <3> HIDE DEF new, repairs
    <3> QED
      BY <1>2, <2>1, <2>2, <2>3 DEF Approved, Preparation
  <2>4. CASE ReturnEarly(cur.st, [decision |-> "terminal", of |-> {}], "failed")
             /\ UNCHANGED <<plan, rec, history, faults>>
    <3>1. [decision |-> "terminal", of |-> {}] \in RepairPlans
      BY DEF RepairPlans
    <3> QED
      BY <1>1, <1>2, <2>4, <3>1 DEF Approved, EarlyReturn
  <2> QED
    BY <1>2, <2>3, <2>4 DEF Approved
<1>3. CASE Prepare
  <2> DEFINE reopened == With(cur.st, Retryable(cur.st), "pending")
             appended == Append(cur.st, cur.repairs, cur.retry)
  <2>1. reopened \in Statuses /\ SameDone(cur.st, reopened) /\ Ordered(reopened)
    <3>1. Retryable(cur.st) \in SUBSET Jobs /\ \A j \in Retryable(cur.st) : cur.st[j] = "retry"
      BY DEF Retryable
    <3> QED
      BY <1>1, <3>1, WithIs, WithOrdered DEF Status, Ready
  <2>2. appended \in Statuses /\ SameDone(cur.st, appended) /\ Ordered(appended)
    BY <1>1, CurTyped, AppendIs
  <2>3. /\ cur.at = "prepare" /\ cur.retry \in BOOLEAN
        /\ \/ Prepared(reopened, cur.repairs, TRUE)
           \/ Prepared(appended, cur.repairs, cur.retry)
           \/ Prepared(cur.st, cur.repairs, FALSE)
    BY <1>3, CurTyped DEF Prepare
  <2> HIDE DEF reopened, appended
  <2> QED
    BY <1>1, <2>1, <2>2, <2>3 DEF Preparation
<1> QED
  BY <1>2, <1>3

\* The results of a batch, as ResultsAre has them.
LEMMA ResultSteps ==
  ASSUME TypeOK, Orders, Results
  PROVE  \E out \in [cur.batch -> Failures \cup {"done"}], st \in Statuses : Recorded(out, st)
<1>1. PICK out \in [cur.batch -> Failures \cup {"done"}] :
        LET st == CloseRepaired([j \in Jobs |-> IF j \in cur.batch THEN out[j] ELSE cur.st[j]])
        IN /\ cur' = [cur EXCEPT !.at = "formal", !.st = st, !.batch = {}]
           /\ Write(Own(st, cur.repairs))
           /\ ran' = ran \cup {<<cur.bind[2], j[1]>> : j \in {i \in cur.batch : out[i] = "done"}}
  BY DEF Results
<1>2. cur.at = "batch" /\ UNCHANGED <<plan, thread, last, adopted, behind, faults>>
  BY DEF Results
<1>3. cur.batch \subseteq Eligible(cur.st) /\ cur.batch \in SUBSET Jobs /\ cur.st \in Statuses
  BY <1>2, CurTyped DEF Orders
<1>4. Outcomes(cur.batch, out, cur.st, After(cur.st, cur.batch, out))
  BY <1>3, ResultsAre
<1>5. After(cur.st, cur.batch, out) \in Statuses
  BY <1>4 DEF Outcomes
<1>6. Recorded(out, After(cur.st, cur.batch, out))
  BY <1>1, <1>2, <1>4 DEF Recorded, After
<1> QED
  BY <1>5, <1>6

\* The loop goes on, perhaps with repairs, or comes to its end.
LEMMA AssessSteps ==
  ASSUME TypeOK, Orders, Assess \/ LoopEnds
  PROVE  \/ \E repairs \in RepairPlans : Finalization(repairs)
         \/ \E st \in Statuses, repairs \in RepairPlans : Onward(st, repairs)
<1>1. /\ cur.st \in Statuses /\ Ordered(cur.st) /\ SameDone(cur.st, cur.st)
      /\ cur.repairs \in RepairPlans
  BY CurTyped DEF Orders, SameDone
<1>2. CASE LoopEnds
  BY <1>1, <1>2 DEF LoopEnds, Finalization
<1>3. CASE Assess /\ Finalize(cur.st, cur.repairs)
  BY <1>1, <1>3 DEF Assess, Finalization
<1>4. CASE Assess /\ \E j \in Jobs : cur.st[j] = "repair"
  <2>1. ASSUME NEW answer \in AnswersFor(ToRepair(cur.st))
        PROVE  RepairPlan(answer) \in RepairPlans
    BY DEF RepairPlan, RepairPlans, ToRepair
  <2>2. ASSUME NEW repairs \in RepairPlans, repairs.decision = "repair", cur.at = "assess",
               cur' = [cur EXCEPT !.at = "loop", !.repairs = repairs,
                                  !.st = Append(cur.st, repairs, FALSE)],
               UNCHANGED <<plan, rec, thread, last, history, faults>>
        PROVE  \E st \in Statuses : Onward(st, repairs)
    <3>1. /\ Append(cur.st, repairs, FALSE) \in Statuses
          /\ SameDone(cur.st, Append(cur.st, repairs, FALSE))
          /\ Ordered(Append(cur.st, repairs, FALSE))
          /\ Tried(Append(cur.st, repairs, FALSE)) = Tried(cur.st)
      BY <1>1, AppendIs
    <3> QED
      BY <2>2, <3>1 DEF Onward
  <2>3. CASE Finalize(cur.st, cur.repairs)
    BY <1>3, <1>4, <2>3
  <2>4. CASE \E answer \in AnswersFor(ToRepair(cur.st)) :
               LET repairs == RepairPlan(answer)
               IN IF repairs.decision = "repair"
                  THEN /\ cur' = [cur EXCEPT !.at = "loop", !.repairs = repairs,
                                             !.st = Append(cur.st, repairs, FALSE)]
                       /\ UNCHANGED <<plan, rec, thread, last, history, faults>>
                  ELSE Finalize(cur.st, repairs)
    <3>1. PICK repairs \in RepairPlans :
                 IF repairs.decision = "repair"
                 THEN /\ cur' = [cur EXCEPT !.at = "loop", !.repairs = repairs,
                                            !.st = Append(cur.st, repairs, FALSE)]
                      /\ UNCHANGED <<plan, rec, thread, last, history, faults>>
                 ELSE Finalize(cur.st, repairs)
      BY <2>1, <2>4
    <3>2. cur.at = "assess"
      BY <1>4 DEF Assess
    <3> QED
      BY <2>2, <3>1, <3>2 DEF Finalization
  <2> QED
    BY <1>4, <2>3, <2>4 DEF Assess
<1>5. CASE /\ Assess /\ Goto("loop")
           /\ UNCHANGED <<plan, rec, thread, last, history, faults>>
  <2>1. cur' = [cur EXCEPT !.at = "loop", !.repairs = cur.repairs, !.st = cur.st]
    BY <1>5 DEF Goto, TypeOK
  <2> QED
    BY <1>1, <1>5, <2>1 DEF Assess, Onward
<1> QED
  BY <1>2, <1>3, <1>4, <1>5 DEF Assess

-----------------------------------------------------------------------------
(* How many jobs there are.                                                *)

\* There are finitely many jobs, among them the tasks.
LEMMA JobsCount ==
  /\ IsFiniteSet(Jobs) /\ Cardinality(Tasks) \in Nat
  /\ \A S \in SUBSET Jobs : IsFiniteSet(S) /\ Cardinality(S) \in Nat
  /\ \A S \in SUBSET Jobs : \A T \in SUBSET S : Cardinality(T) <= Cardinality(S)
<1>1. IsFiniteSet(Tasks) /\ Cardinality(Tasks) \in Nat
  BY BuildAssumption, FS_CardinalityType
<1>2. IsFiniteSet(Jobs)
  <2> DEFINE of == [t \in Tasks |-> {t} \X (0..MaxRepairs[t])]
             all == {{t} \X (0..MaxRepairs[t]) : t \in Tasks}
  <2>1. of \in Surjection(Tasks, all)
    BY DEF Surjection
  <2>2. IsFiniteSet(all)
    <3> HIDE DEF of, all
    <3> QED
      BY <1>1, <2>1, FS_Surjection
  <2>3. ASSUME NEW t \in Tasks
        PROVE  IsFiniteSet({t} \X (0..MaxRepairs[t]))
    <3>1. MaxRepairs[t] \in Int
      BY BuildAssumption
    <3>2. IsFiniteSet(0..MaxRepairs[t])
      BY <3>1, FS_Interval
    <3>3. IsFiniteSet({t})
      BY FS_Singleton
    <3> QED
      BY <3>2, <3>3, FS_Product
  <2>4. \A T \in all : IsFiniteSet(T)
    BY <2>3
  <2>5. IsFiniteSet(UNION all)
    <3> HIDE DEF all
    <3> QED
      BY <2>2, <2>4, FS_UNION
  <2> QED
    BY <2>5 DEF Jobs
<1>3. \A S \in SUBSET Jobs : IsFiniteSet(S) /\ Cardinality(S) \in Nat
  BY <1>2, FS_Subset, FS_CardinalityType
<1>4. \A S \in SUBSET Jobs : \A T \in SUBSET S : Cardinality(T) <= Cardinality(S)
  BY <1>3, FS_Subset
<1> QED
  BY <1>1, <1>2, <1>3, <1>4

\* Where every task is listed, what is listed are the tasks and the repairs.
LEMMA PresentCount ==
  ASSUME NEW st \in Statuses, Ordered(st)
  PROVE  /\ Cardinality(Present(st)) \in Nat /\ Cardinality(Repairs \cap Present(st)) \in Nat
         /\ Cardinality(Present(st)) = Cardinality(Tasks) + Cardinality(Repairs \cap Present(st))
<1> DEFINE tasks == Tasks \X {0}
           repairs == Repairs \cap Present(st)
<1>1. /\ tasks \in SUBSET Jobs /\ repairs \in SUBSET Jobs /\ tasks \cap repairs = {}
      /\ Present(st) = tasks \cup repairs /\ Present(st) \in SUBSET Jobs
  BY JobsAre DEF Ordered, Present, Job
<1>2. Cardinality(tasks) = Cardinality(Tasks)
  <2>1. IsFiniteSet({0}) /\ Cardinality({0}) = 1
    BY FS_Singleton
  <2>2. Cardinality(tasks) = Cardinality(Tasks) * Cardinality({0})
    BY <2>1, FS_Product, BuildAssumption
  <2> QED
    BY <2>1, <2>2, JobsCount
<1>3. /\ Cardinality(Present(st)) \in Nat /\ Cardinality(repairs) \in Nat
      /\ IsFiniteSet(tasks) /\ IsFiniteSet(repairs)
  BY <1>1, JobsCount
<1>4. Cardinality(Present(st)) = Cardinality(tasks) + Cardinality(repairs) - Cardinality({})
  <2> HIDE DEF tasks, repairs
  <2>1. /\ Cardinality(tasks \cup repairs)
             = Cardinality(tasks) + Cardinality(repairs) - Cardinality(tasks \cap repairs)
    BY <1>3, FS_Union
  <2> QED
    BY <1>1, <2>1
<1> QED
  BY <1>2, <1>3, <1>4, FS_EmptySet, JobsCount

\* The iterations allowed at the start are two for each job listed, and so at
\* least two for each task.
LEMMA BudgetIs ==
  ASSUME NEW st \in Statuses
  PROVE  /\ Budget(st) \in Nat /\ Budget(st) <= 2 * Cardinality(Jobs)
         /\ Ordered(st) => 2 * Cardinality(Tasks) <= Budget(st)
<1>1. Present(st) \in SUBSET Jobs /\ Jobs \in SUBSET Jobs
  BY DEF Present
<1>2. /\ Cardinality(Present(st)) \in Nat /\ Cardinality(Present(st)) <= Cardinality(Jobs)
      /\ Cardinality(Tasks) \in Nat /\ Cardinality(Jobs) \in Nat
  BY <1>1, JobsCount
<1>3. ASSUME Ordered(st)
      PROVE  Cardinality(Tasks) <= Cardinality(Present(st))
  <2>1. /\ Cardinality(Repairs \cap Present(st)) \in Nat
        /\ Cardinality(Present(st)) = Cardinality(Tasks) + Cardinality(Repairs \cap Present(st))
    BY <1>3, PresentCount
  <2> QED
    BY <1>2, <2>1
<1> QED
  BY <1>2, <1>3 DEF Budget

\* Every step is one of these.
LEMMA Steps ==
  ASSUME IInv, [Next]_vars
  PROVE  \/ Replan \/ Start \/ Retry
         \/ \E answer \in {"none", "yes", "no"} : Resumption(answer)
         \/ BindRestart \/ BindRestore \/ BindDrift \/ BindEntry \/ BindFails
         \/ \E st \in Statuses, repairs \in RepairPlans, status \in {"failed", "paused"} :
              EarlyReturn(st, repairs, status)
         \/ \E st \in Statuses, repairs \in RepairPlans, write \in BOOLEAN :
              Preparation(st, repairs, write)
         \/ \E repairs \in RepairPlans : Finalization(repairs)
         \/ Drift \/ Dispatch \/ Ask
         \/ \E out \in [cur.batch -> Failures \cup {"done"}], st \in Statuses : Recorded(out, st)
         \/ WriteFormal
         \/ \E st \in Statuses, repairs \in RepairPlans : Onward(st, repairs)
         \/ Returns \/ Die \/ UNCHANGED vars
<1>1. TypeOK /\ Orders
  BY DEF IInv
<1>2. ASSUME Step
      PROVE  \/ Bind \/ Rejected \/ Unanswered \/ Approved \/ Prepare \/ LoopEnds \/ Drift
             \/ Dispatch \/ Ask \/ Results \/ WriteFormal \/ Assess \/ Returns
  BY <1>2 DEF Step
<1>3. Replan \/ Start \/ Retry \/ Resume \/ Step \/ Die \/ UNCHANGED vars
  BY DEF Next
<1> QED
  BY <1>1, <1>2, <1>3, ResumeSteps, BindSteps, EarlySteps, PrepareSteps, ResultSteps, AssessSteps

-----------------------------------------------------------------------------
(* The types.                                                              *)

PlanOK == plan \in [ver : Versions \cup {0}, st : Statuses]
RecOK == rec \in [RunIds -> [bind : Bindings, progress : Progress]]
ThreadOK ==
  thread \in [st : Statuses, repairs : RepairPlans, bind : Bindings, source : RunIds \cup {0}]
Lefts == 0..(2 * Cardinality(Jobs))
Invocations ==
  [at : {"idle", "bind", "prepare", "loop", "batch", "formal", "assess", "return"},
   kind : {"none", "start", "retry", "resume"}, answer : {"none", "yes", "no"},
   st : Statuses, repairs : RepairPlans, bind : Bindings,
   source : RunIds \cup {0}, retry : BOOLEAN, batch : SUBSET Jobs,
   left : Lefts, verdict : {"none", "completed", "failed", "paused"}]
CurOK == cur \in Invocations
LastOK ==
  last \in [run : 0..MaxRuns,
           status : {"none", "running", "completed", "failed", "paused", "interrupted"}]
HistoryOK ==
  /\ ran \subseteq (Versions \X Tasks)
  /\ adopted \subseteq Versions /\ behind \in BOOLEAN
FaultsOK == faults \in 0..MaxFaults

\* The type invariant, variable by variable.
LEMMA TypeParts ==
  TypeOK <=> PlanOK /\ RecOK /\ ThreadOK /\ CurOK /\ LastOK /\ HistoryOK /\ FaultsOK
BY DEF TypeOK, PlanOK, RecOK, ThreadOK, CurOK, Invocations, LastOK, HistoryOK, FaultsOK, Lefts

\* The invariant gives the types, and a run under way has a number and a plan.
LEMMA TypeFacts ==
  ASSUME IInv
  PROVE  /\ PlanOK /\ RecOK /\ ThreadOK /\ CurOK /\ LastOK /\ HistoryOK /\ FaultsOK
         /\ NoProgress \in Progress /\ Blank \in Statuses /\ NoRepairPlan \in RepairPlans
         /\ Unbound \in Bindings
         /\ cur.at # "idle" => /\ last.run \in RunIds /\ plan.ver \in Versions
                              /\ <<last.run, plan.ver>> \in Bindings
                              /\ <<last.run, plan.ver>>[2] = plan.ver
<1>1. /\ PlanOK /\ RecOK /\ ThreadOK /\ CurOK /\ LastOK /\ HistoryOK /\ FaultsOK
  BY TypeParts DEF IInv
<1>2. NoRepairPlan \in RepairPlans /\ Unbound \in Bindings
  BY DEF NoRepairPlan, RepairPlans, Unbound, Bindings
<1>3. NoProgress \in Progress
  BY <1>2, BlankIs DEF NoProgress, Progress
<1>4. cur.at # "idle" => last.run # 0 /\ plan.ver # 0
  BY DEF IInv, Binds
<1>5. cur.at # "idle" => last.run \in RunIds /\ plan.ver \in Versions
  BY <1>1, <1>4, BuildAssumption DEF LastOK, PlanOK, RunIds
<1> QED
  BY <1>1, <1>2, <1>3, <1>5, BlankIs DEF Bindings

\* No invocation is under way.
LEMMA NothingIs ==
  /\ Nothing \in Invocations /\ Nothing.at = "idle" /\ Nothing.st = Blank
      /\ Nothing.source = 0
  /\ Nothing.batch = {} /\ Nothing.answer = "none" /\ 0 \in Lefts
<1>1. 0 \in Lefts
  BY JobsCount DEF Lefts
<1> QED
  BY <1>1, BlankIs DEF Nothing, Invocations, NoRepairPlan, RepairPlans, Unbound, Bindings

\* Iterations are counted within their type.
LEMMA BudgetFits ==
  /\ \A st \in Statuses : Budget(st) \in Lefts
  /\ \A n \in Lefts : n \in Nat /\ (n > 0 => n - 1 \in Lefts)
<1>1. Cardinality(Jobs) \in Nat
  BY JobsCount
<1>2. 2 * Cardinality(Jobs) \in Nat
  BY <1>1
<1> QED
  BY <1>2, BudgetIs DEF Lefts

\* The progress that is looked up is one.
LEMMA SourceTyped ==
  ASSUME IInv
  PROVE  Source \in Progress
BY TypeFacts DEF Source, RecOK, ThreadOK

\* The formal plan.
LEMMA PlanStep ==
  ASSUME IInv, [Next]_vars
  PROVE  PlanOK'
<1>0. PlanOK /\ CurOK /\ Blank \in Statuses /\ MaxVersions \in Nat
  BY TypeFacts, BuildAssumption
<1>1. ASSUME Replan \/ Start \/ Retry
      PROVE  PlanOK'
  BY <1>0, <1>1 DEF Replan, Confirm, Versions, Start, Enter, From, Retry, history,
     PlanOK, CurOK, Invocations
<1>2. ASSUME NEW answer \in {"none", "yes", "no"}, Resumption(answer)
      PROVE  PlanOK'
  BY <1>0, <1>2 DEF Resumption, Enter, From, history, PlanOK, CurOK, Invocations
<1>3. ASSUME BindRestart \/ BindRestore \/ BindDrift \/ BindEntry \/ BindFails
      PROVE  PlanOK'
  BY <1>0, <1>3 DEF BindRestart, Restarting, Take, Formal, BindRestore, Restorable,
     Source, BindDrift, BindEntry, Entry, BindFails, End, history, PlanOK, CurOK,
     Invocations
<1>4. ASSUME NEW st \in Statuses, NEW repairs \in RepairPlans, NEW status \in {"failed",
            "paused"}, EarlyReturn(st, repairs, status)
      PROVE  PlanOK'
  BY <1>0, <1>4 DEF EarlyReturn, ReturnEarly, End, history, PlanOK, CurOK, Invocations
<1>5. ASSUME NEW st \in Statuses, NEW repairs \in RepairPlans, NEW write \in BOOLEAN,
            Preparation(st, repairs, write)
      PROVE  PlanOK'
  BY <1>0, <1>5 DEF Preparation, Prepared, Write, Own, history, PlanOK, CurOK,
     Invocations
<1>6. ASSUME NEW repairs \in RepairPlans, Finalization(repairs)
      PROVE  PlanOK'
  BY <1>0, <1>6 DEF Finalization, Finalize, Verdict, Write, Own, history, PlanOK, CurOK,
     Invocations
<1>7. ASSUME Drift \/ Dispatch \/ Ask \/ Returns \/ Die \/ UNCHANGED vars
      PROVE  PlanOK'
  BY <1>0, <1>7 DEF Drift, Return, End, Dispatch, Ask, Returns, Die, vars, history, PlanOK
<1>10. ASSUME WriteFormal
      PROVE  PlanOK'
  <2>1. OfTasks(cur.st) \in Statuses
    BY <1>0, FormalIs DEF CurOK, Invocations
  <2> QED
    BY <1>0, <1>10, <2>1 DEF WriteFormal, Goto, End, PlanOK
<1>8. ASSUME NEW out \in [cur.batch -> Failures \cup {"done"}], NEW st \in Statuses,
            Recorded(out, st)
      PROVE  PlanOK'
  BY <1>0, <1>8 DEF Recorded, Outcomes, Write, Own, history, PlanOK, CurOK, Invocations
<1>9. ASSUME NEW st \in Statuses, NEW repairs \in RepairPlans, Onward(st, repairs)
      PROVE  PlanOK'
  BY <1>0, <1>9 DEF Onward, history, PlanOK, CurOK, Invocations
<1> QED
  BY <1>1, <1>2, <1>3, <1>4, <1>5, <1>6, <1>7, <1>8, <1>9, <1>10, Steps

\* The records.
LEMMA RecStep ==
  ASSUME IInv, [Next]_vars
  PROVE  RecOK'
<1>0. /\ RecOK /\ CurOK /\ ThreadOK /\ LastOK /\ PlanOK
      /\ NoProgress \in Progress /\ Blank \in Statuses
      /\ Unbound \in Bindings /\ NoRepairPlan \in RepairPlans
      /\ cur.at # "idle" => /\ last.run \in RunIds /\ plan.ver \in Versions
                            /\ <<last.run, plan.ver>> \in Bindings
  BY TypeFacts, BuildAssumption
<1>1. ASSUME Replan \/ Start \/ Retry
      PROVE  RecOK'
  BY <1>0, <1>1 DEF Replan, Confirm, Start, Enter, From, Retry, history, RecOK, CurOK,
     Invocations, LastOK
<1>2. ASSUME NEW answer \in {"none", "yes", "no"}, Resumption(answer)
      PROVE  RecOK'
  BY <1>0, <1>2 DEF Resumption, Enter, From, history, RecOK, CurOK, Invocations, LastOK
<1>3. ASSUME BindRestart
      PROVE  RecOK'
  BY <1>0, <1>3 DEF BindRestart, Restarting, Take, Formal, history, RecOK, CurOK,
     Invocations, LastOK
<1>4. ASSUME BindRestore
      PROVE  RecOK'
  BY <1>0, <1>4, SourceTyped DEF BindRestore, Restarting, Restorable, Take, Source,
     history, Progress, RecOK, CurOK, Invocations, LastOK
<1>5. ASSUME BindDrift
      PROVE  RecOK'
  BY <1>0, <1>5 DEF BindDrift, Take, Formal, history, RecOK, CurOK, Invocations, LastOK
<1>6. ASSUME BindEntry
      PROVE  RecOK'
  BY <1>0, <1>6 DEF BindEntry, Take, Entry, history, ThreadOK, RecOK, CurOK,
     Invocations, LastOK
<1>7. ASSUME BindFails
      PROVE  RecOK'
  BY <1>0, <1>7 DEF BindFails, End, history, RecOK, CurOK, Invocations, LastOK
<1>8. ASSUME NEW st \in Statuses, NEW repairs \in RepairPlans, NEW status \in {"failed",
            "paused"}, EarlyReturn(st, repairs, status)
      PROVE  RecOK'
  BY <1>0, <1>8 DEF EarlyReturn, ReturnEarly, End, history, RecOK, CurOK, Invocations,
     LastOK
<1>9. ASSUME NEW st \in Statuses, NEW repairs \in RepairPlans, NEW write \in BOOLEAN,
            Preparation(st, repairs, write)
      PROVE  RecOK'
  BY <1>0, <1>9 DEF Preparation, Prepared, Write, Own, history, Progress, RecOK, CurOK,
     Invocations, LastOK
<1>10. ASSUME NEW repairs \in RepairPlans, Finalization(repairs)
      PROVE  RecOK'
  BY <1>0, <1>10 DEF Finalization, Finalize, Verdict, Write, Own, history, Progress,
     RecOK, CurOK, Invocations, LastOK
<1>11. ASSUME Drift \/ Dispatch \/ Ask \/ WriteFormal \/ Returns \/ Die \/ UNCHANGED vars
      PROVE  RecOK'
  BY <1>0, <1>11 DEF Drift, Return, End, Dispatch, Ask, WriteFormal, Goto, Returns, Die,
     vars, history, RecOK, CurOK, Invocations, LastOK
<1>12. ASSUME NEW out \in [cur.batch -> Failures \cup {"done"}], NEW st \in Statuses,
            Recorded(out, st)
      PROVE  RecOK'
  BY <1>0, <1>12 DEF Recorded, Outcomes, Write, Own, history, Progress, RecOK, CurOK,
     Invocations, LastOK
<1>13. ASSUME NEW st \in Statuses, NEW repairs \in RepairPlans, Onward(st, repairs)
      PROVE  RecOK'
  BY <1>0, <1>13 DEF Onward, history, RecOK, CurOK, Invocations, LastOK
<1> QED
  BY <1>1, <1>2, <1>3, <1>4, <1>5, <1>6, <1>7, <1>8, <1>9, <1>10, <1>11, <1>12, <1>13,
     Steps

\* The thread.
LEMMA ThreadStep ==
  ASSUME IInv, [Next]_vars
  PROVE  ThreadOK'
<1>0. ThreadOK /\ CurOK /\ LastOK /\ Blank \in Statuses /\ Unbound \in Bindings /\ MaxRuns \in Nat
  BY TypeFacts, BuildAssumption
<1>1. ASSUME Replan \/ Start
      PROVE  ThreadOK'
  BY <1>0, <1>1 DEF Replan, Confirm, Start, Enter, From, history, ThreadOK, CurOK,
     Invocations
<1>2. ASSUME Retry
      PROVE  ThreadOK'
  BY <1>0, <1>2 DEF Retry, Enter, From, history, LastOK, RunIds, ThreadOK, CurOK,
     Invocations
<1>3. ASSUME NEW answer \in {"none", "yes", "no"}, Resumption(answer)
      PROVE  ThreadOK'
  BY <1>0, <1>3 DEF Resumption, Enter, From, history, ThreadOK, CurOK, Invocations
<1>4. ASSUME BindRestart \/ BindRestore \/ BindDrift \/ BindEntry \/ BindFails
      PROVE  ThreadOK'
  BY <1>0, <1>4 DEF BindRestart, Restarting, Take, Formal, BindRestore, Restorable,
     Source, BindDrift, BindEntry, Entry, BindFails, End, history, ThreadOK, CurOK,
     Invocations
<1>5. ASSUME NEW st \in Statuses, NEW repairs \in RepairPlans, NEW status \in {"failed",
            "paused"}, EarlyReturn(st, repairs, status)
      PROVE  ThreadOK'
  BY <1>0, <1>5 DEF EarlyReturn, ReturnEarly, End, history, ThreadOK, CurOK, Invocations
<1>6. ASSUME NEW st \in Statuses, NEW repairs \in RepairPlans, NEW write \in BOOLEAN,
            Preparation(st, repairs, write)
      PROVE  ThreadOK'
  BY <1>0, <1>6 DEF Preparation, Prepared, Write, Own, history, ThreadOK, CurOK,
     Invocations
<1>7. ASSUME NEW repairs \in RepairPlans, Finalization(repairs)
      PROVE  ThreadOK'
  BY <1>0, <1>7 DEF Finalization, Finalize, Verdict, Write, Own, history, ThreadOK,
     CurOK, Invocations
<1>8. ASSUME Drift \/ Dispatch \/ WriteFormal \/ Returns \/ Die \/ UNCHANGED vars
      PROVE  ThreadOK'
  BY <1>0, <1>8 DEF Drift, Return, End, Dispatch, WriteFormal, Goto, Returns, Die, vars,
     history, ThreadOK, CurOK, Invocations
<1>9. ASSUME Ask
      PROVE  ThreadOK'
  BY <1>0, <1>9 DEF Ask, End, history, With, Statuses, Status, Ready, ThreadOK, CurOK,
     Invocations
<1>10. ASSUME NEW out \in [cur.batch -> Failures \cup {"done"}], NEW st \in Statuses,
            Recorded(out, st)
      PROVE  ThreadOK'
  BY <1>0, <1>10 DEF Recorded, Outcomes, Write, Own, history, ThreadOK, CurOK,
     Invocations
<1>11. ASSUME NEW st \in Statuses, NEW repairs \in RepairPlans, Onward(st, repairs)
      PROVE  ThreadOK'
  BY <1>0, <1>11 DEF Onward, history, ThreadOK, CurOK, Invocations
<1> QED
  BY <1>1, <1>2, <1>3, <1>4, <1>5, <1>6, <1>7, <1>8, <1>9, <1>10, <1>11, Steps

\* The invocation.
LEMMA CurStep ==
  ASSUME IInv, [Next]_vars
  PROVE  CurOK'
<1>0. /\ CurOK /\ PlanOK /\ ThreadOK /\ Blank \in Statuses /\ NoRepairPlan \in RepairPlans
      /\ Unbound \in Bindings /\ Nothing \in Invocations
      /\ cur.at # "idle" => /\ last.run \in RunIds /\ plan.ver \in Versions
                            /\ <<last.run, plan.ver>> \in Bindings
  BY TypeFacts, NothingIs
<1>1. ASSUME Replan
      PROVE  CurOK'
  BY <1>0, <1>1 DEF Replan, Confirm, history, CurOK, Invocations
<1>2. ASSUME Start
      PROVE  CurOK'
  BY <1>0, <1>2 DEF Start, Confirm, Enter, From, history, CurOK, Invocations
<1>3. ASSUME Retry
      PROVE  CurOK'
  BY <1>0, <1>3 DEF Retry, Enter, From, history, CurOK, Invocations
<1>4. ASSUME NEW answer \in {"none", "yes", "no"}, Resumption(answer)
      PROVE  CurOK'
  BY <1>0, <1>4 DEF Resumption, Enter, From, history, CurOK, Invocations
<1>5. ASSUME BindRestart
      PROVE  CurOK'
  BY <1>0, <1>5 DEF BindRestart, Restarting, Take, Formal, history, CurOK, Invocations
<1>6. ASSUME BindRestore
      PROVE  CurOK'
  BY <1>0, <1>6, SourceTyped DEF BindRestore, Restarting, Restorable, Take, Source,
     history, Progress, CurOK, Invocations
<1>7. ASSUME BindDrift
      PROVE  CurOK'
  BY <1>0, <1>7 DEF BindDrift, Take, Formal, history, PlanOK, CurOK, Invocations
<1>8. ASSUME BindEntry
      PROVE  CurOK'
  BY <1>0, <1>8 DEF BindEntry, Take, Entry, history, ThreadOK, CurOK, Invocations
<1>9. ASSUME BindFails
      PROVE  CurOK'
  BY <1>0, <1>9 DEF BindFails, End, history, CurOK, Invocations
<1>10. ASSUME NEW st \in Statuses, NEW repairs \in RepairPlans, NEW status \in {"failed",
            "paused"}, EarlyReturn(st, repairs, status)
      PROVE  CurOK'
  BY <1>0, <1>10 DEF EarlyReturn, ReturnEarly, End, history, CurOK, Invocations
<1>11. ASSUME NEW st \in Statuses, NEW repairs \in RepairPlans, NEW write \in BOOLEAN,
            Preparation(st, repairs, write)
      PROVE  CurOK'
  BY <1>0, <1>11, BudgetFits DEF Preparation, Prepared, Write, Own, history, CurOK,
     Invocations
<1>12. ASSUME NEW repairs \in RepairPlans, Finalization(repairs)
      PROVE  CurOK'
  BY <1>0, <1>12 DEF Finalization, Finalize, Verdict, Write, Own, history, CurOK,
     Invocations
<1>13. ASSUME Drift
      PROVE  CurOK'
  BY <1>0, <1>13 DEF Drift, Return, End, history, CurOK, Invocations
<1>14. ASSUME Dispatch
      PROVE  CurOK'
  <2>1. PICK B \in SUBSET Eligible(cur.st) :
          cur' = [cur EXCEPT !.at = "batch", !.batch = B, !.left = cur.left - 1]
    BY <1>14 DEF Dispatch
  <2>2. B \in SUBSET Jobs
    BY <2>1 DEF Eligible, DatabaseFirst, Candidates
  <2>3. cur.left - 1 \in Lefts
    BY <1>0, <1>14, BudgetFits DEF Dispatch, CurOK, Invocations
  <2> QED
    BY <1>0, <2>1, <2>2, <2>3 DEF CurOK, Invocations
<1>15. ASSUME Ask
      PROVE  CurOK'
  BY <1>0, <1>15 DEF Ask, End, history, CurOK, Invocations
<1>16. ASSUME NEW out \in [cur.batch -> Failures \cup {"done"}], NEW st \in Statuses,
            Recorded(out, st)
      PROVE  CurOK'
  BY <1>0, <1>16 DEF Recorded, Outcomes, Write, Own, history, CurOK, Invocations
<1>17. ASSUME WriteFormal
      PROVE  CurOK'
  BY <1>0, <1>17 DEF WriteFormal, Goto, End, history, CurOK, Invocations
<1>18. ASSUME NEW st \in Statuses, NEW repairs \in RepairPlans, Onward(st, repairs)
      PROVE  CurOK'
  BY <1>0, <1>18 DEF Onward, history, CurOK, Invocations
<1>19. ASSUME Returns
      PROVE  CurOK'
  BY <1>0, <1>19 DEF Returns, Return, End, history, CurOK, Invocations
<1>20. ASSUME Die
      PROVE  CurOK'
  BY <1>0, <1>20 DEF Die, End, history, CurOK, Invocations
<1>21. ASSUME UNCHANGED vars
      PROVE  CurOK'
  BY <1>0, <1>21 DEF vars, history, CurOK, Invocations
<1> QED
  BY <1>1, <1>2, <1>3, <1>4, <1>5, <1>6, <1>7, <1>8, <1>9, <1>10, <1>11, <1>12, <1>13,
     <1>14, <1>15, <1>16, <1>17, <1>18, <1>19, <1>20, <1>21, Steps

\* The last run.
LEMMA LastStep ==
  ASSUME IInv, [Next]_vars
  PROVE  LastOK'
<1>0. LastOK /\ CurOK /\ MaxRuns \in Nat
  BY TypeFacts, BuildAssumption
<1>1. ASSUME Replan \/ Start \/ Retry
      PROVE  LastOK'
  BY <1>0, <1>1 DEF Replan, Confirm, Start, Enter, From, Retry, history, LastOK, CurOK,
     Invocations
<1>2. ASSUME NEW answer \in {"none", "yes", "no"}, Resumption(answer)
      PROVE  LastOK'
  BY <1>0, <1>2 DEF Resumption, Enter, From, history, LastOK, CurOK, Invocations
<1>3. ASSUME BindRestart \/ BindRestore \/ BindDrift \/ BindEntry \/ BindFails
      PROVE  LastOK'
  BY <1>0, <1>3 DEF BindRestart, Restarting, Take, Formal, BindRestore, Restorable,
     Source, BindDrift, BindEntry, Entry, BindFails, End, history, LastOK, CurOK,
     Invocations
<1>4. ASSUME NEW st \in Statuses, NEW repairs \in RepairPlans, NEW status \in {"failed",
            "paused"}, EarlyReturn(st, repairs, status)
      PROVE  LastOK'
  BY <1>0, <1>4 DEF EarlyReturn, ReturnEarly, End, history, LastOK, CurOK, Invocations
<1>5. ASSUME NEW st \in Statuses, NEW repairs \in RepairPlans, NEW write \in BOOLEAN,
            Preparation(st, repairs, write)
      PROVE  LastOK'
  BY <1>0, <1>5 DEF Preparation, Prepared, Write, Own, history, LastOK, CurOK,
     Invocations
<1>6. ASSUME NEW repairs \in RepairPlans, Finalization(repairs)
      PROVE  LastOK'
  BY <1>0, <1>6 DEF Finalization, Finalize, Verdict, Write, Own, history, LastOK, CurOK,
     Invocations
<1>7. ASSUME Drift \/ Dispatch \/ Ask \/ WriteFormal \/ Returns \/ Die \/ UNCHANGED vars
      PROVE  LastOK'
  BY <1>0, <1>7 DEF Drift, Return, End, Dispatch, Ask, WriteFormal, Goto, Returns, Die,
     vars, history, LastOK, CurOK, Invocations
<1>8. ASSUME NEW out \in [cur.batch -> Failures \cup {"done"}], NEW st \in Statuses,
            Recorded(out, st)
      PROVE  LastOK'
  BY <1>0, <1>8 DEF Recorded, Outcomes, Write, Own, history, LastOK, CurOK, Invocations
<1>9. ASSUME NEW st \in Statuses, NEW repairs \in RepairPlans, Onward(st, repairs)
      PROVE  LastOK'
  BY <1>0, <1>9 DEF Onward, history, LastOK, CurOK, Invocations
<1> QED
  BY <1>1, <1>2, <1>3, <1>4, <1>5, <1>6, <1>7, <1>8, <1>9, Steps

\* The history: a job runs under the version bound.
LEMMA HistoryStep ==
  ASSUME IInv, [Next]_vars
  PROVE  HistoryOK'
<1>0. /\ HistoryOK /\ CurOK /\ PlanOK
      /\ cur.at # "idle" => plan.ver \in Versions
  BY TypeFacts, BuildAssumption
<1>1. ASSUME Replan \/ Start \/ Retry
      PROVE  HistoryOK'
  BY <1>0, <1>1 DEF Replan, Confirm, Start, Enter, From, Retry, history, HistoryOK,
     CurOK, Invocations
<1>2. ASSUME NEW answer \in {"none", "yes", "no"}, Resumption(answer)
      PROVE  HistoryOK'
  BY <1>0, <1>2 DEF Resumption, Enter, From, history, HistoryOK, CurOK, Invocations
<1>3. ASSUME BindRestart \/ BindRestore \/ BindDrift \/ BindEntry \/ BindFails
      PROVE  HistoryOK'
  BY <1>0, <1>3 DEF BindRestart, Restarting, Take, Formal, BindRestore, Restorable,
     Source, BindDrift, BindEntry, Entry, BindFails, End, history, HistoryOK, CurOK,
     Invocations
<1>4. ASSUME NEW st \in Statuses, NEW repairs \in RepairPlans, NEW status \in {"failed",
            "paused"}, EarlyReturn(st, repairs, status)
      PROVE  HistoryOK'
  BY <1>0, <1>4 DEF EarlyReturn, ReturnEarly, End, history, HistoryOK, CurOK,
     Invocations
<1>5. ASSUME NEW st \in Statuses, NEW repairs \in RepairPlans, NEW write \in BOOLEAN,
            Preparation(st, repairs, write)
      PROVE  HistoryOK'
  BY <1>0, <1>5 DEF Preparation, Prepared, Write, Own, history, HistoryOK, CurOK,
     Invocations
<1>6. ASSUME NEW repairs \in RepairPlans, Finalization(repairs)
      PROVE  HistoryOK'
  BY <1>0, <1>6 DEF Finalization, Finalize, Verdict, Write, Own, history, HistoryOK,
     CurOK, Invocations
<1>7. ASSUME Drift \/ Dispatch \/ Ask \/ Returns \/ Die \/ UNCHANGED vars
      PROVE  HistoryOK'
  BY <1>0, <1>7 DEF Drift, Return, End, Dispatch, Ask, Returns, Die, vars, history,
     HistoryOK, CurOK, Invocations
<1>8. ASSUME NEW out \in [cur.batch -> Failures \cup {"done"}], NEW st \in Statuses,
            Recorded(out, st)
      PROVE  HistoryOK'
  BY <1>0, <1>8, JobsAre DEF Recorded, Outcomes, Write, Own, history, IInv, Binds, Bindings,
     HistoryOK, CurOK, Invocations
<1>9. ASSUME WriteFormal
      PROVE  HistoryOK'
  BY <1>0, <1>9 DEF WriteFormal, Goto, End, history, HistoryOK, CurOK, Invocations
<1>10. ASSUME NEW st \in Statuses, NEW repairs \in RepairPlans, Onward(st, repairs)
      PROVE  HistoryOK'
  BY <1>0, <1>10 DEF Onward, history, HistoryOK, CurOK, Invocations
<1> QED
  BY <1>1, <1>2, <1>3, <1>4, <1>5, <1>6, <1>7, <1>8, <1>9, <1>10, Steps

\* The faults are bounded.
LEMMA FaultsStep ==
  ASSUME IInv, [Next]_vars
  PROVE  FaultsOK'
<1>0. FaultsOK /\ MaxFaults \in Nat
  BY TypeFacts, BuildAssumption
<1>1. ASSUME Replan \/ Start \/ Retry
      PROVE  FaultsOK'
  BY <1>0, <1>1 DEF Replan, Confirm, Start, Enter, From, Retry, history, FaultsOK
<1>2. ASSUME NEW answer \in {"none", "yes", "no"}, Resumption(answer)
      PROVE  FaultsOK'
  BY <1>0, <1>2 DEF Resumption, Enter, From, history, FaultsOK
<1>3. ASSUME BindRestart \/ BindRestore \/ BindDrift \/ BindEntry \/ BindFails
      PROVE  FaultsOK'
  BY <1>0, <1>3 DEF BindRestart, Restarting, Take, Formal, BindRestore, Restorable,
     Source, BindDrift, BindEntry, Entry, BindFails, End, history, FaultsOK
<1>4. ASSUME NEW st \in Statuses, NEW repairs \in RepairPlans, NEW status \in {"failed",
            "paused"}, EarlyReturn(st, repairs, status)
      PROVE  FaultsOK'
  BY <1>0, <1>4 DEF EarlyReturn, ReturnEarly, End, history, FaultsOK
<1>5. ASSUME NEW st \in Statuses, NEW repairs \in RepairPlans, NEW write \in BOOLEAN,
            Preparation(st, repairs, write)
      PROVE  FaultsOK'
  BY <1>0, <1>5 DEF Preparation, Prepared, Write, Own, history, FaultsOK
<1>6. ASSUME NEW repairs \in RepairPlans, Finalization(repairs)
      PROVE  FaultsOK'
  BY <1>0, <1>6 DEF Finalization, Finalize, Verdict, Write, Own, history, FaultsOK
<1>7. ASSUME Drift \/ Dispatch \/ Ask \/ WriteFormal \/ Returns \/ UNCHANGED vars
      PROVE  FaultsOK'
  BY <1>0, <1>7 DEF Drift, Return, End, Dispatch, Ask, WriteFormal, Goto, Returns, vars,
     history, FaultsOK
<1>8. ASSUME NEW out \in [cur.batch -> Failures \cup {"done"}], NEW st \in Statuses,
            Recorded(out, st)
      PROVE  FaultsOK'
  BY <1>0, <1>8 DEF Recorded, Outcomes, Write, Own, history, FaultsOK
<1>9. ASSUME NEW st \in Statuses, NEW repairs \in RepairPlans, Onward(st, repairs)
      PROVE  FaultsOK'
  BY <1>0, <1>9 DEF Onward, history, FaultsOK
<1>10. ASSUME Die
      PROVE  FaultsOK'
  BY <1>0, <1>10 DEF Die, End, history, FaultsOK
<1> QED
  BY <1>1, <1>2, <1>3, <1>4, <1>5, <1>6, <1>7, <1>8, <1>9, <1>10, Steps

\* The types are kept.
LEMMA TypeStep ==
  ASSUME IInv, [Next]_vars
  PROVE  TypeOK'
<1>1. (PlanOK /\ RecOK /\ ThreadOK /\ CurOK /\ LastOK /\ HistoryOK /\ FaultsOK)'
  BY PlanStep, RecStep, ThreadStep, CurStep, LastStep, HistoryStep, FaultsStep
<1> QED
  BY <1>1 DEF TypeOK, PlanOK, RecOK, ThreadOK, CurOK, Invocations, LastOK,
     HistoryOK, FaultsOK, Lefts

-----------------------------------------------------------------------------
(* The parts of the invariant.                                             *)

\* Tasks are dispatched when what they depend on is done, and nothing that is
\* done is undone.
LEMMA OrdersStep ==
  ASSUME IInv, [Next]_vars
  PROVE  Orders'
<1>0. /\ PlanOK /\ RecOK /\ ThreadOK /\ CurOK /\ LastOK /\ Orders /\ Binds
      /\ Nothing \in Invocations /\ Nothing.at = "idle" /\ Nothing.st = Blank
      /\ Nothing.batch = {}
      /\ Ordered(Blank) /\ NoProgress.st = Blank
      /\ cur.at # "idle" => last.run \in RunIds
  BY TypeFacts, NothingIs, BlankIs DEF IInv, NoProgress
<1>1. ASSUME Replan
      PROVE  Orders'
  BY <1>0, <1>1 DEF Replan, Confirm, history, PlanOK, RecOK, ThreadOK, CurOK,
     Invocations, LastOK, Orders
<1>2. ASSUME Start
      PROVE  Orders'
  BY <1>0, <1>2 DEF Start, Confirm, Enter, From, history, PlanOK, RecOK, ThreadOK,
     CurOK, Invocations, LastOK, Orders
<1>3. ASSUME Retry
      PROVE  Orders'
  BY <1>0, <1>3 DEF Retry, Enter, From, history, PlanOK, RecOK, ThreadOK, CurOK,
     Invocations, LastOK, Orders
<1>4. ASSUME NEW answer \in {"none", "yes", "no"}, Resumption(answer)
      PROVE  Orders'
  BY <1>0, <1>4 DEF Resumption, Enter, From, history, PlanOK, RecOK, ThreadOK, CurOK,
     Invocations, LastOK, Orders
<1>5. ASSUME BindRestart
      PROVE  Orders'
  BY <1>0, <1>5 DEF BindRestart, Restarting, Take, Formal, history, PlanOK, RecOK,
     ThreadOK, CurOK, Invocations, LastOK, Orders
<1>6. ASSUME BindRestore
      PROVE  Orders'
  BY <1>0, <1>6 DEF BindRestore, Restarting, Restorable, Take, Source, history, RunIds,
     PlanOK, RecOK, ThreadOK, CurOK, Invocations, LastOK, Orders
<1>7. ASSUME BindDrift
      PROVE  Orders'
  BY <1>0, <1>7 DEF BindDrift, Take, Formal, history, PlanOK, RecOK, ThreadOK, CurOK,
     Invocations, LastOK, Orders
<1>8. ASSUME BindEntry
      PROVE  Orders'
  BY <1>0, <1>8 DEF BindEntry, Take, Entry, history, PlanOK, RecOK, ThreadOK, CurOK,
     Invocations, LastOK, Orders
<1>9. ASSUME BindFails
      PROVE  Orders'
  BY <1>0, <1>9 DEF BindFails, End, history, PlanOK, RecOK, ThreadOK, CurOK,
     Invocations, LastOK, Orders
<1>10. ASSUME NEW st \in Statuses, NEW repairs \in RepairPlans, NEW status \in {"failed",
            "paused"}, EarlyReturn(st, repairs, status)
      PROVE  Orders'
  BY <1>0, <1>10 DEF EarlyReturn, ReturnEarly, End, history, PlanOK, RecOK, ThreadOK,
     CurOK, Invocations, LastOK, Orders
<1>11. ASSUME NEW st \in Statuses, NEW repairs \in RepairPlans, NEW write \in BOOLEAN,
            Preparation(st, repairs, write)
      PROVE  Orders'
  BY <1>0, <1>11 DEF Preparation, Prepared, Write, Own, history, PlanOK, RecOK,
     ThreadOK, CurOK, Invocations, LastOK, Orders
<1>12. ASSUME NEW repairs \in RepairPlans, Finalization(repairs)
      PROVE  Orders'
  BY <1>0, <1>12 DEF Finalization, Finalize, Verdict, Write, Own, history, PlanOK,
     RecOK, ThreadOK, CurOK, Invocations, LastOK, Orders
<1>13. ASSUME Drift
      PROVE  Orders'
  BY <1>0, <1>13 DEF Drift, Return, End, history, PlanOK, RecOK, ThreadOK, CurOK,
     Invocations, LastOK, Orders
<1>14. ASSUME Dispatch
      PROVE  Orders'
  <2>1. PICK B \in SUBSET Eligible(cur.st) :
          cur' = [cur EXCEPT !.at = "batch", !.batch = B, !.left = cur.left - 1]
    BY <1>14 DEF Dispatch
  <2>2. UNCHANGED <<plan, rec, thread, last, history, faults>>
    BY <1>14 DEF Dispatch
  <2> QED
    BY <1>0, <2>1, <2>2 DEF CurOK, Invocations, Orders
<1>15. ASSUME Ask
      PROVE  Orders'
  <2>1. Ordered(With(cur.st, cur.batch, "paused"))
    <3>1. cur.batch \in SUBSET Jobs /\ cur.batch \subseteq Eligible(cur.st) /\ cur.st \in Statuses
      BY <1>0, <1>15 DEF Ask, Orders, CurOK, Invocations
    <3>2. \A j \in cur.batch : cur.st[j] \in Ready
      BY <3>1 DEF Eligible, DatabaseFirst, Candidates
    <3>3. /\ "paused" \in Status \ {"absent", "done"}
          /\ \A j \in cur.batch : cur.st[j] \notin {"absent", "done"}
      BY <3>2 DEF Status, Ready
    <3> QED
      BY <1>0, <3>1, <3>3, WithOrdered DEF Orders
  <2> QED
    BY <1>0, <1>15, <2>1 DEF Ask, End, history, ThreadOK, CurOK, Invocations, RecOK, Orders
<1>16. ASSUME NEW out \in [cur.batch -> Failures \cup {"done"}], NEW st \in Statuses,
            Recorded(out, st)
      PROVE  Orders'
  BY <1>0, <1>16 DEF Recorded, Outcomes, Write, Own, history, PlanOK, RecOK, ThreadOK,
     CurOK, Invocations, LastOK, Orders
<1>17. ASSUME WriteFormal
      PROVE  Orders'
  BY <1>0, <1>17, FormalIs DEF WriteFormal, Goto, End, history, PlanOK, RecOK, ThreadOK,
     CurOK, Invocations, LastOK, Orders
<1>18. ASSUME NEW st \in Statuses, NEW repairs \in RepairPlans, Onward(st, repairs)
      PROVE  Orders'
  BY <1>0, <1>18 DEF Onward, history, PlanOK, RecOK, ThreadOK, CurOK, Invocations,
     LastOK, Orders
<1>19. ASSUME Returns
      PROVE  Orders'
  BY <1>0, <1>19 DEF Returns, Return, End, history, PlanOK, RecOK, ThreadOK, CurOK,
     Invocations, LastOK, Orders
<1>20. ASSUME Die
      PROVE  Orders'
  BY <1>0, <1>20 DEF Die, End, history, PlanOK, RecOK, ThreadOK, CurOK, Invocations,
     LastOK, Orders
<1>21. ASSUME UNCHANGED vars
      PROVE  Orders'
  BY <1>0, <1>21 DEF vars, history, PlanOK, RecOK, ThreadOK, CurOK, Invocations, LastOK,
     Orders
<1> QED
  BY <1>1, <1>2, <1>3, <1>4, <1>5, <1>6, <1>7, <1>8, <1>9, <1>10, <1>11, <1>12, <1>13,
     <1>14, <1>15, <1>16, <1>17, <1>18, <1>19, <1>20, <1>21, Steps

\* A batch is never empty, and no result is taken back before a new preparation.
LEMMA BudgetsStep ==
  ASSUME IInv, [Next]_vars
  PROVE  Budgets'
<1>0. /\ CurOK /\ Orders /\ Budgets /\ Nothing.at = "idle"
  BY TypeFacts, NothingIs DEF IInv
<1>1. ASSUME Replan \/ Start \/ Retry
      PROVE  Budgets'
  BY <1>0, <1>1 DEF Replan, Confirm, Start, Enter, From, Nothing, Retry, history, CurOK,
     Invocations, Budgets
<1>2. ASSUME NEW answer \in {"none", "yes", "no"}, Resumption(answer)
      PROVE  Budgets'
  BY <1>0, <1>2 DEF Resumption, Enter, From, history, Nothing, CurOK, Invocations,
     Budgets
<1>3. ASSUME BindRestart \/ BindRestore \/ BindDrift \/ BindEntry \/ BindFails
      PROVE  Budgets'
  BY <1>0, <1>3 DEF BindRestart, Restarting, Take, Formal, BindRestore, Restorable,
     Source, BindDrift, BindEntry, Entry, BindFails, End, history, CurOK, Invocations,
     Budgets
<1>4. ASSUME NEW st \in Statuses, NEW repairs \in RepairPlans, NEW status \in {"failed",
            "paused"}, EarlyReturn(st, repairs, status)
      PROVE  Budgets'
  BY <1>0, <1>4 DEF EarlyReturn, ReturnEarly, End, history, CurOK, Invocations, Budgets
<1>5. ASSUME NEW st \in Statuses, NEW repairs \in RepairPlans, NEW write \in BOOLEAN,
            Preparation(st, repairs, write)
      PROVE  Budgets'
  <2>1. cur'.at = "loop" /\ cur'.st = st /\ cur'.left = Budget(st)
    BY <1>0, <1>5 DEF Preparation, Prepared, CurOK, Invocations
  <2>2. Budget(st) \in Nat /\ 2 * Cardinality(Tasks) <= Budget(st)
    BY <1>5, BudgetIs DEF Preparation
  <2>3. Cardinality(Tried(st)) \in Nat /\ Cardinality(Tasks) \in Nat
    BY JobsCount DEF Tried
  <2> QED
    BY <2>1, <2>2, <2>3 DEF Budgets
<1>6. ASSUME NEW repairs \in RepairPlans, Finalization(repairs)
      PROVE  Budgets'
  BY <1>0, <1>6 DEF Finalization, Finalize, Verdict, Write, Own, history, CurOK,
     Invocations, Budgets
<1>7. ASSUME Drift \/ Ask \/ WriteFormal \/ Returns \/ Die \/ UNCHANGED vars
      PROVE  Budgets'
  BY <1>0, <1>7 DEF Drift, Return, End, Ask, WriteFormal, Goto, Returns, Die, vars,
     history, CurOK, Invocations, Budgets
<1>8. ASSUME Dispatch
      PROVE  Budgets'
  <2>1. PICK B \in SUBSET Eligible(cur.st) :
          /\ LockCompatible(B, Eligible(cur.st))
          /\ cur' = [cur EXCEPT !.at = "batch", !.batch = B, !.left = cur.left - 1]
    BY <1>8 DEF Dispatch
  <2>2. cur.at = "loop" /\ cur.left > 0 /\ Eligible(cur.st) # {} /\ cur.left \in Lefts
    BY <1>0, <1>8 DEF Dispatch, CurOK, Invocations
  <2>3. B # {}
    BY <2>1, <2>2 DEF LockCompatible
  <2>4. PICK b \in B : TRUE
    BY <2>3
  <2>5. /\ Tried(cur.st) \in SUBSET Jobs /\ Tried(cur.st) \cup {b} \in SUBSET Jobs
        /\ Tried(cur.st) \cup B \in SUBSET Jobs /\ b \notin Tried(cur.st)
    BY <2>1, <2>4 DEF Eligible, DatabaseFirst, Candidates, Tried
  <2>6. Cardinality(Tried(cur.st) \cup {b}) = Cardinality(Tried(cur.st)) + 1
    BY <2>5, JobsCount, FS_AddElement
  <2>7. Cardinality(Tried(cur.st) \cup {b}) <= Cardinality(Tried(cur.st) \cup B)
    BY <2>4, <2>5, JobsCount
  <2>8. /\ Cardinality(Tried(cur.st)) \in Nat /\ Cardinality(Tried(cur.st) \cup B) \in Nat
        /\ 2 * Cardinality(Tasks) <= cur.left + Cardinality(Tried(cur.st))
        /\ cur.left \in Nat /\ Cardinality(Tasks) \in Nat
    BY <1>0, <2>2, <2>5, JobsCount, BudgetFits DEF Budgets
  <2>9. cur'.at = "batch" /\ cur'.batch = B /\ cur'.st = cur.st /\ cur'.left = cur.left - 1
    BY <1>0, <2>1 DEF CurOK, Invocations
  <2>10. 2 * Cardinality(Tasks) <= cur.left - 1 + Cardinality(Tried(cur.st) \cup B)
    BY <2>6, <2>7, <2>8
  <2> QED
    BY <2>9, <2>10 DEF Budgets
<1>9. ASSUME NEW out \in [cur.batch -> Failures \cup {"done"}], NEW st \in Statuses,
            Recorded(out, st)
      PROVE  Budgets'
  BY <1>0, <1>9 DEF Recorded, Outcomes, Write, Own, history, CurOK, Invocations, Budgets
<1>10. ASSUME NEW st \in Statuses, NEW repairs \in RepairPlans, Onward(st, repairs)
      PROVE  Budgets'
  BY <1>0, <1>10 DEF Onward, history, CurOK, Invocations, Budgets
<1> QED
  BY <1>1, <1>2, <1>3, <1>4, <1>5, <1>6, <1>7, <1>8, <1>9, <1>10, Steps

\* Runs and versions are counted from one.
LEMMA NumberFacts ==
  ASSUME IInv
  PROVE  /\ plan.ver \in Nat /\ plan.ver + 1 # 0 /\ last.run \in Nat /\ last.run + 1 # 0
         /\ thread.source \in Nat /\ cur.source \in Nat
         /\ 0 \notin RunIds /\ (last.run # 0 => last.run \in RunIds)
         /\ last.run < MaxRuns => last.run + 1 \in RunIds
BY TypeFacts, BuildAssumption DEF PlanOK, LastOK, ThreadOK, CurOK, Invocations, Versions, RunIds

\* Of what was run, more may be; of what is done, no more than that.
LEMMA RunFacts ==
  /\ \A R, A, v, st : NoneDone(st) => WasRun(R, A, v, st)
  /\ \A R, A, v, a, b : SameDone(a, b) /\ WasRun(R, A, v, a) => WasRun(R, A, v, b)
  /\ \A a, b : SameDone(a, b) /\ NoneDone(a) => NoneDone(b)
  /\ \A R, A, S, B, v, st :
       R \subseteq S /\ A \subseteq B /\ WasRun(R, A, v, st) => WasRun(S, B, v, st)
  /\ \A R, A, v, st : st \in Statuses /\ WasRun(R, A, v, st) => WasRun(R, A, v, OfTasks(st))
<1>1. \A R, A, v, st : NoneDone(st) => WasRun(R, A, v, st)
  BY JobsAre DEF NoneDone, WasRun
<1>2. \A R, A, v, a, b : SameDone(a, b) /\ WasRun(R, A, v, a) => WasRun(R, A, v, b)
  BY JobsAre DEF SameDone, WasRun
<1>3. \A a, b : SameDone(a, b) /\ NoneDone(a) => NoneDone(b)
  BY DEF SameDone, NoneDone
<1>4. \A R, A, S, B, v, st :
       R \subseteq S /\ A \subseteq B /\ WasRun(R, A, v, st) => WasRun(S, B, v, st)
  BY DEF WasRun
<1>5. \A R, A, v, st : st \in Statuses /\ WasRun(R, A, v, st) => WasRun(R, A, v, OfTasks(st))
  BY FormalIs DEF WasRun
<1> QED
  BY <1>1, <1>2, <1>3, <1>4, <1>5

\* What is done was run.
LEMMA RunsStep ==
  ASSUME IInv, [Next]_vars
  PROVE  Runs'
<1>0. /\ PlanOK /\ RecOK /\ ThreadOK /\ CurOK /\ LastOK /\ Runs /\ Binds
      /\ Nothing \in Invocations /\ Nothing.at = "idle"
      /\ NoneDone(Blank) /\ NoProgress.st = Blank
      /\ cur.at # "idle" => last.run \in RunIds
      /\ \A R, A, v, st : NoneDone(st) => WasRun(R, A, v, st)
      /\ \A R, A, v, a, b : SameDone(a, b) /\ WasRun(R, A, v, a) => WasRun(R, A, v, b)
      /\ \A a, b : SameDone(a, b) /\ NoneDone(a) => NoneDone(b)
  BY TypeFacts, NothingIs, BlankIs, RunFacts DEF IInv, NoProgress
<1>a. \A R, A, S, B, v, st :
       R \subseteq S /\ A \subseteq B /\ WasRun(R, A, v, st) => WasRun(S, B, v, st)
  BY RunFacts
<1>1. ASSUME Replan
      PROVE  Runs'
  BY <1>0, <1>1 DEF Replan, Confirm, history, PlanOK, RecOK, ThreadOK, CurOK,
     Invocations, LastOK, Runs, Binds
<1>2. ASSUME Start
      PROVE  Runs'
  BY <1>0, <1>2 DEF Start, Confirm, Enter, From, history, PlanOK, RecOK, ThreadOK,
     CurOK, Invocations, LastOK, Runs, Binds
<1>3. ASSUME Retry
      PROVE  Runs'
  BY <1>0, <1>3 DEF Retry, Enter, From, history, PlanOK, RecOK, ThreadOK, CurOK,
     Invocations, LastOK, Runs, Binds
<1>4. ASSUME NEW answer \in {"none", "yes", "no"}, Resumption(answer)
      PROVE  Runs'
  BY <1>0, <1>4 DEF Resumption, Enter, From, history, PlanOK, RecOK, ThreadOK, CurOK,
     Invocations, LastOK, Runs, Binds
<1>5. ASSUME BindRestart
      PROVE  Runs'
  BY <1>0, <1>5 DEF BindRestart, Restarting, Take, Formal, history, PlanOK, RecOK,
     ThreadOK, CurOK, Invocations, LastOK, Runs, Binds
<1>6. ASSUME BindRestore
      PROVE  Runs'
  BY <1>0, <1>6 DEF BindRestore, Restarting, Restorable, Take, Source, history, PlanOK,
     RecOK, ThreadOK, CurOK, Invocations, LastOK, Runs, Binds
<1>7. ASSUME BindDrift
      PROVE  Runs'
  BY <1>0, <1>7 DEF BindDrift, Take, Formal, history, PlanOK, RecOK, ThreadOK, CurOK,
     Invocations, LastOK, Runs, Binds
<1>8. ASSUME BindEntry
      PROVE  Runs'
  <2>1. \A v, s : WasRun(ran, adopted, v, s) => WasRun(ran', adopted', v, s)
    <3>1. ran' = ran /\ adopted \subseteq adopted'
      BY <1>8 DEF BindEntry, Take
    <3> QED
      BY <1>a, <3>1
  <2>2. WasRun(ran', adopted', Entry.bind[2], thread.st)
    <3>1. CASE thread.bind # Unbound
      BY <1>0, <2>1, <3>1 DEF Entry, Runs
    <3>2. CASE thread.bind = Unbound /\ NoneDone(thread.st)
      BY <1>0, <3>2
    <3>3. CASE thread.bind = Unbound /\ ~NoneDone(thread.st)
      <4>1. plan.ver \in adopted' /\ Entry.bind[2] = plan.ver
        BY <1>8, <3>3 DEF BindEntry, Take, Entry, NoneDone
      <4> QED
        BY <4>1 DEF WasRun
    <3> QED
      BY <3>1, <3>2, <3>3
  <2> QED
    BY <1>0, <1>8, <2>1, <2>2 DEF BindEntry, Take, Entry, RecOK, ThreadOK, CurOK, Invocations, Runs
<1>9. ASSUME BindFails
      PROVE  Runs'
  BY <1>0, <1>9 DEF BindFails, End, history, PlanOK, RecOK, ThreadOK, CurOK,
     Invocations, LastOK, Runs, Binds
<1>10. ASSUME NEW st \in Statuses, NEW repairs \in RepairPlans, NEW status \in {"failed",
            "paused"}, EarlyReturn(st, repairs, status)
      PROVE  Runs'
  BY <1>0, <1>10 DEF EarlyReturn, ReturnEarly, End, history, PlanOK, RecOK, ThreadOK,
     CurOK, Invocations, LastOK, Runs, Binds
<1>11. ASSUME NEW st \in Statuses, NEW repairs \in RepairPlans, NEW write \in BOOLEAN,
            Preparation(st, repairs, write)
      PROVE  Runs'
  BY <1>0, <1>11 DEF Preparation, Prepared, Write, Own, history, PlanOK, RecOK,
     ThreadOK, CurOK, Invocations, LastOK, Runs, Binds
<1>12. ASSUME NEW repairs \in RepairPlans, Finalization(repairs)
      PROVE  Runs'
  BY <1>0, <1>12 DEF Finalization, Finalize, Verdict, Write, Own, history, PlanOK,
     RecOK, ThreadOK, CurOK, Invocations, LastOK, Runs, Binds
<1>13. ASSUME Drift
      PROVE  Runs'
  BY <1>0, <1>13 DEF Drift, Return, End, history, PlanOK, RecOK, ThreadOK, CurOK,
     Invocations, LastOK, Runs, Binds
<1>14. ASSUME Dispatch
      PROVE  Runs'
  BY <1>0, <1>14 DEF Dispatch, history, PlanOK, RecOK, ThreadOK, CurOK, Invocations,
     LastOK, Runs, Binds
<1>15. ASSUME Ask
      PROVE  Runs'
  <2>1. WasRun(ran, adopted, cur.bind[2], With(cur.st, cur.batch, "paused"))
    BY <1>0, <1>15, JobsAre DEF Ask, Runs, CurOK, Invocations, WasRun, With
  <2> QED
    BY <1>0, <1>15, <2>1 DEF Ask, End, history, ThreadOK, CurOK, Invocations, Runs
<1>16. ASSUME NEW out \in [cur.batch -> Failures \cup {"done"}], NEW st \in Statuses,
            Recorded(out, st)
      PROVE  Runs'
  <2>1. WasRun(ran', adopted', cur.bind[2], st)
    <3>1. WasRun(ran, adopted, cur.bind[2], cur.st) /\ adopted' = adopted
      BY <1>0, <1>16 DEF Recorded, Runs
    <3>2. /\ ran \subseteq ran'
          /\ \A j \in cur.batch : out[j] = "done" => <<cur.bind[2], j[1]>> \in ran'
      BY <1>16 DEF Recorded
    <3> QED
      BY <1>16, <3>1, <3>2, JobsAre DEF Recorded, Outcomes, WasRun
  <2>2. ran \subseteq ran' /\ adopted' = adopted
    BY <1>16 DEF Recorded
  <2>3. \A v, s : WasRun(ran, adopted, v, s) => WasRun(ran', adopted', v, s)
    BY <1>a, <2>2
  <2> QED
    BY <1>0, <1>16, <2>1, <2>3 DEF Recorded, Write, Own, RecOK, CurOK, Invocations, Runs, Binds
<1>17. ASSUME WriteFormal
      PROVE  Runs'
  <2>1. WasRun(ran, adopted, cur.bind[2], OfTasks(cur.st))
    BY <1>0, <1>17, RunFacts DEF WriteFormal, Runs, CurOK, Invocations
  <2> QED
    BY <1>0, <1>17, <2>1 DEF WriteFormal, Goto, End, PlanOK, CurOK, Invocations, Runs
<1>18. ASSUME NEW st \in Statuses, NEW repairs \in RepairPlans, Onward(st, repairs)
      PROVE  Runs'
  BY <1>0, <1>18 DEF Onward, history, PlanOK, RecOK, ThreadOK, CurOK, Invocations,
     LastOK, Runs, Binds
<1>19. ASSUME Returns
      PROVE  Runs'
  BY <1>0, <1>19 DEF Returns, Return, End, history, PlanOK, RecOK, ThreadOK, CurOK,
     Invocations, LastOK, Runs, Binds
<1>20. ASSUME Die
      PROVE  Runs'
  BY <1>0, <1>20 DEF Die, End, history, PlanOK, RecOK, ThreadOK, CurOK, Invocations,
     LastOK, Runs, Binds
<1>21. ASSUME UNCHANGED vars
      PROVE  Runs'
  BY <1>0, <1>21 DEF vars, history, PlanOK, RecOK, ThreadOK, CurOK, Invocations, LastOK,
     Runs, Binds
<1> QED
  BY <1>1, <1>2, <1>3, <1>4, <1>5, <1>6, <1>7, <1>8, <1>9, <1>10, <1>11, <1>12, <1>13,
     <1>14, <1>15, <1>16, <1>17, <1>18, <1>19, <1>20, <1>21, Steps

\* A run keeps the version it is bound to; a question keeps the one it was put under.
LEMMA BindsStep ==
  ASSUME IInv, [Next]_vars
  PROVE  Binds'
<1>0. /\ PlanOK /\ RecOK /\ ThreadOK /\ CurOK /\ LastOK /\ Binds
      /\ Nothing \in Invocations /\ Nothing.at = "idle" /\ NoneDone(Blank) /\ Unbound[2] = 0
      /\ plan.ver + 1 # 0 /\ last.run + 1 # 0
      /\ \A a, b : SameDone(a, b) /\ NoneDone(a) => NoneDone(b)
  BY TypeFacts, NothingIs, BlankIs, NumberFacts DEF IInv, Unbound, SameDone, NoneDone
<1>1. ASSUME Replan
      PROVE  Binds'
  BY <1>0, <1>1 DEF Replan, Confirm, history, PlanOK, RecOK, ThreadOK, CurOK,
     Invocations, LastOK, Binds
<1>2. ASSUME Start
      PROVE  Binds'
  BY <1>0, <1>2 DEF Start, Confirm, Enter, From, history, PlanOK, RecOK, ThreadOK,
     CurOK, Invocations, LastOK, Binds
<1>3. ASSUME Retry
      PROVE  Binds'
  BY <1>0, <1>3 DEF Retry, Enter, From, history, PlanOK, RecOK, ThreadOK, CurOK,
     Invocations, LastOK, Binds
<1>4. ASSUME NEW answer \in {"none", "yes", "no"}, Resumption(answer)
      PROVE  Binds'
  BY <1>0, <1>4 DEF Resumption, Enter, From, history, PlanOK, RecOK, ThreadOK, CurOK,
     Invocations, LastOK, Binds
<1>5. ASSUME BindRestart
      PROVE  Binds'
  BY <1>0, <1>5 DEF BindRestart, Restarting, Take, Formal, history, NoRepairPlan,
     PlanOK, RecOK, ThreadOK, CurOK, Invocations, LastOK, Binds
<1>6. ASSUME BindRestore
      PROVE  Binds'
  BY <1>0, <1>6 DEF BindRestore, Restarting, Restorable, Take, Source, history, PlanOK,
     RecOK, ThreadOK, CurOK, Invocations, LastOK, Binds
<1>7. ASSUME BindDrift
      PROVE  Binds'
  BY <1>0, <1>7 DEF BindDrift, Take, Formal, history, NoRepairPlan, PlanOK, RecOK,
     ThreadOK, CurOK, Invocations, LastOK, Binds
<1>8. ASSUME BindEntry
      PROVE  Binds'
  BY <1>0, <1>8 DEF BindEntry, Take, Entry, history, PlanOK, RecOK, ThreadOK, CurOK,
     Invocations, LastOK, Binds
<1>9. ASSUME BindFails
      PROVE  Binds'
  BY <1>0, <1>9 DEF BindFails, End, history, PlanOK, RecOK, ThreadOK, CurOK,
     Invocations, LastOK, Binds
<1>10. ASSUME NEW st \in Statuses, NEW repairs \in RepairPlans, NEW status \in {"failed",
            "paused"}, EarlyReturn(st, repairs, status)
      PROVE  Binds'
  BY <1>0, <1>10 DEF EarlyReturn, ReturnEarly, End, history, PlanOK, RecOK, ThreadOK,
     CurOK, Invocations, LastOK, Binds
<1>11. ASSUME NEW st \in Statuses, NEW repairs \in RepairPlans, NEW write \in BOOLEAN,
            Preparation(st, repairs, write)
      PROVE  Binds'
  BY <1>0, <1>11 DEF Preparation, Prepared, Write, Own, history, PlanOK, RecOK,
     ThreadOK, CurOK, Invocations, LastOK, Binds
<1>12. ASSUME NEW repairs \in RepairPlans, Finalization(repairs)
      PROVE  Binds'
  BY <1>0, <1>12 DEF Finalization, Finalize, Verdict, Write, Own, history, PlanOK,
     RecOK, ThreadOK, CurOK, Invocations, LastOK, Binds
<1>13. ASSUME Drift
      PROVE  Binds'
  BY <1>0, <1>13 DEF Drift, Return, End, history, PlanOK, RecOK, ThreadOK, CurOK,
     Invocations, LastOK, Binds
<1>14. ASSUME Dispatch
      PROVE  Binds'
  BY <1>0, <1>14 DEF Dispatch, history, PlanOK, RecOK, ThreadOK, CurOK, Invocations,
     LastOK, Binds
<1>15. ASSUME Ask
      PROVE  Binds'
  BY <1>0, <1>15 DEF Ask, End, history, PlanOK, RecOK, ThreadOK, CurOK, Invocations,
     LastOK, Binds
<1>16. ASSUME NEW out \in [cur.batch -> Failures \cup {"done"}], NEW st \in Statuses,
            Recorded(out, st)
      PROVE  Binds'
  BY <1>0, <1>16 DEF Recorded, Outcomes, Write, Own, history, PlanOK, RecOK, ThreadOK,
     CurOK, Invocations, LastOK, Binds
<1>17. ASSUME WriteFormal
      PROVE  Binds'
  BY <1>0, <1>17 DEF WriteFormal, Goto, End, history, PlanOK, RecOK, ThreadOK, CurOK,
     Invocations, LastOK, Binds
<1>18. ASSUME NEW st \in Statuses, NEW repairs \in RepairPlans, Onward(st, repairs)
      PROVE  Binds'
  BY <1>0, <1>18 DEF Onward, history, PlanOK, RecOK, ThreadOK, CurOK, Invocations,
     LastOK, Binds
<1>19. ASSUME Returns
      PROVE  Binds'
  BY <1>0, <1>19 DEF Returns, Return, End, history, PlanOK, RecOK, ThreadOK, CurOK,
     Invocations, LastOK, Binds
<1>20. ASSUME Die
      PROVE  Binds'
  BY <1>0, <1>20 DEF Die, End, history, PlanOK, RecOK, ThreadOK, CurOK, Invocations,
     LastOK, Binds
<1>21. ASSUME UNCHANGED vars
      PROVE  Binds'
  BY <1>0, <1>21 DEF vars, history, PlanOK, RecOK, ThreadOK, CurOK, Invocations, LastOK,
     Binds
<1> QED
  BY <1>1, <1>2, <1>3, <1>4, <1>5, <1>6, <1>7, <1>8, <1>9, <1>10, <1>11, <1>12, <1>13,
     <1>14, <1>15, <1>16, <1>17, <1>18, <1>19, <1>20, <1>21, Steps

\* The record of a run and its tasks keep up with the formal plan.
LEMMA WorkStep ==
  ASSUME IInv, [Next]_vars
  PROVE  Work'
<1>0. /\ PlanOK /\ RecOK /\ ThreadOK /\ CurOK /\ LastOK /\ Binds /\ Work
      /\ Nothing \in Invocations /\ Nothing.at = "idle" /\ Nothing.source = 0
      /\ NoProgress.st = Blank /\ NoProgress.by = 0
      /\ cur.at # "idle" => last.run \in RunIds
      /\ \A a, b : SameDone(a, b) /\ Kept(plan.st, a) => Kept(plan.st, b)
      /\ \A st : Kept(Blank, st) /\ Kept(st, st)
      /\ \A r \in Repairs : Blank[r] = "absent"
      /\ plan.ver \in Nat /\ last.run \in Nat /\ thread.source \in Nat /\ cur.source \in Nat
  BY TypeFacts, NothingIs, JobsAre, BlankIs, NumberFacts DEF IInv, NoProgress, Kept, SameDone
<1>a. /\ 0 \notin RunIds /\ (last.run # 0 => last.run \in RunIds)
      /\ last.run < MaxRuns => last.run + 1 \in RunIds
  BY NumberFacts
<1>1. ASSUME Replan
      PROVE  Work'
  BY <1>0, <1>1 DEF Replan, Confirm, history, PlanOK, RecOK, ThreadOK, CurOK,
     Invocations, LastOK, Binds, Work, Source
<1>2. ASSUME Start
      PROVE  Work'
  BY <1>0, <1>2, <1>a DEF Start, Confirm, Enter, From, history, PlanOK, RecOK, ThreadOK,
     CurOK, Invocations, LastOK, Binds, Work, Source
<1>3. ASSUME Retry
      PROVE  Work'
  BY <1>0, <1>3, <1>a DEF Retry, Enter, From, history, PlanOK, RecOK, ThreadOK, CurOK,
     Invocations, LastOK, Binds, Work, Source
<1>4. ASSUME NEW answer \in {"none", "yes", "no"}, Resumption(answer)
      PROVE  Work'
  BY <1>0, <1>4, <1>a DEF Resumption, Enter, From, history, PlanOK, RecOK, ThreadOK,
     CurOK, Invocations, LastOK, Binds, Work, Source
<1>5. ASSUME BindRestart
      PROVE  Work'
  BY <1>0, <1>5 DEF BindRestart, Restarting, Take, Formal, history, PlanOK, RecOK,
     ThreadOK, CurOK, Invocations, LastOK, Binds, Work, Source
<1>6. ASSUME BindRestore
      PROVE  Work'
  BY <1>0, <1>6 DEF BindRestore, Restarting, Restorable, Take, Source, history, PlanOK,
     RecOK, ThreadOK, CurOK, Invocations, LastOK, Binds, Work
<1>7. ASSUME BindDrift
      PROVE  Work'
  BY <1>0, <1>7 DEF BindDrift, Take, Formal, history, PlanOK, RecOK, ThreadOK, CurOK,
     Invocations, LastOK, Binds, Work, Source
<1>8. ASSUME BindEntry
      PROVE  Work'
  BY <1>0, <1>8 DEF BindEntry, Take, Entry, history, PlanOK, RecOK, ThreadOK, CurOK,
     Invocations, LastOK, Binds, Work, Source
<1>9. ASSUME BindFails
      PROVE  Work'
  BY <1>0, <1>9 DEF BindFails, End, history, PlanOK, RecOK, ThreadOK, CurOK,
     Invocations, LastOK, Binds, Work, Source
<1>10. ASSUME NEW st \in Statuses, NEW repairs \in RepairPlans, NEW status \in {"failed",
            "paused"}, EarlyReturn(st, repairs, status)
      PROVE  Work'
  BY <1>0, <1>10 DEF EarlyReturn, ReturnEarly, End, history, PlanOK, RecOK, ThreadOK,
     CurOK, Invocations, LastOK, Binds, Work, Source
<1>11. ASSUME NEW st \in Statuses, NEW repairs \in RepairPlans, NEW write \in BOOLEAN,
            Preparation(st, repairs, write)
      PROVE  Work'
  <2>1. /\ cur.at = "prepare" /\ cur'.at = "loop" /\ cur'.st = st /\ cur'.bind = cur.bind
        /\ cur'.source = cur.source /\ UNCHANGED <<plan, thread, last, behind>>
        /\ st \in Statuses /\ SameDone(cur.st, st)
    BY <1>0, <1>11 DEF Preparation, Prepared, history, CurOK, Invocations
  <2>2. \/ UNCHANGED rec
        \/ /\ rec'[last.run].progress.by = last.run /\ rec'[last.run].progress.st = st
           /\ rec'[last.run].progress.bind = cur.bind
    BY <1>0, <1>11, <2>1 DEF Preparation, Prepared, Write, Own, RecOK
  <2>3. Kept(plan.st, cur.st) => Kept(plan.st, st)
    BY <2>1, JobsAre DEF SameDone, Kept
  <2> QED
    BY <1>0, <2>1, <2>2, <2>3 DEF Work
<1>12. ASSUME NEW repairs \in RepairPlans, Finalization(repairs)
      PROVE  Work'
  <2>1. /\ cur.at \notin {"idle", "bind"}
        /\ cur'.at = "return" /\ cur'.st = cur.st /\ cur'.bind = cur.bind
        /\ cur'.source = cur.source /\ UNCHANGED <<plan, thread, last, behind>>
    BY <1>0, <1>12 DEF Finalization, Finalize, history, CurOK, Invocations
  <2>2. /\ rec'[last.run].progress.by = last.run /\ rec'[last.run].progress.st = cur.st
        /\ rec'[last.run].progress.bind = cur.bind
    BY <1>0, <1>12, <2>1 DEF Finalization, Finalize, Write, Own, RecOK
  <2> QED
    BY <1>0, <2>1, <2>2 DEF Work
<1>13. ASSUME Drift
      PROVE  Work'
  BY <1>0, <1>13 DEF Drift, Return, End, history, PlanOK, RecOK, ThreadOK, CurOK,
     Invocations, LastOK, Binds, Work, Source
<1>14. ASSUME Dispatch
      PROVE  Work'
  BY <1>0, <1>14 DEF Dispatch, history, PlanOK, RecOK, ThreadOK, CurOK, Invocations,
     LastOK, Binds, Work, Source
<1>15. ASSUME Ask
      PROVE  Work'
  BY <1>0, <1>15 DEF Ask, End, history, PlanOK, RecOK, ThreadOK, CurOK, Invocations,
     LastOK, Binds, Work, Source
<1>16. ASSUME NEW out \in [cur.batch -> Failures \cup {"done"}], NEW st \in Statuses,
            Recorded(out, st)
      PROVE  Work'
  <2>1. ~behind /\ plan.ver = cur.bind[2] => Kept(plan.st, st)
    BY <1>0, <1>16, JobsAre DEF Recorded, Outcomes, Work, Kept
  <2> QED
    BY <1>0, <1>16, <2>1 DEF Recorded, Write, Own, RecOK, CurOK, Invocations, Work
<1>17. ASSUME WriteFormal
      PROVE  Work'
  <2>1. /\ \A r \in Repairs : OfTasks(cur.st)[r] = "absent"
        /\ Kept(OfTasks(cur.st), cur.st)
    BY <1>0, FormalIs DEF Kept, CurOK, Invocations
  <2> QED
    BY <1>0, <1>17, <2>1 DEF WriteFormal, Goto, End, PlanOK, CurOK, Invocations, LastOK, Work
<1>18. ASSUME NEW st \in Statuses, NEW repairs \in RepairPlans, Onward(st, repairs)
      PROVE  Work'
  <2>1. /\ cur.at = "assess" /\ cur'.at = "loop" /\ cur'.st = st /\ cur'.bind = cur.bind
        /\ cur'.source = cur.source /\ UNCHANGED <<plan, rec, thread, last, behind>>
        /\ SameDone(cur.st, st)
    BY <1>0, <1>18 DEF Onward, history, CurOK, Invocations
  <2>2. Kept(plan.st, cur.st) => Kept(plan.st, st)
    BY <2>1, JobsAre DEF SameDone, Kept
  <2> QED
    BY <1>0, <2>1, <2>2 DEF Work
<1>19. ASSUME Returns
      PROVE  Work'
  BY <1>0, <1>19 DEF Returns, Return, End, history, PlanOK, RecOK, ThreadOK, CurOK,
     Invocations, LastOK, Binds, Work, Source
<1>20. ASSUME Die
      PROVE  Work'
  BY <1>0, <1>20 DEF Die, End, history, PlanOK, RecOK, ThreadOK, CurOK, Invocations,
     LastOK, Binds, Work, Source
<1>21. ASSUME UNCHANGED vars
      PROVE  Work'
  BY <1>0, <1>21 DEF vars, history, PlanOK, RecOK, ThreadOK, CurOK, Invocations, LastOK,
     Binds, Work, Source
<1> QED
  BY <1>1, <1>2, <1>3, <1>4, <1>5, <1>6, <1>7, <1>8, <1>9, <1>10, <1>11, <1>12, <1>13,
     <1>14, <1>15, <1>16, <1>17, <1>18, <1>19, <1>20, <1>21, Steps

-----------------------------------------------------------------------------
(* The theorems.                                                           *)

\* The invariant holds at the start.
LEMMA Initially ==
  ASSUME Init
  PROVE  IInv
<1>1. /\ NoRepairPlan \in RepairPlans /\ Unbound \in Bindings /\ NoProgress \in Progress
      /\ NoProgress.st = Blank /\ NoProgress.by = 0 /\ Unbound[2] = 0
  BY BlankIs DEF NoRepairPlan, RepairPlans, Unbound, Bindings, NoProgress, Progress
<1>2. /\ Nothing \in Invocations /\ Nothing.at = "idle" /\ Nothing.st = Blank
      /\ Nothing.source = 0
  BY NothingIs
<1>3. TypeOK
  <2>1. PlanOK /\ RecOK /\ ThreadOK /\ CurOK
    BY <1>1, <1>2, BlankIs DEF Init, PlanOK, RecOK, ThreadOK, CurOK
  <2>2. LastOK /\ HistoryOK /\ FaultsOK
    <3>1. 0 \in 0..MaxRuns /\ 0 \in 0..MaxFaults
      BY BuildAssumption
    <3> QED
      BY <3>1 DEF Init, LastOK, HistoryOK, FaultsOK
  <2> QED
    BY <2>1, <2>2, TypeParts
<1>4. Orders /\ Budgets
  BY <1>1, <1>2, BlankIs DEF Init, Orders, Budgets
<1>5. Runs /\ Binds
  <2>1. \A v : WasRun(ran, adopted, v, Blank)
    BY BlankIs, RunFacts
  <2> QED
    BY <1>1, <1>2, <2>1 DEF Init, Runs, Binds
<1>6. Work
  BY <1>1, <1>2, BlankIs DEF Init, Work
<1> QED
  BY <1>3, <1>4, <1>5, <1>6 DEF IInv

\* Every step keeps the invariant.
LEMMA Inductive ==
  ASSUME IInv, [Next]_vars
  PROVE  IInv'
BY TypeStep, OrdersStep, BudgetsStep, RunsStep, BindsStep, WorkStep DEF IInv

\* The invariant holds throughout.
LEMMA Invariance == Spec => []IInv
<1>1. Init => IInv
  BY Initially
<1>2. IInv /\ [Next]_vars => IInv'
  BY Inductive
<1> QED
  BY <1>1, <1>2, PTL DEF Spec

\* The formal plan, the records, the thread and the run hold what they should.
THEOREM Typing == Spec => []TypeOK
<1>1. IInv => TypeOK
  BY DEF IInv
<1> QED
  BY <1>1, Invariance, PTL

\* Whatever was restored, repaired, reset or rewritten in between, a task that
\* is done in the formal plan, in a record, in the thread or in a run has all
\* it depends on done there, and the database tasks before it.
THEOREM OrderOfTasks == Spec => []DoneInOrder
<1>1. ASSUME IInv
      PROVE  DoneInOrder
  <2>1. \A l \in Lists : Ordered(l[2])
    BY <1>1 DEF IInv, Orders, Lists
  <2>2. \A st : Ordered(st) => \A t \in Done(st) : /\ Deps[t] \subseteq Done(st)
                                                   /\ t \in Database \/ Database \subseteq Done(st)
    BY DEF Ordered, Done
  <2> QED
    BY <2>1, <2>2 DEF DoneInOrder
<1> QED
  BY <1>1, Invariance, PTL

\* What is done under a version of the plan was run under that version, but
\* for the versions under which tasks bound to nothing were taken over.
THEOREM NothingPassedOff == Spec => []DoneWasRun
<1>1. ASSUME IInv
      PROVE  DoneWasRun
  <2>1. \A l \in Lists : WasRun(ran, adopted, l[1], l[2])
    BY <1>1 DEF IInv, Runs, Lists
  <2>2. SUFFICES ASSUME NEW l \in Lists, l[1] \notin adopted, NEW t \in Done(l[2])
                 PROVE  <<l[1], t>> \in ran
    BY DEF DoneWasRun
  <2> QED
    BY <2>1, <2>2, JobsAre DEF WasRun, Done
<1> QED
  BY <1>1, Invariance, PTL

\* The iterations were two for each task of the plan, and each tried a job: a run
\* that is out of them has tried as many jobs, and if one is left to run, more
\* than half of what is listed are repairs.
THEOREM EnoughIterations == Spec => []ExhaustedByRepairs
<1>1. ASSUME IInv
      PROVE  ExhaustedByRepairs
  <2>1. SUFFICES ASSUME cur.at = "loop", cur.left = 0, NEW j \in Eligible(cur.st)
                 PROVE  Cardinality(Repairs \cap Present(cur.st)) > Cardinality(Tasks)
    BY DEF ExhaustedByRepairs
  <2>2. /\ Tried(cur.st) \in SUBSET Jobs /\ Present(cur.st) \in SUBSET Jobs
        /\ j \in Present(cur.st) \ Tried(cur.st)
        /\ Tried(cur.st) \cup {j} \in SUBSET Present(cur.st)
    BY DEF Eligible, DatabaseFirst, Candidates, Tried, Present, Ready
  <2>3. /\ Cardinality(Tried(cur.st) \cup {j}) = Cardinality(Tried(cur.st)) + 1
        /\ Cardinality(Tried(cur.st) \cup {j}) <= Cardinality(Present(cur.st))
        /\ Cardinality(Tried(cur.st)) \in Nat /\ Cardinality(Tasks) \in Nat
    BY <2>2, JobsCount, FS_AddElement
  <2>4. 2 * Cardinality(Tasks) <= Cardinality(Tried(cur.st))
    BY <1>1, <2>1, <2>3 DEF IInv, Budgets
  <2>5. cur.st \in Statuses /\ Ordered(cur.st)
    BY <1>1, CurTyped DEF IInv, Orders
  <2> QED
    BY <2>3, <2>4, <2>5, PresentCount
<1> QED
  BY <1>1, Invariance, PTL

\* No run dispatches a task the formal plan has as done, unless work was taken
\* up from behind the plan and the plan was not written since.
THEOREM NoWorkRepeated == Spec => WorkKept
<1>1. ASSUME IInv, [Next]_vars
      PROVE  [Dispatch /\ ~behind => \A j \in cur'.batch : plan.st[j] # "done"]_vars
  <2>1. SUFFICES ASSUME Dispatch, ~behind, NEW j \in cur'.batch, plan.st[j] = "done"
                 PROVE  FALSE
    OBVIOUS
  <2>2. cur.at = "loop" /\ plan.ver = cur.bind[2] /\ CurOK
    BY <1>1, <2>1, TypeFacts DEF Dispatch
  <2>3. j \in Eligible(cur.st)
    BY <2>1, <2>2 DEF Dispatch, CurOK, Invocations
  <2>4. j \in Jobs /\ cur.st[j] \in Ready
    BY <2>3 DEF Eligible, DatabaseFirst, Candidates
  <2>5. Kept(plan.st, cur.st) /\ \A r \in Repairs : plan.st[r] = "absent"
    BY <1>1, <2>1, <2>2 DEF IInv, Work
  <2> QED
    BY <2>1, <2>4, <2>5, JobsAre DEF Kept, Ready
<1> QED
  BY <1>1, Invariance, PTL DEF Spec, WorkKept

=============================================================================

----------------------------- MODULE DraftProofs -----------------------------
(***************************************************************************)
(* Proofs about DraftLifecycle for any set of sessions and any number of   *)
(* drafts, runs and versions of the inputs.                                *)
(*                                                                         *)
(* None of the five properties is inductive.  That an abandoned draft      *)
(* stays out needs what the tombstone says of the pending file             *)
(* (Decisions); that confirmed plans do not fork needs every base to be a  *)
(* confirmed plan (Bases); what a regeneration does needs its run to       *)
(* belong to one session (RunsOwned), to be the one its fact records       *)
(* (Regenerations), and the draft it wrote to be reserved to that session  *)
(* (Successors).                                                           *)
(*                                                                         *)
(* Moves sorts the steps into eight kinds by what they do to the drafts    *)
(* and to the executions; the lemmas ...Step keep one part of the          *)
(* invariant each, kind by kind.                                           *)
(***************************************************************************)
EXTENDS DraftLifecycle, TLAPS

------------------------------------------------------------------------------
(* The inductive invariant *)

\* The files, the sets of drafts and the facts name drafts that were born, and
\* the decided ones were pending before.
Named ==
  /\ issued \subseteq 1..born /\ confirmed \subseteq issued /\ abandoned \subseteq issued
  /\ pending \in issued \cup {0} /\ runFile \in 0..born
  /\ formal \in confirmed \cup {0} /\ tombstone \in abandoned \cup {0}
  /\ \A d \in Ids : /\ fact[d].next \in 0..born
                    /\ fact[d].phase # "none" => d \in issued

\* A session that is planning does so under a run of its own, for a draft
\* nobody has seen yet; a decision is about a draft that was shown.
Jobs ==
  \A s \in Sessions :
    /\ job[s].st # "idle" => job[s].run # 0
    /\ job[s].on \in issued \cup {0} /\ job[s].parent \in issued \cup {0}
    /\ job[s].act # "plan" => job[s].on # 0
    /\ IF Planning(s) THEN job[s].next \in (1..born) \ issued ELSE job[s].next = 0
    /\ \A t \in Sessions : job[s].next # 0 /\ job[s].next = job[t].next => s = t

Typed == TypeOK /\ Named /\ Jobs

\* A decided draft that still is in the pending file is the one that was
\* decided last: the formal plan, or the tombstone, names it.
Decisions ==
  /\ AbandonedStaysOut
  /\ pending \in abandoned => tombstone = pending
  /\ pending \in confirmed => formal = pending

\* The formal plan is not yet the base of a confirmed draft.
Bases ==
  /\ NoFork
  /\ \A d \in 1..born : drafts[d].base \in confirmed \cup {0}
  /\ \A d \in confirmed : drafts[d].base # formal

\* The runs a session goes on with are its own, and none of them is ended but
\* the last one of an ended session.
Own(s) == job[s].lineage \cup ({job[s].run} \ {0})

RunsOwned ==
  /\ ended \cap {0} = {} /\ \A r \in ended : r <= runs
  /\ \A d \in Ids : fact[d].run <= runs
  /\ \A s \in Sessions :
       /\ \A r \in Own(s) : r <= runs /\ r # 0
       /\ job[s].run \notin job[s].lineage
       /\ ended \cap job[s].lineage = {}
       /\ job[s].run \in ended => job[s].st = "ended"
       /\ \A t \in Sessions \ {s} : Own(s) \cap Own(t) = {}

\* A regeneration in progress is the one its fact records.
Regenerations ==
  /\ ConsumedStaysOut /\ CommittedWasWritten
  /\ \A d \in 1..born :
       drafts[d].parent # 0 => /\ drafts[d].parent \in issued
                               /\ fact[drafts[d].parent].phase # "none"
  /\ \A s \in Sessions :
       Planning(s) =>
         LET n == job[s].next
             d == job[s].parent IN
         /\ drafts[n].parent = d /\ drafts[n].session = s /\ drafts[n].run = job[s].run
         /\ d # 0 => /\ fact[d].phase = "consumed"
                     /\ fact[d].next = n /\ fact[d].run = job[s].run

\* A session that can still write a successor of d, now or after a recovery.
Drives(s, d) ==
  /\ \/ job[s].act = "regenerate" /\ job[s].on = d
     \/ Planning(s) /\ job[s].parent = d
  /\ fact[d].phase # "none" /\ fact[d].run \in Own(s)

\* No successor of d was confirmed then, nor can the pending one be: it is
\* reserved to this session, which does not confirm it.
Successors ==
  /\ OneSuccessor
  /\ \A s \in Sessions, d \in Ids, m \in issued :
       Drives(s, d) /\ drafts[m].parent = d =>
         /\ m \notin confirmed
         /\ pending = m /\ ~Decided(m) =>
              /\ drafts[m].session = s /\ drafts[m].run \in Own(s)
              /\ drafts[m].run \notin ended
              /\ \A t \in Sessions : ~(job[t].act = "confirm" /\ job[t].on = m)

IInv ==
  Typed /\ Decisions /\ Bases /\ RunsOwned /\ Regenerations /\ Successors

------------------------------------------------------------------------------
(* The kinds of steps *)

Others(s) == \A t \in Sessions \ {s} : job'[t] = job[t]

\* The execution of s is over, or failed and keeps what a retry repeats.
Over(s) ==
  /\ job'[s].act = "plan" /\ job'[s].next = 0 /\ job'[s].parent = 0 /\ job'[s].lineage = {}
  /\ job'[s].st \in {"idle", "awaiting", "failed", "ended"}
  /\ \/ job'[s].run = job[s].run
     \/ job'[s].st = "idle" /\ job'[s].run = 0
  /\ job'[s].on \in issued' \cup {0}

Kept(s) ==
  /\ job'[s].st = "failed" /\ job'[s].next = 0 /\ job'[s].parent = 0
  /\ job'[s].act = job[s].act /\ job'[s].on = job[s].on /\ job'[s].run = job[s].run
  /\ job'[s].lineage = job[s].lineage

Ends == \A s \in Sessions :
  \/ job'[s] = job[s]
  \/ job[s].st \notin {"idle", "ended"} /\ (Over(s) \/ Kept(s))

Recorded == <<formal, tombstone, drafts, born, runs, issued, confirmed, abandoned>>

\* A request of s goes on with the regeneration of d: as its first one, or as
\* one that continues the run the fact names.
Touches(s, d) ==
  /\ job[s].st = "entered" /\ d \in issued
  /\ \/ fact[d].phase = "none"
     \/ fact[d].run \in job[s].lineage /\ job[s].act = "regenerate" /\ job[s].on = d
  /\ fact' \in [Ids -> Fact] /\ fact'[d].phase # "none" /\ fact'[d].run = job[s].run
  /\ \A e \in Ids \ {d} : fact'[e] = fact[e]

\* No draft is born, shown or decided: at most a pending one is removed, a
\* fact touched, an execution brought to its end.
Settles ==
  /\ UNCHANGED Recorded /\ Ends
  /\ pending' \in {0, pending} /\ runFile' \in {0, runFile}
  /\ inputs' \in Versions
  /\ \/ UNCHANGED ended
     \/ \E s \in Sessions : /\ ended' = ended \cup {job[s].run}
                            /\ job[s].st \in {"awaiting", "failed"}
                            /\ Over(s) /\ job'[s].st = "ended" /\ job'[s].run = job[s].run
  /\ \/ UNCHANGED fact
     \/ \E s \in Sessions, d \in Ids :
          /\ Touches(s, d) /\ fact'[d].next = fact[d].next
          /\ fact'[d].phase = "consumed" => fact[d].phase = "consumed" \/ pending' # d
          /\ fact'[d].phase = "committed" =>
               \/ fact[d].phase = "committed"
               \/ fact[d].phase = "consumed" /\ fact[d].next = pending /\ pending # 0

Abandons ==
  /\ Ends /\ UNCHANGED <<formal, inputs, drafts, born, fact, runs, ended, issued, confirmed>>
  /\ pending # 0 /\ ~Decided(pending)
  /\ tombstone' = pending /\ abandoned' = abandoned \cup {pending}
  /\ pending' \in {0, pending} /\ runFile' \in {0, runFile}

Promotes ==
  /\ Ends
  /\ UNCHANGED <<runFile, fact, drafts, born, tombstone, inputs, runs, ended, issued, abandoned>>
  /\ pending # 0 /\ ~Decided(pending) /\ drafts[pending].base = formal
  /\ \E s \in Sessions : job[s].act = "confirm" /\ job[s].on = pending
  /\ formal' = pending /\ confirmed' = confirmed \cup {pending}
  /\ pending' \in {0, pending}

Persists(s) ==
  LET n == job[s].next
      d == job[s].parent IN
  /\ Planning(s)
  /\ UNCHANGED <<formal, tombstone, runFile, inputs, drafts, born, runs, ended,
                 confirmed, abandoned>>
  /\ pending' = n /\ issued' = issued \cup {n}
  /\ Others(s) /\ (Over(s) \/ Kept(s))
  /\ \/ UNCHANGED fact
     \/ d # 0 /\ fact' = [fact EXCEPT ![d].phase = "committed"]

Starts(s, d) ==
  /\ job[s].st = "entered" /\ Others(s) /\ born < MaxDrafts
  /\ job'[s].st = "planning" /\ job'[s].next = born + 1 /\ job'[s].parent = d
  /\ job'[s].act = job[s].act /\ job'[s].on = job[s].on /\ job'[s].run = job[s].run
  /\ job'[s].lineage = job[s].lineage
  /\ born' = born + 1 /\ runFile' = born'
  /\ drafts' = [n \in 1..(born + 1) |->
       IF n <= born THEN drafts[n]
       ELSE [session |-> s, run |-> job[s].run, base |-> formal, inputs |-> inputs,
             parent |-> d]]
  /\ UNCHANGED <<formal, tombstone, inputs, runs, ended, issued, confirmed, abandoned>>
  /\ \/ d = 0 /\ UNCHANGED <<pending, fact>>
     \/ /\ Touches(s, d) /\ pending' = 0
        /\ fact'[d].phase = "consumed" /\ fact'[d].next = born + 1

Enters(s) ==
  /\ ~Running(s) /\ Others(s) /\ runs < MaxRuns /\ runs' = runs + 1
  /\ Actionable => drafts[pending].session = s
  /\ job'[s].st = "entered" /\ job'[s].run = runs + 1 /\ job'[s].on \in issued \cup {0}
  /\ job'[s].act # "plan" => job'[s].on # 0
  /\ job'[s].next = 0 /\ job'[s].parent = 0 /\ job'[s].lineage = {}
  /\ ended' \in {ended, ended \ {job[s].run}}
  /\ UNCHANGED <<files, tombstone, drafts, born, fact, issued, confirmed, abandoned>>

Recovers(s) ==
  /\ job[s].st = "failed" /\ Others(s) /\ runs < MaxRuns /\ runs' = runs + 1
  /\ job'[s].st = "entered" /\ job'[s].run = runs + 1
  /\ job'[s].next = 0 /\ job'[s].parent \in {0, job[s].parent}
  /\ \/ job'[s].act = "plan" /\ job'[s].on = 0 /\ job'[s].lineage = {}
     \/ /\ job'[s].act = job[s].act /\ job'[s].on = job[s].on
        /\ job'[s].lineage = job[s].lineage \cup {job[s].run}
  /\ UNCHANGED <<files, tombstone, drafts, born, fact, ended, issued, confirmed, abandoned>>

Commits(s) ==
  /\ job[s].st = "planning" /\ Others(s)
  /\ job'[s].st \in {"planning", "persisting"}
  /\ job'[s].next = job[s].next /\ job'[s].parent = job[s].parent
  /\ job'[s].act = job[s].act /\ job'[s].on = job[s].on /\ job'[s].run = job[s].run
  /\ job'[s].lineage = job[s].lineage
  /\ runFile' = job[s].next
  /\ UNCHANGED <<pending, formal, tombstone, inputs, drafts, born, fact, runs, ended,
                 issued, confirmed, abandoned>>

------------------------------------------------------------------------------
(* What becomes of an execution, field by field *)

\* No execution, and the types of what a session and a fact hold.
LEMMA IdleType == Idle \in Job
BY DraftLifecycleAssumption
   DEF Idle, Job, Actions, IdOrNone, Runs, Versions

\* A gate that shows d is the end of the execution.
LEMMA ShowEffect ==
  ASSUME job \in [Sessions -> Job], NEW s \in Sessions, NEW d \in IdOrNone, Show(s, d),
         d \in issued' \cup {0}
  PROVE  job' \in [Sessions -> Job] /\ Others(s) /\ Over(s)
<1> DEFINE x == [Idle EXCEPT !.st = "awaiting", !.run = job[s].run, !.on = d]
<1>1. x \in Job BY IdleType DEF Job
<1>2. x.act = "plan" /\ x.next = 0 /\ x.parent = 0 /\ x.lineage = {} /\ x.st = "awaiting"
      /\ x.run = job[s].run /\ x.on = d
  BY DEF Idle
<1>3. job' = [job EXCEPT ![s] = x] BY DEF Show
<1> HIDE DEF x
<1> QED BY <1>1, <1>2, <1>3 DEF Others, Over

\* A failed execution keeps the request that a retry repeats.
LEMMA FailEffect ==
  ASSUME job \in [Sessions -> Job], NEW s \in Sessions, Fail(s)
  PROVE  job' \in [Sessions -> Job] /\ Others(s) /\ Kept(s)
<1> DEFINE x == [job[s] EXCEPT !.st = "failed", !.next = 0, !.parent = 0, !.locks = FALSE]
<1>0. 0 \in IdOrNone BY DraftLifecycleAssumption DEF IdOrNone
<1>1. x \in Job BY <1>0 DEF Job
<1>2. /\ x.act = job[s].act /\ x.next = 0 /\ x.parent = 0 /\ x.lineage = job[s].lineage
      /\ x.st = "failed" /\ x.run = job[s].run /\ x.on = job[s].on
  BY DEF Job
<1>3. job' = [job EXCEPT ![s] = x] BY DEF Fail
<1> HIDE DEF x
<1> QED BY <1>1, <1>2, <1>3 DEF Others, Kept

\* A session may be left without an execution.
LEMMA IdleEffect ==
  ASSUME job \in [Sessions -> Job], NEW s \in Sessions, job' = [job EXCEPT ![s] = Idle]
  PROVE  job' \in [Sessions -> Job] /\ Others(s) /\ Over(s)
<1>1. /\ Idle.act = "plan" /\ Idle.next = 0 /\ Idle.parent = 0 /\ Idle.lineage = {}
      /\ Idle.st = "idle" /\ Idle.run = 0 /\ Idle.on = 0
  BY DEF Idle
<1> QED BY <1>1, IdleType DEF Others, Over

\* A stale decision ends the execution one way or the other.
LEMMA StaleEffect ==
  ASSUME job \in [Sessions -> Job], NEW s \in Sessions, Stale(s), pending' \in issued' \cup {0},
         issued' \subseteq Ids
  PROVE  job' \in [Sessions -> Job] /\ Others(s) /\ (Over(s) \/ Kept(s))
<1>1. pending' \in IdOrNone BY DraftLifecycleAssumption DEF Ids, IdOrNone
<1> QED BY <1>1, ShowEffect, FailEffect DEF Stale

\* What a session that is alone in moving does is an end of executions.
LEMMA OneEnds ==
  ASSUME NEW s \in Sessions, Others(s), Over(s) \/ Kept(s),
         job[s].st \notin {"idle", "ended"}
  PROVE  Ends
BY DEF Ends, Others

\* What the first write of a regeneration changes in the facts.
LEMMA TouchedEffect ==
  ASSUME fact \in [Ids -> Fact], job \in [Sessions -> Job], NEW s \in Sessions,
         NEW d \in Ids
  PROVE  /\ Touched(s, d) \in [Ids -> Fact]
         /\ Touched(s, d)[d].run = job[s].run /\ Touched(s, d)[d].next = fact[d].next
         /\ Touched(s, d)[d].phase = IF fact[d].phase = "none" THEN "prepared" ELSE fact[d].phase
         /\ \A e \in Ids \ {d} : Touched(s, d)[e] = fact[e]
BY DEF Touched, Fact, Job

\* A new planning run is that of the session that starts it.
LEMMA StartEffect ==
  ASSUME job \in [Sessions -> Job], NEW s \in Sessions, NEW d \in IdOrNone, born \in IdOrNone,
         StartRun(s, d)
  PROVE  /\ job' \in [Sessions -> Job] /\ Others(s) /\ born < MaxDrafts
         /\ job'[s].st = "planning" /\ job'[s].next = born + 1 /\ job'[s].parent = d
         /\ job'[s].act = job[s].act /\ job'[s].on = job[s].on /\ job'[s].run = job[s].run
         /\ job'[s].lineage = job[s].lineage
<1> DEFINE x == [job[s] EXCEPT !.st = "planning", !.next = born + 1, !.parent = d]
<1>1. born + 1 \in IdOrNone /\ born < MaxDrafts
  BY DraftLifecycleAssumption DEF StartRun, IdOrNone
<1>2. x \in Job BY <1>1 DEF Job
<1>3. /\ x.st = "planning" /\ x.next = born + 1 /\ x.parent = d /\ x.act = job[s].act
      /\ x.on = job[s].on /\ x.run = job[s].run /\ x.lineage = job[s].lineage
  BY DEF Job
<1>4. job' = [job EXCEPT ![s] = x] BY DEF StartRun
<1> HIDE DEF x
<1> QED BY <1>1, <1>2, <1>3, <1>4 DEF Others

\* A planning run started on its own or after a consumption is a step of one kind.
LEMMA StartMoves ==
  ASSUME job \in [Sessions -> Job], NEW s \in Sessions, NEW d \in IdOrNone, born \in IdOrNone,
         StartRun(s, d), job[s].st = "entered",
         UNCHANGED <<formal, tombstone, inputs, runs, ended, issued, confirmed, abandoned>>,
         \/ d = 0 /\ UNCHANGED <<pending, fact>>
         \/ /\ Touches(s, d) /\ pending' = 0
            /\ fact'[d].phase = "consumed" /\ fact'[d].next = born + 1
  PROVE  job' \in [Sessions -> Job] /\ Starts(s, d)
<1>1. /\ job' \in [Sessions -> Job] /\ Others(s) /\ born < MaxDrafts
      /\ job'[s].st = "planning" /\ job'[s].next = born + 1 /\ job'[s].parent = d
      /\ job'[s].act = job[s].act /\ job'[s].on = job[s].on /\ job'[s].run = job[s].run
      /\ job'[s].lineage = job[s].lineage
  BY StartEffect
<1>2. /\ born' = born + 1 /\ runFile' = born'
      /\ drafts' = [n \in 1..(born + 1) |->
           IF n <= born THEN drafts[n]
           ELSE [session |-> s, run |-> job[s].run, base |-> formal, inputs |-> inputs,
                 parent |-> d]]
  BY DEF StartRun
<1> QED BY <1>1, <1>2 DEF Starts

------------------------------------------------------------------------------
(* Every step is of one of the kinds *)

\* What the invariant says of the variables and of one execution, for the provers.
LEMMA Facts ==
  ASSUME Typed
  PROVE  /\ job \in [Sessions -> Job] /\ fact \in [Ids -> Fact]
         /\ drafts \in [1..born -> Draft] /\ born \in Nat /\ born <= MaxDrafts
         /\ born \in IdOrNone
         /\ pending \in IdOrNone /\ formal \in IdOrNone /\ tombstone \in IdOrNone
         /\ runFile \in IdOrNone /\ inputs \in Versions /\ runs \in Runs
         /\ issued \subseteq 1..born /\ issued \subseteq Ids /\ 1..born \subseteq Ids
         /\ 0 \notin issued /\ pending \in issued \cup {0} /\ ended \subseteq Runs
         /\ \A s \in Sessions :
              /\ job[s] \in Job /\ job[s].on \in issued \cup {0}
              /\ job[s].parent \in issued \cup {0}
              /\ job[s].act \in Actions
              /\ job[s].run \in Runs /\ job[s].lineage \subseteq Runs
              /\ job[s].next \in IdOrNone /\ job[s].on \in IdOrNone /\ job[s].parent \in IdOrNone
BY DraftLifecycleAssumption DEF Typed, TypeOK, Named, Jobs, Ids, IdOrNone, Job

\* The steps of a regeneration.
LEMMA RegenerateMoves ==
  ASSUME Typed, NEW s \in Sessions, NEW d \in issued, job[s].st = "entered",
         RegenerateSteps(s, d), (job[s].act = "regenerate" /\ job[s].on = d) \/ fact[d].phase = "none"
  PROVE  job' \in [Sessions -> Job] /\ (Settles \/ Starts(s, d))
<1>0. /\ job \in [Sessions -> Job] /\ fact \in [Ids -> Fact] /\ d \in Ids /\ born \in IdOrNone
      /\ pending \in issued \cup {0} /\ issued \subseteq Ids /\ inputs \in Versions
      /\ d # 0 /\ d \in IdOrNone
  BY Facts DEF Ids, IdOrNone
<1>1. UNCHANGED <<formal, tombstone, inputs, runs, ended, issued, confirmed, abandoned>>
  BY DEF RegenerateSteps
<1>2. /\ Touched(s, d) \in [Ids -> Fact]
      /\ Touched(s, d)[d].run = job[s].run /\ Touched(s, d)[d].next = fact[d].next
      /\ Touched(s, d)[d].phase = IF fact[d].phase = "none" THEN "prepared" ELSE fact[d].phase
      /\ \A e \in Ids \ {d} : Touched(s, d)[e] = fact[e]
  BY <1>0, TouchedEffect
<1>3. ASSUME FactAdmits(s, d), fact' \in [Ids -> Fact], fact'[d].phase # "none",
             fact'[d].run = job[s].run, \A e \in Ids \ {d} : fact'[e] = fact[e]
      PROVE  Touches(s, d)
  BY <1>3 DEF Touches, FactAdmits
<1>4. ASSUME Consume(s, d) PROVE job' \in [Sessions -> Job] /\ (Settles \/ Starts(s, d))
  <2>0. FactAdmits(s, d) /\ Unconsumed(d) /\ (pending = 0 \/ pending = d)
    BY <1>4 DEF Consume
  <2>1. CASE /\ Fail(s) /\ fact' = Touched(s, d) /\ UNCHANGED <<drafts, born>>
             /\ UNCHANGED <<pending, runFile>> \/ Deleted(d)
    <3>1. Touches(s, d) BY <1>2, <1>3, <2>0, <2>1
    <3>2. pending' \in {0, pending} /\ runFile' \in {0, runFile}
      BY <2>1 DEF Deleted, Dropped
    <3>3. fact'[d].phase = "prepared"
      BY <1>0, <1>2, <2>0, <2>1 DEF Unconsumed, Fact
    <3> QED BY <1>0, <1>1, <1>2, <2>1, <3>1, <3>2, <3>3, FailEffect, OneEnds
            DEF Settles, Recorded
  <2>2. CASE /\ Fail(s) /\ fact' = [Touched(s, d) EXCEPT ![d].phase = "consumed"]
             /\ Deleted(d) /\ UNCHANGED <<drafts, born>>
    <3>1. /\ fact' \in [Ids -> Fact] /\ fact'[d].phase = "consumed"
          /\ fact'[d].run = job[s].run /\ fact'[d].next = fact[d].next
          /\ \A e \in Ids \ {d} : fact'[e] = fact[e]
      BY <1>0, <1>2, <2>2 DEF Fact
    <3>2. Touches(s, d) BY <1>3, <2>0, <3>1
    <3>3. pending' = 0 /\ runFile' \in {0, runFile}
      BY <2>2 DEF Deleted, Dropped
    <3> QED BY <1>0, <1>1, <2>2, <3>1, <3>2, <3>3, FailEffect, OneEnds
            DEF Settles, Recorded
  <2>3. CASE /\ StartRun(s, d) /\ pending' = 0
             /\ fact' = [Touched(s, d) EXCEPT ![d].phase = "consumed", ![d].next = born + 1]
    <3>0. born + 1 \in IdOrNone
      BY <1>0, <2>3, DraftLifecycleAssumption DEF StartRun, IdOrNone
    <3>1. /\ fact' \in [Ids -> Fact] /\ fact'[d].phase = "consumed"
          /\ fact'[d].run = job[s].run /\ fact'[d].next = born + 1
          /\ \A e \in Ids \ {d} : fact'[e] = fact[e]
      BY <1>0, <1>2, <2>3, <3>0 DEF Fact
    <3>2. Touches(s, d) BY <1>3, <2>0, <3>1
    <3> QED BY <1>0, <1>1, <2>3, <3>1, <3>2, StartMoves
  <2> QED BY <1>4, <2>1, <2>2, <2>3 DEF Consume
<1>5. ASSUME Replan(s, d) PROVE job' \in [Sessions -> Job] /\ (Settles \/ Starts(s, d))
  <2>0. FactAdmits(s, d) /\ fact[d].phase = "consumed" /\ pending = 0 /\ UNCHANGED pending
    BY <1>5 DEF Replan
  <2>1. CASE StartRun(s, d) /\ fact' = [Touched(s, d) EXCEPT ![d].next = born + 1]
    <3>1. born + 1 \in IdOrNone
      BY <1>0, <2>1, DraftLifecycleAssumption DEF StartRun, IdOrNone
    <3>2. /\ fact' \in [Ids -> Fact] /\ fact'[d].phase = "consumed"
          /\ fact'[d].run = job[s].run /\ fact'[d].next = born + 1
          /\ \A e \in Ids \ {d} : fact'[e] = fact[e]
      BY <1>0, <1>2, <2>0, <2>1, <3>1 DEF Fact
    <3>3. Touches(s, d) BY <1>3, <2>0, <3>2
    <3>4. pending' = 0 BY <2>0
    <3> QED BY <1>0, <1>1, <2>0, <2>1, <3>2, <3>3, <3>4, StartMoves
  <2>2. CASE fact' = Touched(s, d) /\ Fail(s) /\ UNCHANGED <<runFile, drafts, born>>
    <3>1. Touches(s, d) BY <1>2, <1>3, <2>0, <2>2
    <3> QED BY <1>0, <1>1, <1>2, <2>0, <2>2, <3>1, FailEffect, OneEnds DEF Settles, Recorded
  <2> QED BY <1>5, <2>1, <2>2 DEF Replan
<1>6. ASSUME Adopt(s, d) PROVE job' \in [Sessions -> Job] /\ Settles
  <2>0. /\ FactAdmits(s, d) /\ ~Unconsumed(d) /\ pending # 0 /\ pending = fact[d].next
        /\ UNCHANGED <<pending, runFile, drafts, born>>
    BY <1>6 DEF Adopt
  <2>1. fact[d].phase \in {"consumed", "committed"}
    BY <1>0, <2>0 DEF Unconsumed, Fact
  <2>2. CASE /\ fact' = [Touched(s, d) EXCEPT ![d].phase = "committed"]
             /\ (Show(s, pending) \/ Fail(s))
    <3>1. /\ fact' \in [Ids -> Fact] /\ fact'[d].phase = "committed"
          /\ fact'[d].run = job[s].run /\ fact'[d].next = fact[d].next
          /\ \A e \in Ids \ {d} : fact'[e] = fact[e]
      BY <1>0, <1>2, <2>2 DEF Fact
    <3>2. Touches(s, d) BY <1>3, <2>0, <3>1
    <3>3. pending \in IdOrNone /\ pending \in issued' BY <1>0, <1>1, <2>0, Facts
    <3>4. job' \in [Sessions -> Job] /\ Others(s) /\ (Over(s) \/ Kept(s))
      BY <1>0, <1>1, <2>2, <3>3, ShowEffect, FailEffect
    <3> QED BY <1>0, <1>1, <2>0, <2>1, <3>1, <3>2, <3>4, OneEnds DEF Settles, Recorded
  <2>3. CASE fact' = Touched(s, d) /\ Fail(s)
    <3>1. Touches(s, d) BY <1>2, <1>3, <2>0, <2>1, <2>3
    <3> QED BY <1>0, <1>1, <1>2, <2>0, <2>1, <2>3, <3>1, FailEffect, OneEnds DEF Settles, Recorded
  <2> QED BY <1>6, <2>2, <2>3 DEF Adopt
<1>7. ASSUME Refuse(s, d) PROVE job' \in [Sessions -> Job] /\ Settles
  <2>0. Stale(s) /\ UNCHANGED <<drafts, born>> BY <1>7 DEF Refuse
  <2>1. pending' \in {0, pending} /\ runFile' \in {0, runFile}
    BY <1>7 DEF Refuse, Dropped
  <2>2. job' \in [Sessions -> Job] /\ Others(s) /\ (Over(s) \/ Kept(s))
    BY <1>0, <1>1, <2>0, <2>1, StaleEffect
  <2>3. CASE UNCHANGED fact
    BY <1>0, <1>1, <2>0, <2>1, <2>2, <2>3, OneEnds DEF Settles, Recorded
  <2>4. CASE fact' = Touched(s, d) /\ FactAdmits(s, d)
    <3>1. fact'[d].phase # "none" /\ (fact'[d].phase = "prepared" \/ fact'[d].phase = fact[d].phase)
      BY <1>2, <2>4
    <3>2. Touches(s, d) BY <1>2, <1>3, <2>4, <3>1
    <3> QED BY <1>0, <1>1, <1>2, <2>0, <2>1, <2>2, <2>4, <3>1, <3>2, OneEnds DEF Settles, Recorded
  <2> QED BY <1>7, <2>3, <2>4 DEF Refuse
<1> QED BY <1>4, <1>5, <1>6, <1>7 DEF RegenerateSteps

\* Every step is of one of the eight kinds, and keeps the types of the executions.
LEMMA Moves ==
  ASSUME Typed, [Next]_vars
  PROVE  /\ job' \in [Sessions -> Job]
         /\ \/ Settles \/ Abandons \/ Promotes
            \/ \E s \in Sessions : Persists(s) \/ Enters(s) \/ Recovers(s) \/ Commits(s)
            \/ \E s \in Sessions, d \in issued \cup {0} : Starts(s, d)
<1> DEFINE Goal == /\ job' \in [Sessions -> Job]
                   /\ \/ Settles \/ Abandons \/ Promotes
                      \/ \E s \in Sessions : Persists(s) \/ Enters(s) \/ Recovers(s) \/ Commits(s)
                      \/ \E s \in Sessions, d \in issued \cup {0} : Starts(s, d)
<1>0. /\ job \in [Sessions -> Job] /\ fact \in [Ids -> Fact] /\ born \in IdOrNone
      /\ pending \in issued \cup {0} /\ issued \subseteq Ids /\ inputs \in Versions
      /\ runs \in Nat /\ runs <= MaxRuns /\ runFile \in IdOrNone /\ formal \in IdOrNone
      /\ pending \in IdOrNone /\ 0 \in IdOrNone /\ 0 \notin issued
  BY Facts, DraftLifecycleAssumption DEF Runs, IdOrNone
<1>1. ASSUME NEW s \in Sessions, NEW act \in Actions, NEW d \in issued \cup {0},
             NEW replaces \in BOOLEAN, act # "plan" => d # 0, Enter(s, act, d, replaces)
      PROVE  Goal
  <2> DEFINE x == [Idle EXCEPT !.st = "entered", !.run = runs + 1, !.act = act, !.on = d,
                               !.locks = (act # "plan")]
  <2>1. runs + 1 \in Runs /\ d \in IdOrNone /\ runs < MaxRuns
    BY <1>0, <1>1, DraftLifecycleAssumption DEF Enter, Runs, Ids, IdOrNone
  <2>2. x \in Job BY <2>1, IdleType DEF Job
  <2>3. /\ x.st = "entered" /\ x.run = runs + 1 /\ x.act = act /\ x.on = d
        /\ x.next = 0 /\ x.parent = 0 /\ x.lineage = {}
    BY DEF Idle
  <2>4. job' = [job EXCEPT ![s] = x] BY <1>1 DEF Enter
  <2> HIDE DEF x
  <2>5. Enters(s)
    BY <1>0, <1>1, <2>1, <2>3, <2>4 DEF Enter, Admitted, Enters, Others
  <2> QED BY <1>0, <2>2, <2>4, <2>5
<1>2. ASSUME NEW s \in Sessions, NEW kind \in {"business", "native"}, Recover(s, kind)
      PROVE  Goal
  <2> DEFINE b == [Idle EXCEPT !.st = "entered", !.run = runs + 1, !.locks = TRUE]
             n == [job[s] EXCEPT !.st = "entered", !.run = runs + 1, !.locks = TRUE,
                                 !.lineage = job[s].lineage \cup {job[s].run}]
  <2>1. runs + 1 \in Runs /\ runs < MaxRuns /\ job[s] \in Job
    BY <1>0, <1>2, DraftLifecycleAssumption DEF Recover, Runs
  <2>2. b \in Job /\ n \in Job BY <2>1, IdleType DEF Job
  <2>3. /\ b.st = "entered" /\ b.run = runs + 1 /\ b.act = "plan" /\ b.on = 0
        /\ b.next = 0 /\ b.parent = 0 /\ b.lineage = {}
    BY DEF Idle
  <2>4. /\ n.st = "entered" /\ n.run = runs + 1 /\ n.act = job[s].act /\ n.on = job[s].on
        /\ n.next = job[s].next /\ n.parent = job[s].parent
        /\ n.lineage = job[s].lineage \cup {job[s].run}
    BY <2>1 DEF Job
  <2>5. job' = [job EXCEPT ![s] = b] \/ job' = [job EXCEPT ![s] = n]
    <3>1. CASE kind = "business"
      BY <1>2, <3>1 DEF Recover
    <3>2. CASE kind = "native"
      <4>1. [job[s] EXCEPT !.st = "entered", !.run = runs + 1, !.locks = TRUE,
                           !.lineage = job[s].lineage \cup {job[s].run}] = n
        BY <2>1 DEF Job
      <4> QED BY <1>2, <3>2, <4>1 DEF Recover
    <3> QED BY <3>1, <3>2
  <2>6. job[s].st = "failed" /\ job[s].next = 0
    BY <1>2 DEF Recover, Typed, Jobs, Planning
  <2> HIDE DEF b, n
  <2>7. Recovers(s)
    <3>1. /\ Others(s) /\ job' \in [Sessions -> Job] /\ job'[s] \in {b, n}
      BY <1>0, <2>2, <2>5 DEF Others
    <3>2. /\ job'[s].st = "entered" /\ job'[s].run = runs + 1
          /\ job'[s].next = 0 /\ job'[s].parent \in {0, job[s].parent}
          /\ \/ job'[s].act = "plan" /\ job'[s].on = 0 /\ job'[s].lineage = {}
             \/ /\ job'[s].act = job[s].act /\ job'[s].on = job[s].on
                /\ job'[s].lineage = job[s].lineage \cup {job[s].run}
      BY <2>3, <2>4, <2>6, <3>1
    <3> QED BY <1>2, <2>1, <2>6, <3>1, <3>2 DEF Recover, Recovers
  <2> QED BY <1>0, <2>2, <2>5, <2>7
<1>3. ASSUME NEW s \in Sessions, Interrupt(s) PROVE Goal
  <2>1. job' \in [Sessions -> Job] /\ Ends
    BY <1>0, <1>3, FailEffect, OneEnds DEF Interrupt, Running
  <2> QED BY <1>0, <1>3, <2>1 DEF Interrupt, Settles, Recorded, files
<1>4. ASSUME NEW s \in Sessions, Stop(s) PROVE Goal
  <2> DEFINE x == [Idle EXCEPT !.st = "failed", !.run = job[s].run]
  <2>1. x \in Job BY <1>0, IdleType DEF Job
  <2>2. /\ x.act = "plan" /\ x.next = 0 /\ x.parent = 0 /\ x.lineage = {} /\ x.st = "failed"
        /\ x.run = job[s].run /\ x.on = 0
    BY DEF Idle
  <2>3. job' = [job EXCEPT ![s] = x] BY <1>4 DEF Stop
  <2> HIDE DEF x
  <2>4. job' \in [Sessions -> Job] /\ Ends
    BY <1>0, <1>4, <2>1, <2>2, <2>3 DEF Stop, Ends, Over
  <2> QED BY <1>0, <1>4, <2>4 DEF Stop, Settles, Recorded, files
<1>5. ASSUME NEW s \in Sessions, End(s) PROVE Goal
  <2> DEFINE x == [Idle EXCEPT !.st = "ended", !.run = job[s].run, !.mark = files]
  <2>1. x \in Job BY <1>0, IdleType DEF Job, files
  <2>2. /\ x.act = "plan" /\ x.next = 0 /\ x.parent = 0 /\ x.lineage = {} /\ x.st = "ended"
        /\ x.run = job[s].run /\ x.on = 0
    BY DEF Idle
  <2>3. job' = [job EXCEPT ![s] = x] BY <1>5 DEF End
  <2> HIDE DEF x
  <2>4. job' \in [Sessions -> Job] /\ Ends /\ Over(s) /\ job'[s].st = "ended"
        /\ job'[s].run = job[s].run
    BY <1>0, <1>5, <2>1, <2>2, <2>3 DEF End, Ends, Over
  <2> QED BY <1>0, <1>5, <2>4 DEF End, Settles, Recorded, files
<1>6. ASSUME Revise \/ UNCHANGED vars PROVE Goal
  <2>1. /\ inputs' \in Versions /\ UNCHANGED <<job, pending, runFile, ended, fact>>
        /\ UNCHANGED Recorded
    BY <1>0, <1>6, DraftLifecycleAssumption DEF Revise, vars, files, Versions, Recorded
  <2> QED BY <1>0, <2>1 DEF Settles, Ends
<1>7. ASSUME NEW s \in Sessions, Plan(s) PROVE Goal
  <2>1. job' \in [Sessions -> Job] /\ Starts(s, 0)
    BY <1>0, <1>7, StartMoves DEF Plan
  <2> QED BY <2>1
<1>8. ASSUME NEW s \in Sessions, NEW last \in BOOLEAN, Commit(s, last) PROVE Goal
  <2> DEFINE x == [job[s] EXCEPT !.st = IF last THEN "persisting" ELSE job[s].st]
  <2>1. x \in Job BY <1>0 DEF Job
  <2>2. /\ x.st \in {"persisting", job[s].st} /\ x.next = job[s].next /\ x.parent = job[s].parent
        /\ x.act = job[s].act /\ x.on = job[s].on /\ x.run = job[s].run
        /\ x.lineage = job[s].lineage
    BY <1>0 DEF Job
  <2>3. job' = [job EXCEPT ![s] = x] BY <1>8 DEF Commit
  <2> HIDE DEF x
  <2>4. Commits(s) BY <1>0, <1>8, <2>2, <2>3 DEF Commit, Commits, Others
  <2> QED BY <1>0, <2>1, <2>3, <2>4
<1>9. ASSUME NEW s \in Sessions, Persist(s) PROVE Goal
  <2> DEFINE n == job[s].next
             d == job[s].parent
  <2>0. n \in Ids /\ n \in IdOrNone /\ job[s].st = "persisting" /\ d \in issued \cup {0}
    BY <1>9, Facts DEF Persist, Typed, Jobs, Planning
  <2>1. UNCHANGED <<formal, tombstone, runFile, inputs, drafts, born, runs, ended,
                    confirmed, abandoned>>
    BY <1>9 DEF Persist
  <2>2. CASE Fail(s) /\ UNCHANGED <<pending, fact, issued>>
    BY <1>0, <2>0, <2>1, <2>2, FailEffect, OneEnds DEF Settles, Recorded
  <2>3. CASE /\ pending' = n /\ issued' = issued \cup {n}
             /\ Show(s, n) \/ Fail(s)
             /\ \/ UNCHANGED fact
                \/ d # 0 /\ fact' = [fact EXCEPT ![d].phase = "committed"]
    <3>1. job' \in [Sessions -> Job] /\ Others(s) /\ (Over(s) \/ Kept(s))
      <4> HIDE DEF n
      <4> QED BY <1>0, <2>0, <2>3, ShowEffect, FailEffect
    <3>2. Persists(s) BY <2>0, <2>1, <2>3, <3>1 DEF Persists, Planning
    <3> QED BY <3>1, <3>2
  <2> QED BY <1>9, <2>2, <2>3 DEF Persist
<1>10. ASSUME NEW s \in Sessions, Regenerate(s) PROVE Goal
  <2>1. /\ job[s].on \in issued /\ job[s].st = "entered" /\ job[s].act = "regenerate"
        /\ RegenerateSteps(s, job[s].on)
    BY <1>10, Facts DEF Regenerate, Typed, Jobs
  <2> QED BY <2>1, RegenerateMoves
<1>11. ASSUME NEW s \in Sessions, Confirm(s) PROVE Goal
  <2> DEFINE d == job[s].on
  <2>0. d \in issued /\ d # 0 /\ job[s].st = "entered" /\ job[s].act = "confirm"
    BY <1>11, Facts DEF Confirm, Typed, Jobs
  <2> HIDE DEF d
  <2>1. CASE /\ ConfirmAgain(s, d) \/ ConfirmStale(s, d)
             /\ UNCHANGED <<tombstone, inputs, runs, ended, issued, abandoned>>
    <3>1. /\ pending' \in {0, pending} /\ UNCHANGED Recorded
          /\ UNCHANGED <<runFile, inputs, ended, fact>>
      BY <2>1 DEF ConfirmAgain, ConfirmStale, Recorded
    <3>2. job' \in [Sessions -> Job] /\ Others(s) /\ (Over(s) \/ Kept(s))
      <4>1. CASE ConfirmAgain(s, d)
        BY <1>0, <4>1, IdleEffect DEF ConfirmAgain
      <4>2. CASE ConfirmStale(s, d)
        BY <1>0, <2>1, <3>1, <4>2, StaleEffect DEF ConfirmStale
      <4> QED BY <2>1, <4>1, <4>2
    <3> QED BY <1>0, <2>0, <3>1, <3>2, OneEnds DEF Settles
  <2>2. CASE Promote(s, d) /\ UNCHANGED <<tombstone, inputs, runs, ended, issued, abandoned>>
    <3>1. job' \in [Sessions -> Job] /\ Others(s) /\ (Over(s) \/ Kept(s))
      BY <1>0, <2>2, IdleEffect, FailEffect DEF Promote
    <3>2. Ends BY <2>0, <3>1, OneEnds
    <3>3. Promotes
      BY <2>0, <2>2, <3>2 DEF Promote, Promotes, Current, Outdated, Decided, d
    <3> QED BY <3>1, <3>3
  <2>3. CASE fact[d].phase = "none" /\ RegenerateSteps(s, d)
    BY <2>0, <2>3, RegenerateMoves
  <2>4. CASE /\ UNCHANGED <<files, tombstone, drafts, born, fact, runs, ended, issued,
                            confirmed, abandoned>>
             /\ Stale(s)
    <3>1. /\ pending' = pending /\ UNCHANGED Recorded
          /\ UNCHANGED <<runFile, inputs, ended, fact>>
      BY <2>4 DEF files, Recorded
    <3>2. job' \in [Sessions -> Job] /\ Others(s) /\ (Over(s) \/ Kept(s))
      BY <1>0, <2>4, <3>1, StaleEffect
    <3> QED BY <1>0, <2>0, <3>1, <3>2, OneEnds DEF Settles
  <2> QED BY <1>11, <2>1, <2>2, <2>3, <2>4 DEF Confirm, d
<1>12. ASSUME NEW d \in Ids, Abandon(d) PROVE Goal
  <2>0. d # 0 /\ UNCHANGED <<formal, inputs, drafts, born, fact, runs, ended, issued, confirmed>>
    BY <1>12 DEF Abandon, Ids
  <2>1. CASE /\ pending = d /\ ~Decided(d)
             /\ tombstone' = d /\ abandoned' = abandoned \cup {d} /\ job' = Closed(d)
             /\ pending' \in {0, pending} /\ runFile' \in {0, runFile}
    <3>1. job' \in [Sessions -> Job] BY <1>0, <2>1, IdleType DEF Closed
    <3>2. /\ Idle.act = "plan" /\ Idle.next = 0 /\ Idle.parent = 0 /\ Idle.lineage = {}
          /\ Idle.st = "idle" /\ Idle.run = 0 /\ Idle.on = 0
      BY DEF Idle
    <3>3. Ends BY <2>1, <3>2 DEF Closed, Ends, Over
    <3> QED BY <2>0, <2>1, <3>1, <3>3 DEF Abandons
  <2>2. CASE pending' \in {0, pending} /\ runFile' \in {0, runFile}
             /\ UNCHANGED <<tombstone, abandoned, job>>
    BY <1>0, <2>0, <2>2 DEF Settles, Ends, Recorded
  <2> QED BY <1>12, <2>1, <2>2 DEF Abandon, Dropped
<1>13. ASSUME NEW s \in Sessions, Withdraw(s) PROVE Goal
  <2>1. job' \in [Sessions -> Job] /\ Ends
    BY <1>0, <1>13, IdleEffect, OneEnds DEF Withdraw
  <2> QED BY <1>0, <1>13, <2>1 DEF Withdraw, Dropped, Settles, Recorded
<1> QED
  BY <1>0, <1>1, <1>2, <1>3, <1>4, <1>5, <1>6, <1>7, <1>8, <1>9, <1>10, <1>11, <1>12, <1>13
  DEF Next, Actions

------------------------------------------------------------------------------
(* The parts of the invariant *)

\* Nothing was planned yet.
LEMMA IInvInit ==
  ASSUME Init PROVE IInv
<1>1. /\ Idle.st = "idle" /\ Idle.run = 0 /\ Idle.act = "plan" /\ Idle.on = 0
      /\ Idle.next = 0 /\ Idle.parent = 0 /\ Idle.lineage = {}
  BY DEF Idle
<1>2. /\ pending = 0 /\ formal = 0 /\ tombstone = 0 /\ runFile = 0 /\ inputs = 0 /\ born = 0
      /\ drafts = [d \in {} |-> 0] /\ \A s \in Sessions : job[s] = Idle
      /\ job \in [Sessions -> {Idle}]
      /\ fact = [d \in Ids |-> [phase |-> "none", next |-> 0, run |-> 0]]
      /\ runs = 0 /\ ended = {} /\ issued = {} /\ confirmed = {} /\ abandoned = {}
  BY DEF Init
<1>3. 0 \in IdOrNone /\ 0 \in Runs /\ 0 \in Versions /\ 1..0 = {}
  BY DraftLifecycleAssumption DEF IdOrNone, Runs, Versions
<1>4. \A d \in Ids : fact[d].phase = "none" /\ fact[d].next = 0 /\ fact[d].run = 0
  BY <1>2
<1>5. TypeOK
  <2>1. job \in [Sessions -> Job] BY <1>2, IdleType
  <2>2. fact \in [Ids -> Fact] BY <1>2, <1>3 DEF Fact
  <2>3. drafts \in [1..born -> Draft] BY <1>2, <1>3
  <2> QED BY <1>2, <1>3, <2>1, <2>2, <2>3 DEF TypeOK
<1>6. Typed BY <1>1, <1>2, <1>4, <1>5 DEF Typed, Named, Jobs, Planning
<1>7. Decisions /\ Bases
  BY <1>2, <1>3 DEF Decisions, AbandonedStaysOut, Bases, NoFork
<1>8. RunsOwned BY <1>1, <1>2, <1>4 DEF RunsOwned, Own
<1>9. Regenerations
  BY <1>1, <1>2, <1>3, <1>4
  DEF Regenerations, ConsumedStaysOut, CommittedWasWritten, Planning
<1>10. Successors BY <1>2 DEF Successors, OneSuccessor
<1> QED BY <1>6, <1>7, <1>8, <1>9, <1>10 DEF IInv

\* The end of an execution leaves nothing it was planning.
LEMMA EndsJobs ==
  ASSUME Typed, Ends, UNCHANGED <<born, issued>>
  PROVE  Jobs'
BY DEF Typed, Jobs, Ends, Over, Kept, Planning

\* The types, the names and the executions: one step per kind of step.
LEMMA TypedStep ==
  ASSUME Typed, [Next]_vars
  PROVE  Typed'
<1>0. /\ fact \in [Ids -> Fact] /\ drafts \in [1..born -> Draft] /\ born \in Nat
      /\ born <= MaxDrafts /\ pending \in IdOrNone /\ formal \in IdOrNone
      /\ tombstone \in IdOrNone /\ runFile \in IdOrNone /\ inputs \in Versions
      /\ runs \in Runs /\ runs \in Nat /\ issued \subseteq 1..born /\ issued \subseteq Ids
      /\ 0 \notin issued /\ pending \in issued \cup {0} /\ ended \subseteq Runs
      /\ MaxDrafts \in Nat /\ MaxRuns \in Nat
      /\ confirmed \subseteq issued /\ abandoned \subseteq issued
      /\ confirmed \subseteq Ids /\ abandoned \subseteq Ids
      /\ born \in IdOrNone /\ 0 \in IdOrNone
  BY Facts, DraftLifecycleAssumption DEF Typed, Named, Runs, IdOrNone
<1>1. \A s \in Sessions :
        /\ job[s] \in Job /\ job[s].on \in issued \cup {0} /\ job[s].parent \in issued \cup {0}
        /\ job[s].run \in Runs /\ job[s].next \in IdOrNone
  BY Facts
<1>2. job' \in [Sessions -> Job] BY Moves
<1>3. Named BY DEF Typed
<1>4. Jobs BY DEF Typed
<1>5. CASE Settles
  <2>1. fact' \in [Ids -> Fact] /\ \A d \in Ids : /\ fact'[d].next \in 0..born
                                                  /\ fact'[d].phase # "none" => d \in issued
    BY <1>0, <1>3, <1>5 DEF Settles, Touches, Named
  <2>2. ended' \subseteq Runs BY <1>0, <1>1, <1>5 DEF Settles
  <2>3. TypeOK' BY <1>0, <1>2, <1>5, <2>1, <2>2 DEF Settles, Recorded, TypeOK
  <2>4. Named' BY <1>0, <1>3, <1>5, <2>1 DEF Settles, Recorded, Named
  <2>5. Jobs' BY <1>5, EndsJobs DEF Settles, Recorded
  <2> QED BY <2>3, <2>4, <2>5 DEF Typed
<1>6. CASE Abandons
  <2>1. TypeOK' BY <1>0, <1>2, <1>6 DEF Abandons, TypeOK
  <2>2. Named' BY <1>0, <1>3, <1>6 DEF Abandons, Named
  <2>3. Jobs' BY <1>6, EndsJobs DEF Abandons
  <2> QED BY <2>1, <2>2, <2>3 DEF Typed
<1>7. CASE Promotes
  <2>1. TypeOK' BY <1>0, <1>2, <1>7 DEF Promotes, TypeOK
  <2>2. Named' BY <1>0, <1>3, <1>7 DEF Promotes, Named
  <2>3. Jobs' BY <1>7, EndsJobs DEF Promotes
  <2> QED BY <2>1, <2>2, <2>3 DEF Typed
<1>8. ASSUME NEW s \in Sessions, Persists(s) PROVE Typed'
  <2>1. job[s].next \in (1..born) \ issued /\ job[s].next \in Ids
    BY <1>0, <1>4, <1>8 DEF Persists, Jobs, Ids
  <2>2. fact' \in [Ids -> Fact] /\ \A d \in Ids : /\ fact'[d].next = fact[d].next
                                                  /\ fact'[d].phase # "none" => d \in issued
    <3>1. CASE UNCHANGED fact BY <1>0, <1>3, <3>1 DEF Named
    <3>2. CASE /\ job[s].parent # 0
               /\ fact' = [fact EXCEPT ![job[s].parent].phase = "committed"]
      BY <1>0, <1>1, <1>3, <3>2 DEF Named, Fact
    <3> QED BY <1>8, <3>1, <3>2 DEF Persists
  <2>3. TypeOK' BY <1>0, <1>2, <1>8, <2>1, <2>2 DEF Persists, TypeOK, Ids, IdOrNone
  <2>4. Named' BY <1>0, <1>3, <1>8, <2>1, <2>2 DEF Persists, Named
  <2>5. Jobs'
    <3>1. /\ job'[s].next = 0 /\ job'[s].parent = 0 /\ job'[s].on \in issued' \cup {0}
          /\ job'[s].st \in {"idle", "awaiting", "failed", "ended"}
          /\ job'[s].st # "idle" => job'[s].run # 0
          /\ job'[s].act # "plan" => job'[s].on # 0
      BY <1>1, <1>4, <1>8 DEF Persists, Jobs, Over, Kept, Planning
    <3>2. \A t \in Sessions \ {s} :
            job'[t] = job[t] /\ (job[t].next # 0 => job[t].next # job[s].next)
      BY <1>4, <1>8 DEF Persists, Others, Jobs
    <3>3. born' = born /\ issued' = issued \cup {job[s].next} BY <1>8 DEF Persists
    <3>4. ASSUME NEW t \in Sessions
          PROVE  /\ job'[t].st # "idle" => job'[t].run # 0
                 /\ job'[t].on \in issued' \cup {0} /\ job'[t].parent \in issued' \cup {0}
                 /\ job'[t].act # "plan" => job'[t].on # 0
                 /\ IF Planning(t)' THEN job'[t].next \in (1..born') \ issued'
                                   ELSE job'[t].next = 0
      <4>1. CASE t = s BY <3>1, <4>1 DEF Planning
      <4>2. CASE t # s
        <5>1. /\ job[t].st # "idle" => job[t].run # 0
              /\ job[t].act # "plan" => job[t].on # 0
              /\ IF Planning(t) THEN job[t].next \in (1..born) \ issued ELSE job[t].next = 0
          BY <1>4 DEF Jobs
        <5>2. Planning(t) => job[t].next # 0 BY <1>0, <5>1
        <5> QED BY <1>1, <3>2, <3>3, <4>2, <5>1, <5>2 DEF Planning
      <4> QED BY <4>1, <4>2
    <3>5. \A t, u \in Sessions : job'[t].next # 0 /\ job'[t].next = job'[u].next => t = u
      BY <1>4, <3>1, <3>2 DEF Jobs
    <3> QED BY <3>4, <3>5 DEF Jobs
  <2> QED BY <2>3, <2>4, <2>5 DEF Typed
<1>9. ASSUME NEW s \in Sessions, Enters(s) PROVE Typed'
  <2>1. runs + 1 \in Runs /\ ended' \subseteq Runs
    BY <1>0, <1>9 DEF Enters, Runs
  <2>2. TypeOK' BY <1>0, <1>2, <1>9, <2>1 DEF Enters, TypeOK, files
  <2>3. Named' BY <1>0, <1>3, <1>9 DEF Enters, Named, files
  <2>4. Jobs' BY <1>0, <1>1, <1>4, <1>9 DEF Enters, Jobs, Others, Planning
  <2> QED BY <2>2, <2>3, <2>4 DEF Typed
<1>10. ASSUME NEW s \in Sessions, Recovers(s) PROVE Typed'
  <2>1. runs + 1 \in Runs BY <1>0, <1>10 DEF Recovers, Runs
  <2>2. TypeOK' BY <1>0, <1>2, <1>10, <2>1 DEF Recovers, TypeOK, files
  <2>3. Named' BY <1>0, <1>3, <1>10 DEF Recovers, Named, files
  <2>4. Jobs' BY <1>0, <1>1, <1>4, <1>10 DEF Recovers, Jobs, Others, Planning
  <2> QED BY <2>2, <2>3, <2>4 DEF Typed
<1>11. ASSUME NEW s \in Sessions, Commits(s) PROVE Typed'
  <2>1. job[s].next \in 1..born BY <1>4, <1>11 DEF Commits, Jobs, Planning
  <2>2. TypeOK' BY <1>0, <1>1, <1>2, <1>11 DEF Commits, TypeOK
  <2>3. Named' BY <1>0, <1>3, <1>11, <2>1 DEF Commits, Named
  <2>4. Jobs' BY <1>0, <1>1, <1>4, <1>11 DEF Commits, Jobs, Others, Planning
  <2> QED BY <2>2, <2>3, <2>4 DEF Typed
<1>12. ASSUME NEW s \in Sessions, NEW d \in issued \cup {0}, Starts(s, d) PROVE Typed'
  <2>1. born + 1 \in IdOrNone /\ born + 1 \in Ids /\ d \in IdOrNone /\ 1..born \subseteq 1..(born + 1)
    BY <1>0, <1>12 DEF Starts, IdOrNone, Ids
  <2>2. job[s].run \in Runs \ {0}
    BY <1>1, <1>4, <1>12 DEF Starts, Jobs
  <2>3. drafts' \in [1..born' -> Draft]
    <3>1. [session |-> s, run |-> job[s].run, base |-> formal, inputs |-> inputs,
           parent |-> d] \in Draft
      BY <1>0, <2>1, <2>2 DEF Draft
    <3>2. \A n \in 1..(born + 1) : n <= born => drafts[n] \in Draft
      BY <1>0
    <3> QED BY <1>0, <1>12, <3>1, <3>2 DEF Starts
  <2>4. fact' \in [Ids -> Fact] /\ \A e \in Ids : /\ fact'[e].next \in 0..(born + 1)
                                                  /\ fact'[e].phase # "none" => e \in issued
    BY <1>0, <1>3, <1>12 DEF Starts, Touches, Named
  <2>5. TypeOK' BY <1>0, <1>2, <1>12, <2>1, <2>3, <2>4 DEF Starts, TypeOK
  <2>6. Named' BY <1>0, <1>3, <1>12, <2>1, <2>4 DEF Starts, Named
  <2>7. Jobs'
    <3>1. /\ job'[s].st = "planning" /\ job'[s].next = born + 1 /\ job'[s].parent = d
          /\ job'[s].act = job[s].act /\ job'[s].on = job[s].on /\ job'[s].run = job[s].run
          /\ job[s].run # 0 /\ born' = born + 1 /\ issued' = issued
          /\ born + 1 \in (1..born') \ issued
      BY <1>0, <1>12, <2>2 DEF Starts
    <3>2. \A t \in Sessions \ {s} : job'[t] = job[t] BY <1>12 DEF Starts, Others
    <3>3. \A t \in Sessions : job[t].next \in 0..born /\ job[t].next # born + 1
      BY <1>0, <1>4 DEF Jobs
    <3>4. ASSUME NEW t \in Sessions
          PROVE  /\ job'[t].st # "idle" => job'[t].run # 0
                 /\ job'[t].on \in issued' \cup {0} /\ job'[t].parent \in issued' \cup {0}
                 /\ job'[t].act # "plan" => job'[t].on # 0
                 /\ IF Planning(t)' THEN job'[t].next \in (1..born') \ issued'
                                   ELSE job'[t].next = 0
      <4>1. CASE t = s BY <1>1, <1>4, <3>1, <4>1 DEF Planning, Jobs
      <4>2. CASE t # s BY <1>1, <1>4, <2>1, <3>1, <3>2, <4>2 DEF Planning, Jobs
      <4> QED BY <4>1, <4>2
    <3>5. \A t, u \in Sessions : job'[t].next # 0 /\ job'[t].next = job'[u].next => t = u
      BY <1>4, <3>1, <3>2, <3>3 DEF Jobs
    <3> QED BY <3>4, <3>5 DEF Jobs
  <2> QED BY <2>5, <2>6, <2>7 DEF Typed
<1> QED BY <1>5, <1>6, <1>7, <1>8, <1>9, <1>10, <1>11, <1>12, Moves

\* Only the undecided pending draft is decided, and a draft is written under an
\* id nobody decided about.
LEMMA DecisionsStep ==
  ASSUME Typed, Decisions, [Next]_vars
  PROVE  Decisions'
<1>0. /\ abandoned \cap confirmed = {} /\ 0 \notin abandoned /\ 0 \notin confirmed
      /\ pending \in abandoned => tombstone = pending
      /\ pending \in confirmed => formal = pending
      /\ confirmed \subseteq issued /\ abandoned \subseteq issued
  BY Facts DEF Decisions, AbandonedStaysOut, Typed, Named
<1>1. CASE Settles \/ Abandons \/ Promotes
  BY <1>0, <1>1
  DEF Settles, Abandons, Promotes, Recorded, Decided, Decisions, AbandonedStaysOut
<1>2. ASSUME NEW s \in Sessions, Persists(s) PROVE Decisions'
  <2>1. job[s].next \notin issued
    BY <1>2 DEF Persists, Typed, Jobs
  <2> QED BY <1>0, <1>2, <2>1 DEF Persists, Decisions, AbandonedStaysOut
<1>3. ASSUME NEW s \in Sessions, Enters(s) \/ Recovers(s) \/ Commits(s) PROVE Decisions'
  BY <1>0, <1>3 DEF Enters, Recovers, Commits, files, Decisions, AbandonedStaysOut
<1>4. ASSUME NEW s \in Sessions, NEW d \in issued \cup {0}, Starts(s, d) PROVE Decisions'
  BY <1>0, <1>4 DEF Starts, Decisions, AbandonedStaysOut
<1> QED BY <1>1, <1>2, <1>3, <1>4, Moves

\* A promotion asks for the formal plan the draft was planned from, and becomes
\* the formal plan, which no confirmed draft was planned from yet.
LEMMA BasesStep ==
  ASSUME Typed, Decisions, Bases, [Next]_vars
  PROVE  Bases'
<1>0. /\ confirmed \subseteq issued /\ issued \subseteq 1..born /\ born \in Nat
      /\ 0 \notin issued /\ pending \in issued \cup {0}
      /\ formal \in confirmed \cup {0}
      /\ pending \in confirmed => formal = pending
  BY Facts DEF Decisions, Typed, Named
<1>1. CASE Settles \/ Abandons
  BY <1>1 DEF Settles, Abandons, Recorded, Bases, NoFork
<1>2. CASE Promotes
  <2>1. /\ pending \in 1..born /\ pending \notin confirmed /\ drafts[pending].base = formal
        /\ formal' = pending /\ confirmed' = confirmed \cup {pending} /\ formal # pending
        /\ pending # 0 /\ UNCHANGED <<drafts, born>>
    BY <1>0, <1>2 DEF Promotes, Decided
  <2> QED BY <1>0, <2>1 DEF Bases, NoFork
<1>3. ASSUME NEW s \in Sessions, Persists(s) \/ Enters(s) \/ Recovers(s) \/ Commits(s)
      PROVE  Bases'
  BY <1>3 DEF Persists, Enters, Recovers, Commits, files, Bases, NoFork
<1>4. ASSUME NEW s \in Sessions, NEW d \in issued \cup {0}, Starts(s, d) PROVE Bases'
  <2>1. /\ UNCHANGED <<formal, confirmed>> /\ born' = born + 1
        /\ \A n \in 1..born : drafts'[n] = drafts[n]
        /\ drafts'[born + 1].base = formal
    BY <1>0, <1>4 DEF Starts
  <2>2. \A n \in 1..born' : n \in 1..born \/ n = born + 1
    BY <1>0, <2>1
  <2>3. \A n \in confirmed' : drafts'[n] = drafts[n]
    BY <1>0, <2>1
  <2> QED BY <1>0, <2>1, <2>2, <2>3 DEF Bases, NoFork
<1> QED BY <1>1, <1>2, <1>3, <1>4, Moves

\* The end of executions gives no session a run it did not have.
LEMMA EndsOwn ==
  ASSUME Ends, NEW s \in Sessions
  PROVE  Own(s)' \subseteq Own(s)
BY DEF Ends, Over, Kept, Own

\* Runs are numbered as they start, so a new one is nobody's; a run ends with
\* the execution that has it.
LEMMA RunsOwnedStep ==
  ASSUME Typed, RunsOwned, [Next]_vars
  PROVE  RunsOwned'
<1>0. /\ runs \in Nat /\ fact \in [Ids -> Fact] /\ ended \cap {0} = {}
      /\ \A r \in ended : r <= runs
      /\ \A d \in Ids : fact[d].run <= runs
  BY Facts, DraftLifecycleAssumption DEF RunsOwned, Runs
<1>1. \A s \in Sessions :
        /\ \A r \in Own(s) : r <= runs /\ r # 0
        /\ job[s].run \notin job[s].lineage /\ ended \cap job[s].lineage = {}
        /\ job[s].run \in ended => job[s].st = "ended"
        /\ \A t \in Sessions \ {s} : Own(s) \cap Own(t) = {}
  BY DEF RunsOwned
<1>2. \A s \in Sessions : job[s].run \in Nat /\ (job[s].st # "idle" => job[s].run # 0)
  BY Facts, DraftLifecycleAssumption DEF Runs, Typed, Jobs
<1>3. /\ \A s \in Sessions : \A r \in Own(s) : r \in Nat
      /\ \A r \in ended : r \in Nat
      /\ \A d \in Ids : fact[d].run \in Nat
  BY Facts, DraftLifecycleAssumption DEF Own, Runs, Fact
<1>4. CASE Settles \/ Abandons \/ Promotes
  <2>1. Ends /\ runs' = runs BY <1>4 DEF Settles, Abandons, Promotes, Recorded
  <2>2. \A s \in Sessions : Own(s)' \subseteq Own(s)
    BY <2>1, EndsOwn
  <2>3. \A s \in Sessions : /\ job'[s].run \notin job'[s].lineage
                            /\ job'[s].lineage \subseteq job[s].lineage
    BY <1>1, <2>1 DEF Ends, Over, Kept
  <2>4. \A d \in Ids : fact'[d].run <= runs'
    <3>1. CASE UNCHANGED fact BY <1>0, <2>1, <3>1
    <3>2. ASSUME NEW s \in Sessions, NEW d \in Ids, Touches(s, d) PROVE \A e \in Ids : fact'[e].run <= runs'
      <4>1. job[s].run <= runs BY <1>1, <1>2, <3>2 DEF Own, Touches
      <4> QED BY <1>0, <2>1, <3>2, <4>1 DEF Touches
    <3> QED BY <1>4, <3>1, <3>2 DEF Settles, Abandons, Promotes
  <2>5. /\ ended' \cap {0} = {} /\ \A r \in ended' : r <= runs'
        /\ \A s \in Sessions : /\ ended' \cap job'[s].lineage = {}
                               /\ job'[s].run \in ended' => job'[s].st = "ended"
    <3>1. \A s \in Sessions : job'[s].run \in ended => job'[s].st = "ended"
      BY <1>0, <1>1, <2>1 DEF Ends, Over, Kept
    <3>2. CASE UNCHANGED ended
      BY <1>0, <1>1, <2>1, <2>3, <3>1, <3>2
    <3>3. ASSUME NEW u \in Sessions, ended' = ended \cup {job[u].run}, job[u].st # "idle",
                 Over(u), job'[u].st = "ended"
          PROVE  /\ ended' \cap {0} = {} /\ \A r \in ended' : r <= runs'
                 /\ \A s \in Sessions : /\ ended' \cap job'[s].lineage = {}
                                        /\ job'[s].run \in ended' => job'[s].st = "ended"
      <4>1. job[u].run # 0 /\ job[u].run \in Own(u) BY <1>2, <3>3 DEF Own
      <4>2. \A s \in Sessions \ {u} : job[u].run \notin Own(s)
        BY <1>1, <4>1
      <4>3. \A s \in Sessions \ {u} : job[u].run \notin job'[s].lineage /\ job[u].run # job'[s].run
        BY <2>1, <4>1, <4>2 DEF Own, Ends, Over, Kept
      <4>4. job'[u].lineage = {} BY <3>3 DEF Over
      <4>5. job[u].run <= runs BY <1>1, <4>1
      <4> QED BY <1>0, <1>1, <2>1, <2>3, <3>1, <3>3, <4>1, <4>3, <4>4, <4>5
    <3> QED BY <1>4, <3>2, <3>3 DEF Settles, Abandons, Promotes
  <2> QED BY <1>1, <2>1, <2>2, <2>3, <2>4, <2>5 DEF RunsOwned
<1>5. ASSUME NEW s \in Sessions, Persists(s) PROVE RunsOwned'
  <2>1. /\ UNCHANGED <<runs, ended>> /\ \A t \in Sessions \ {s} : job'[t] = job[t]
        /\ job[s].st \in {"planning", "persisting"} /\ (Over(s) \/ Kept(s))
    BY <1>5 DEF Persists, Others, Planning
  <2>2. Own(s)' \subseteq Own(s) /\ \A t \in Sessions \ {s} : Own(t)' = Own(t)
    BY <2>1 DEF Own, Over, Kept
  <2>3. /\ job'[s].run \notin job'[s].lineage /\ job'[s].lineage \subseteq job[s].lineage
        /\ job'[s].run \notin ended
    BY <1>0, <1>1, <2>1 DEF Over, Kept
  <2>4. \A d \in Ids : fact'[d].run <= runs
    <3>1. CASE UNCHANGED fact BY <1>0, <3>1
    <3>2. CASE fact' = [fact EXCEPT ![job[s].parent].phase = "committed"]
      BY <1>0, <3>2 DEF Fact
    <3> QED BY <1>5, <3>1, <3>2 DEF Persists
  <2> QED BY <1>0, <1>1, <2>1, <2>2, <2>3, <2>4 DEF RunsOwned
<1>6. ASSUME NEW s \in Sessions, Enters(s) PROVE RunsOwned'
  <2>1. /\ runs' = runs + 1 /\ UNCHANGED fact /\ \A t \in Sessions \ {s} : job'[t] = job[t]
        /\ job'[s].run = runs + 1 /\ job'[s].lineage = {} /\ ended' \subseteq ended
    BY <1>6 DEF Enters, Others
  <2>2. Own(s)' = {runs + 1} /\ \A t \in Sessions \ {s} : Own(t)' = Own(t)
    BY <1>0, <2>1 DEF Own
  <2>3. \A t \in Sessions : \A r \in Own(t) : r <= runs' /\ r # runs + 1
    BY <1>0, <1>1, <1>3, <2>1
  <2>4. /\ job'[s].run \notin ended' /\ \A r \in ended' : r <= runs'
        /\ \A d \in Ids : fact'[d].run <= runs'
    BY <1>0, <1>3, <2>1
  <2> QED BY <1>0, <1>1, <2>1, <2>2, <2>3, <2>4 DEF RunsOwned
<1>7. ASSUME NEW s \in Sessions, Recovers(s) PROVE RunsOwned'
  <2>1. /\ runs' = runs + 1 /\ UNCHANGED <<fact, ended>>
        /\ \A t \in Sessions \ {s} : job'[t] = job[t]
        /\ job'[s].run = runs + 1 /\ job'[s].lineage \in {{}, job[s].lineage \cup {job[s].run}}
        /\ job[s].st = "failed"
    BY <1>7 DEF Recovers, Others
  <2>2. /\ Own(s)' \subseteq Own(s) \cup {runs + 1}
        /\ job'[s].lineage \subseteq Own(s) /\ \A t \in Sessions \ {s} : Own(t)' = Own(t)
    BY <1>2, <2>1 DEF Own
  <2>3. \A t \in Sessions : \A r \in Own(t) : r <= runs' /\ r # runs + 1
    BY <1>0, <1>1, <1>3, <2>1
  <2>4. job'[s].run \notin ended' /\ ended' \cap job'[s].lineage = {}
    BY <1>0, <1>1, <2>1
  <2>5. /\ \A r \in ended' : r <= runs'
        /\ \A d \in Ids : fact'[d].run <= runs'
        /\ job'[s].run \notin job'[s].lineage
    BY <1>0, <1>3, <2>1, <2>2, <2>3
  <2>6. \A r \in Own(s)' : r <= runs' /\ r # 0
    BY <1>0, <1>1, <2>1, <2>2, <2>3
  <2>7. \A t \in Sessions \ {s} : Own(s)' \cap Own(t)' = {}
    BY <1>1, <2>2, <2>3
  <2>8. ASSUME NEW t \in Sessions
        PROVE  /\ \A r \in Own(t)' : r <= runs' /\ r # 0
               /\ job'[t].run \notin job'[t].lineage /\ ended' \cap job'[t].lineage = {}
               /\ job'[t].run \in ended' => job'[t].st = "ended"
               /\ \A u \in Sessions \ {t} : Own(t)' \cap Own(u)' = {}
    <3>1. CASE t = s BY <2>4, <2>5, <2>6, <2>7, <3>1
    <3>2. CASE t # s
      <4>1. /\ job'[t] = job[t] /\ Own(t)' = Own(t) /\ ended' = ended
            /\ Own(s)' \cap Own(t)' = {}
        BY <2>1, <2>2, <2>7, <3>2
      <4>2. \A u \in Sessions \ {t} : Own(t)' \cap Own(u)' = {}
        BY <1>1, <2>2, <4>1
      <4> QED BY <1>1, <2>3, <4>1, <4>2
    <3> QED BY <3>1, <3>2
  <2>9. ended' \cap {0} = {} BY <1>0, <2>1
  <2> QED BY <2>5, <2>8, <2>9 DEF RunsOwned
<1>8. ASSUME NEW s \in Sessions, Commits(s) PROVE RunsOwned'
  <2>1. /\ UNCHANGED <<runs, ended, fact>>
        /\ \A t \in Sessions : job'[t].run = job[t].run /\ job'[t].lineage = job[t].lineage
        /\ \A t \in Sessions : job'[t].st = job[t].st \/ job[t].st # "ended"
    BY <1>8 DEF Commits, Others
  <2>2. \A t \in Sessions : Own(t)' = Own(t) BY <2>1 DEF Own
  <2> QED BY <1>0, <1>1, <2>1, <2>2 DEF RunsOwned
<1>9. ASSUME NEW s \in Sessions, NEW d \in issued \cup {0}, Starts(s, d) PROVE RunsOwned'
  <2>1. /\ UNCHANGED <<runs, ended>> /\ job[s].st = "entered"
        /\ \A t \in Sessions : job'[t].run = job[t].run /\ job'[t].lineage = job[t].lineage
        /\ \A t \in Sessions : job'[t].st = job[t].st \/ job[t].st # "ended"
    BY <1>9 DEF Starts, Others
  <2>2. \A t \in Sessions : Own(t)' = Own(t) BY <2>1 DEF Own
  <2>3. \A e \in Ids : fact'[e].run <= runs
    <3>1. job[s].run <= runs BY <1>1, <1>2, <2>1 DEF Own
    <3> QED BY <1>0, <1>9, <3>1 DEF Starts, Touches
  <2> QED BY <1>0, <1>1, <2>1, <2>2, <2>3 DEF RunsOwned
<1> QED BY <1>4, <1>5, <1>6, <1>7, <1>8, <1>9, Moves

\* A session that goes on with a regeneration is not the one that plans its
\* successor: the fact names the run of that one.
LEMMA TouchesOther ==
  ASSUME Typed, RunsOwned, Regenerations, NEW s \in Sessions, NEW d \in Ids, Touches(s, d),
         NEW t \in Sessions, Planning(t)
  PROVE  job[t].parent # d
<1> SUFFICES ASSUME job[t].parent = d PROVE FALSE
  OBVIOUS
<1>1. d # 0 /\ t # s BY Facts DEF Ids, Touches, Planning
<1>2. fact[d].phase = "consumed" /\ fact[d].run = job[t].run
  BY <1>1 DEF Regenerations
<1>3. fact[d].run \in Own(s) BY <1>2 DEF Touches, Own
<1>4. job[t].run \in Own(t) BY DEF Own, Typed, Jobs, Planning
<1> QED BY <1>1, <1>2, <1>3, <1>4 DEF RunsOwned

\* The fact of a regeneration in progress is not touched by another session, and
\* the draft it consumed is not written again: a planned draft has a new id.
LEMMA RegenerationsStep ==
  ASSUME Typed, RunsOwned, Regenerations, [Next]_vars
  PROVE  Regenerations'
<1>0. /\ fact \in [Ids -> Fact] /\ issued \subseteq 1..born /\ issued \subseteq Ids /\ born \in Nat
      /\ 0 \notin issued /\ pending \in issued \cup {0}
      /\ \A d \in Ids : d # 0 /\ (fact[d].phase # "none" => d \in issued)
  BY Facts DEF Typed, Named, Ids
<1>1. /\ \A d \in Ids : fact[d].phase \in {"consumed", "committed"} => pending # d
      /\ \A d \in Ids : fact[d].phase = "committed" => fact[d].next \in issued
  BY DEF Regenerations, ConsumedStaysOut, CommittedWasWritten
<1>2. \A d \in 1..born :
        drafts[d].parent # 0 => /\ drafts[d].parent \in issued
                                /\ fact[drafts[d].parent].phase # "none"
  BY DEF Regenerations
<1>3. \A s \in Sessions :
        Planning(s) =>
          /\ job[s].next \in 1..born /\ job[s].next \notin issued
          /\ job[s].parent \in issued \cup {0}
          /\ drafts[job[s].next].parent = job[s].parent
          /\ drafts[job[s].next].session = s /\ drafts[job[s].next].run = job[s].run
          /\ job[s].parent # 0 => /\ fact[job[s].parent].phase = "consumed"
                                  /\ fact[job[s].parent].next = job[s].next
                                  /\ fact[job[s].parent].run = job[s].run
  BY DEF Regenerations, Typed, Jobs
<1>4. CASE Settles \/ Abandons \/ Promotes
  <2>1. /\ Ends /\ UNCHANGED <<drafts, born, issued>> /\ pending' \in {0, pending}
    BY <1>4 DEF Settles, Abandons, Promotes, Recorded
  <2>2. \A t \in Sessions : Planning(t)' => Planning(t) /\ job'[t] = job[t]
    BY <2>1 DEF Ends, Over, Kept, Planning
  <2>3. CASE UNCHANGED fact
    <3>1. ConsumedStaysOut' /\ CommittedWasWritten'
      BY <1>0, <1>1, <2>1, <2>3 DEF ConsumedStaysOut, CommittedWasWritten
    <3> QED BY <1>2, <1>3, <2>1, <2>2, <2>3, <3>1 DEF Regenerations
  <2>4. ASSUME NEW s \in Sessions, NEW d \in Ids, Touches(s, d), fact'[d].next = fact[d].next,
               fact'[d].phase = "consumed" => fact[d].phase = "consumed" \/ pending' # d,
               \/ fact'[d].phase # "committed"
               \/ fact[d].phase = "committed"
               \/ fact[d].phase = "consumed" /\ fact[d].next = pending /\ pending # 0
        PROVE  Regenerations'
    <3>1. /\ fact'[d].phase # "none" /\ \A e \in Ids \ {d} : fact'[e] = fact[e]
      BY <2>4 DEF Touches
    <3>2. ConsumedStaysOut' BY <1>0, <1>1, <2>1, <2>4, <3>1 DEF ConsumedStaysOut
    <3>3. CommittedWasWritten' BY <1>0, <1>1, <2>1, <2>4, <3>1 DEF CommittedWasWritten
    <3>4. ASSUME NEW t \in Sessions, Planning(t), job[t].parent # 0
          PROVE  fact'[job[t].parent] = fact[job[t].parent]
      <4>1. job[t].parent # d BY <3>1, <2>4, <3>4, TouchesOther
      <4> QED BY <1>0, <1>3, <3>1, <3>4, <4>1
    <3>5. \A e \in 1..born : drafts[e].parent # 0 => fact'[drafts[e].parent].phase # "none"
      BY <1>0, <1>2, <3>1
    <3> QED BY <1>2, <1>3, <2>1, <2>2, <3>2, <3>3, <3>4, <3>5 DEF Regenerations
  <2> QED BY <1>4, <2>3, <2>4 DEF Settles, Abandons, Promotes
<1>5. ASSUME NEW s \in Sessions, Persists(s) PROVE Regenerations'
  <2> DEFINE n == job[s].next
             d == job[s].parent
  <2>1. /\ n \in 1..born /\ n \notin issued /\ d \in issued \cup {0}
        /\ d # 0 => fact[d].phase = "consumed" /\ fact[d].next = n /\ fact[d].run = job[s].run
        /\ pending' = n /\ issued' = issued \cup {n} /\ UNCHANGED <<drafts, born>>
        /\ Planning(s)
    BY <1>3, <1>5 DEF Persists
  <2>2. \A t \in Sessions : Planning(t)' => t # s /\ Planning(t) /\ job'[t] = job[t]
    BY <1>5 DEF Persists, Others, Over, Kept, Planning
  <2> HIDE DEF n, d
  <2>3. CASE UNCHANGED fact
    <3>1. ConsumedStaysOut' /\ CommittedWasWritten'
      BY <1>0, <1>1, <2>1, <2>3 DEF ConsumedStaysOut, CommittedWasWritten
    <3> QED BY <1>2, <1>3, <2>1, <2>2, <2>3, <3>1 DEF Regenerations
  <2>4. CASE d # 0 /\ fact' = [fact EXCEPT ![d].phase = "committed"]
    <3>1. /\ d \in issued /\ d \in Ids /\ fact'[d].phase = "committed" /\ fact'[d].next = n
          /\ \A e \in Ids \ {d} : fact'[e] = fact[e]
      BY <1>0, <2>1, <2>4 DEF Fact
    <3>2. ConsumedStaysOut' BY <1>0, <1>1, <2>1, <3>1 DEF ConsumedStaysOut
    <3>3. CommittedWasWritten' BY <1>1, <2>1, <3>1 DEF CommittedWasWritten
    <3>4. \A t \in Sessions : t # s /\ Planning(t) => job[t].parent # d
      <4> SUFFICES ASSUME NEW t \in Sessions, t # s, Planning(t), job[t].parent = d PROVE FALSE
        OBVIOUS
      <4>1. job[t].run = job[s].run BY <1>3, <2>1, <2>4
      <4>2. job[t].run \in Own(t) /\ job[s].run \in Own(s)
        BY <2>1 DEF Own, Typed, Jobs, Planning
      <4> QED BY <4>1, <4>2 DEF RunsOwned
    <3>5. \A e \in 1..born : drafts[e].parent # 0 => fact'[drafts[e].parent].phase # "none"
      BY <1>0, <1>2, <3>1
    <3>6. \A t \in Sessions : t # s /\ Planning(t) /\ job[t].parent # 0 =>
            fact'[job[t].parent] = fact[job[t].parent]
      BY <1>0, <1>3, <3>1, <3>4
    <3> QED BY <1>2, <1>3, <2>1, <2>2, <3>2, <3>3, <3>5, <3>6 DEF Regenerations
  <2> QED BY <1>5, <2>3, <2>4 DEF Persists, d
<1>6. ASSUME NEW s \in Sessions, Enters(s) \/ Recovers(s) \/ Commits(s) PROVE Regenerations'
  <2>1. UNCHANGED <<pending, drafts, born, fact, issued>>
    BY <1>6 DEF Enters, Recovers, Commits, files
  <2>2. \A t \in Sessions : Planning(t)' =>
          /\ Planning(t) /\ job'[t].next = job[t].next /\ job'[t].parent = job[t].parent
          /\ job'[t].run = job[t].run
    BY <1>6 DEF Enters, Recovers, Commits, Others, Planning
  <2>3. ConsumedStaysOut' /\ CommittedWasWritten'
    BY <1>1, <2>1 DEF ConsumedStaysOut, CommittedWasWritten
  <2> QED BY <1>2, <1>3, <2>1, <2>2, <2>3 DEF Regenerations
<1>7. ASSUME NEW s \in Sessions, NEW d \in issued \cup {0}, Starts(s, d) PROVE Regenerations'
  <2>1. /\ UNCHANGED issued /\ born' = born + 1 /\ pending' \in {0, pending}
        /\ \A m \in 1..born : drafts'[m] = drafts[m]
        /\ drafts'[born + 1].parent = d /\ drafts'[born + 1].session = s
        /\ drafts'[born + 1].run = job[s].run
        /\ job'[s].next = born + 1 /\ job'[s].parent = d /\ job'[s].run = job[s].run
        /\ \A t \in Sessions \ {s} : job'[t] = job[t]
    BY <1>0, <1>7 DEF Starts, Others
  <2>2. \A t \in Sessions \ {s} : Planning(t)' <=> Planning(t) BY <2>1 DEF Planning
  <2>3. \A m \in 1..born' : m \in 1..born \/ m = born + 1 BY <1>0, <2>1
  <2>4. CASE d = 0 /\ UNCHANGED fact
    <3>1. ConsumedStaysOut' /\ CommittedWasWritten'
      BY <1>0, <1>1, <2>1, <2>4 DEF ConsumedStaysOut, CommittedWasWritten
    <3> QED BY <1>2, <1>3, <2>1, <2>2, <2>3, <2>4, <3>1 DEF Regenerations
  <2>5. CASE /\ Touches(s, d) /\ pending' = 0
             /\ fact'[d].phase = "consumed" /\ fact'[d].next = born + 1
    <3>1. /\ d \in issued /\ d \in Ids /\ fact'[d].run = job[s].run
          /\ \A e \in Ids \ {d} : fact'[e] = fact[e]
      BY <1>0, <2>5 DEF Touches
    <3>2. ConsumedStaysOut' BY <1>0, <2>5 DEF ConsumedStaysOut
    <3>3. CommittedWasWritten' BY <1>1, <2>1, <2>5, <3>1 DEF CommittedWasWritten
    <3>4. ASSUME NEW t \in Sessions, Planning(t), job[t].parent # 0
          PROVE  fact'[job[t].parent] = fact[job[t].parent]
      <4>1. job[t].parent # d BY <3>1, <2>5, <3>4, TouchesOther
      <4> QED BY <1>0, <1>3, <3>1, <3>4, <4>1
    <3>5. \A m \in 1..born : drafts[m].parent # 0 => fact'[drafts[m].parent].phase # "none"
      BY <1>0, <1>2, <2>5, <3>1
    <3> QED BY <1>2, <1>3, <2>1, <2>2, <2>3, <2>5, <3>1, <3>2, <3>3, <3>4, <3>5 DEF Regenerations
  <2> QED BY <1>7, <2>4, <2>5 DEF Starts
<1> QED BY <1>4, <1>5, <1>6, <1>7, Moves

\* A session drives no regeneration after the end of an execution that it did
\* not drive before: to drive one anew, no successor may have been born yet.
LEMMA EndsDrives ==
  ASSUME Typed, RunsOwned, Regenerations, Ends,
         \/ UNCHANGED fact
         \/ \E u \in Sessions, e \in Ids : Touches(u, e),
         NEW s \in Sessions, NEW d \in Ids, Drives(s, d)',
         NEW m \in issued, drafts[m].parent = d
  PROVE  Drives(s, d) /\ Own(s)' = Own(s)
<1>1. /\ job'[s].act = job[s].act /\ job'[s].on = job[s].on /\ job'[s].run = job[s].run
      /\ job'[s].lineage = job[s].lineage
      /\ Planning(s)' /\ job'[s].parent = d => Planning(s) /\ job[s].parent = d
  BY DEF Drives, Ends, Over, Kept, Planning
<1>2. Own(s)' = Own(s) BY <1>1 DEF Own
<1>3. /\ \/ job[s].act = "regenerate" /\ job[s].on = d
         \/ Planning(s) /\ job[s].parent = d
      /\ fact'[d].run \in Own(s)
  BY <1>1, <1>2 DEF Drives
<1>4. d # 0 /\ fact[d].phase # "none"
  BY Facts DEF Regenerations, Ids
<1>5. CASE UNCHANGED fact
  BY <1>2, <1>3, <1>4, <1>5 DEF Drives
<1>6. ASSUME NEW u \in Sessions, NEW e \in Ids, Touches(u, e) PROVE Drives(s, d)
  <2>1. CASE e # d BY <1>3, <1>4, <1>6, <2>1 DEF Touches, Drives
  <2>2. CASE e = d
    <3>1. /\ fact'[d].run = job[u].run /\ job[u].run \in Own(u)
          /\ fact[d].run \in job[u].lineage /\ job[u].act = "regenerate" /\ job[u].on = d
      BY <1>4, <1>6, <2>2 DEF Touches, Own, Typed, Jobs
    <3>2. u = s BY <1>3, <3>1 DEF RunsOwned
    <3> QED BY <1>4, <3>1, <3>2 DEF Drives, Own
  <2> QED BY <2>1, <2>2
<1> QED BY <1>2, <1>5, <1>6

\* Whoever may still write a successor of d is alone in that, and the earlier
\* successors are not confirmed before it gives up: another session is not
\* admitted while one of them awaits confirmation, and its own next request
\* starts without the runs the fact names.
LEMMA SuccessorsStep ==
  ASSUME IInv, [Next]_vars
  PROVE  Successors'
<1>0. /\ issued \subseteq 1..born /\ issued \subseteq Ids /\ born \in Nat /\ 0 \notin issued
      /\ pending \in issued \cup {0} /\ confirmed \subseteq issued /\ \A d \in Ids : d # 0
      /\ fact \in [Ids -> Fact]
  BY Facts DEF IInv, Typed, Named, Ids
<1>1. \A m, n \in confirmed \cup ({pending} \ {0}) :
        drafts[m].parent = drafts[n].parent /\ drafts[m].parent # 0 => m = n
  BY DEF IInv, Successors, OneSuccessor
<1>2. \A s \in Sessions, d \in Ids, m \in issued :
        Drives(s, d) /\ drafts[m].parent = d =>
          /\ m \notin confirmed
          /\ pending = m /\ ~Decided(m) =>
               /\ drafts[m].session = s /\ drafts[m].run \in Own(s)
               /\ drafts[m].run \notin ended
               /\ \A t \in Sessions : ~(job[t].act = "confirm" /\ job[t].on = m)
  BY DEF IInv, Successors
<1>3. Typed /\ RunsOwned /\ Regenerations BY DEF IInv
<1>4. CASE Settles \/ Abandons \/ Promotes
  <2>1. /\ Ends /\ UNCHANGED <<drafts, issued>> /\ pending' \in {0, pending}
        /\ UNCHANGED fact \/ \E u \in Sessions, e \in Ids : Touches(u, e)
    BY <1>4 DEF Settles, Abandons, Promotes, Recorded
  <2>2. ASSUME NEW s \in Sessions, NEW d \in Ids, NEW m \in issued, Drives(s, d)',
               drafts[m].parent = d
        PROVE  Drives(s, d) /\ Own(s)' = Own(s)
    BY <1>3, <2>1, <2>2, EndsDrives
  <2>3. \A t \in Sessions, m \in issued :
          job'[t].act = "confirm" /\ job'[t].on = m => job[t].act = "confirm" /\ job[t].on = m
    BY <2>1 DEF Ends, Over, Kept
  <2>4. OneSuccessor'
    <3>1. confirmed' \subseteq confirmed \cup ({pending} \ {0})
      BY <1>4 DEF Settles, Recorded, Abandons, Promotes
    <3> QED BY <1>1, <2>1, <3>1 DEF OneSuccessor
  <2>5. ASSUME NEW s \in Sessions, NEW d \in Ids, NEW m \in issued, Drives(s, d)',
               drafts[m].parent = d
        PROVE  /\ m \notin confirmed'
               /\ pending' = m /\ ~Decided(m)' =>
                    /\ drafts[m].session = s /\ drafts[m].run \in Own(s)'
                    /\ drafts[m].run \notin ended'
                    /\ \A t \in Sessions : ~(job'[t].act = "confirm" /\ job'[t].on = m)
    <3>1. Drives(s, d) /\ Own(s)' = Own(s) BY <2>2, <2>5
    <3>2. m \notin confirmed /\ m # 0 BY <1>0, <1>2, <2>5, <3>1
    <3>3. CASE Settles
      <4>1. pending' = m /\ ~Decided(m)' =>
              /\ drafts[m].session = s /\ drafts[m].run \in Own(s)
              /\ drafts[m].run \notin ended
              /\ \A t \in Sessions : ~(job[t].act = "confirm" /\ job[t].on = m)
        BY <1>2, <2>1, <2>5, <3>1, <3>2, <3>3 DEF Settles, Recorded, Decided
      <4>2. drafts[m].run \in Own(s) /\ drafts[m].run \notin ended => drafts[m].run \notin ended'
        <5>1. ASSUME NEW u \in Sessions, Over(u), ended' = ended \cup {job[u].run},
                     job[u].st \in {"awaiting", "failed"}
              PROVE  job[u].run \notin Own(s)
          <6>1. u # s
            BY <2>5, <5>1 DEF Drives, Over, Planning
          <6>2. job[u].run \in Own(u) BY <1>3, <5>1 DEF Own, Typed, Jobs
          <6> QED BY <1>3, <6>1, <6>2 DEF RunsOwned
        <5> QED BY <3>3, <5>1 DEF Settles
      <4> QED BY <2>3, <3>1, <3>2, <3>3, <4>1, <4>2 DEF Settles, Recorded
    <3>4. CASE Abandons
      BY <2>1, <3>2, <3>4 DEF Abandons, Decided
    <3>5. CASE Promotes
      <4>1. m # pending
        BY <1>2, <2>5, <3>1, <3>5 DEF Promotes
      <4> QED BY <2>1, <3>2, <3>5, <4>1 DEF Promotes
    <3> QED BY <1>4, <3>3, <3>4, <3>5
  <2> QED BY <2>1, <2>4, <2>5 DEF Successors
<1>5. ASSUME NEW s \in Sessions, Persists(s) PROVE Successors'
  <2> DEFINE n == job[s].next
             d == job[s].parent
  <2>1. /\ n \in 1..born /\ n \notin issued /\ n # 0 /\ d \in issued \cup {0} /\ Planning(s)
        /\ pending' = n /\ issued' = issued \cup {n}
        /\ UNCHANGED <<formal, tombstone, drafts, ended, confirmed>>
        /\ drafts[n].parent = d /\ drafts[n].session = s /\ drafts[n].run = job[s].run
        /\ d # 0 => fact[d].phase = "consumed" /\ fact[d].run = job[s].run
        /\ job[s].run \in Own(s) /\ job[s].run \notin ended
    BY <1>3, <1>5, <1>0 DEF Persists, Typed, Jobs, Regenerations, Own, RunsOwned, Planning
  <2>2. /\ \A t \in Sessions \ {s} : job'[t] = job[t]
        /\ Over(s) \/ Kept(s)
        /\ \A e \in Ids : /\ fact'[e].run = fact[e].run
                          /\ fact'[e].phase = "none" => fact[e].phase = "none"
                          /\ fact[e].phase = "none" => fact'[e].phase = "none"
    <3>1. CASE UNCHANGED fact BY <1>5, <3>1 DEF Persists, Others
    <3>2. CASE d # 0 /\ fact' = [fact EXCEPT ![d].phase = "committed"]
      <4>1. d \in Ids /\ fact[d].phase # "none" BY <1>0, <2>1, <3>2
      <4>2. /\ fact'[d].phase = "committed" /\ fact'[d].run = fact[d].run
            /\ \A e \in Ids \ {d} : fact'[e] = fact[e]
        BY <1>0, <3>2, <4>1 DEF Fact
      <4> QED BY <1>5, <4>1, <4>2 DEF Persists, Others
    <3> QED BY <1>5, <3>1, <3>2 DEF Persists
  <2> HIDE DEF n, d
  <2>3. ASSUME NEW t \in Sessions, NEW e \in Ids, Drives(t, e)'
        PROVE  Drives(t, e) /\ Own(t)' = Own(t)
    <3>1. CASE t = s
      BY <2>2, <2>3, <3>1 DEF Drives, Own, Over, Kept, Planning
    <3>2. CASE t # s
      BY <2>2, <2>3, <3>2 DEF Drives, Own, Planning
    <3> QED BY <3>1, <3>2
  <2>4. d # 0 => Drives(s, d) /\ d \in Ids
    BY <1>0, <2>1 DEF Drives, d
  <2>5. OneSuccessor'
    <3>1. \A m \in confirmed : drafts[m].parent = d /\ d # 0 => FALSE
      BY <1>0, <1>2, <2>4
    <3> QED BY <1>1, <2>1, <3>1 DEF OneSuccessor
  <2>6. \A t \in Sessions : ~(job'[t].act = "confirm" /\ job'[t].on = n)
    <3>1. \A t \in Sessions : job[t].on # n
      BY <1>0, <1>3, <2>1 DEF Typed, Jobs
    <3> QED BY <2>2, <3>1 DEF Over, Kept
  <2>7. ASSUME NEW t \in Sessions, NEW e \in Ids, NEW m \in issued', Drives(t, e)',
               drafts[m].parent = e
        PROVE  /\ m \notin confirmed
               /\ pending' = m =>
                    /\ drafts[m].session = t /\ drafts[m].run \in Own(t)'
                    /\ drafts[m].run \notin ended
                    /\ \A u \in Sessions : ~(job'[u].act = "confirm" /\ job'[u].on = m)
    <3>1. Drives(t, e) /\ Own(t)' = Own(t) BY <2>3, <2>7
    <3>2. CASE m \in issued
      BY <1>2, <2>1, <2>7, <3>1, <3>2
    <3>3. CASE m = n
      <4>1. e = d /\ d # 0 BY <1>0, <2>1, <2>7, <3>3
      <4>2. t = s
        BY <1>3, <2>1, <3>1, <4>1 DEF Drives, RunsOwned
      <4> QED BY <1>0, <2>1, <2>6, <3>1, <3>3, <4>2
    <3> QED BY <2>1, <3>2, <3>3
  <2> QED BY <2>1, <2>5, <2>7 DEF Successors
<1>6. ASSUME NEW s \in Sessions, Enters(s) PROVE Successors'
  <2>1. /\ UNCHANGED <<pending, formal, tombstone, drafts, fact, issued, confirmed>>
        /\ \A t \in Sessions \ {s} : job'[t] = job[t]
        /\ ended' \subseteq ended
        /\ Actionable => drafts[pending].session = s
    BY <1>6 DEF Enters, Others, files
  <2>2. OneSuccessor' BY <1>1, <2>1 DEF OneSuccessor
  <2>3. \A d \in Ids : ~Drives(s, d)'
    <3>1. Own(s)' = {runs + 1} /\ runs \in Nat
      BY <1>3, <1>6, Facts, DraftLifecycleAssumption DEF Enters, Own, Runs
    <3>2. \A d \in Ids : fact[d].run # runs + 1
      BY <1>0, <1>3, <3>1, DraftLifecycleAssumption DEF RunsOwned, Fact, Runs
    <3> QED BY <2>1, <3>1, <3>2 DEF Drives
  <2>4. ASSUME NEW t \in Sessions, NEW d \in Ids, NEW m \in issued, Drives(t, d)',
               drafts[m].parent = d
        PROVE  m \notin confirmed /\ ~(pending = m /\ ~Decided(m))
    <3>1. t # s /\ Drives(t, d)
      BY <2>1, <2>3, <2>4 DEF Drives, Own, Planning
    <3>2. pending = m /\ ~Decided(m) => Actionable /\ drafts[m].session = t
      BY <1>0, <1>2, <2>4, <3>1 DEF Actionable, Decided
    <3> QED BY <1>2, <2>1, <2>4, <3>1, <3>2
  <2> QED BY <2>1, <2>2, <2>4 DEF Successors, Decided
<1>7. ASSUME NEW s \in Sessions, Recovers(s) PROVE Successors'
  <2>1. /\ UNCHANGED <<pending, formal, tombstone, drafts, fact, issued, confirmed, ended>>
        /\ \A t \in Sessions \ {s} : job'[t] = job[t]
        /\ job'[s].st = "entered" /\ job'[s].run = runs + 1
        /\ \/ job'[s].act = "plan" /\ job'[s].on = 0 /\ job'[s].lineage = {}
           \/ /\ job'[s].act = job[s].act /\ job'[s].on = job[s].on
              /\ job'[s].lineage = job[s].lineage \cup {job[s].run} /\ job[s].run # 0
    BY <1>3, <1>7 DEF Recovers, Others, files, Typed, Jobs
  <2>2. OneSuccessor' BY <1>1, <2>1 DEF OneSuccessor
  <2>3. runs + 1 # 0 /\ \A d \in Ids : fact[d].run # runs + 1
    BY <1>0, <1>3, Facts, DraftLifecycleAssumption DEF RunsOwned, Fact, Runs
  <2>4. ASSUME NEW t \in Sessions, NEW d \in Ids, Drives(t, d)'
        PROVE  Drives(t, d) /\ Own(t) \subseteq Own(t)'
    <3>1. CASE t = s
      <4>1. job'[s].act = "regenerate" /\ job'[s].on = d
        BY <2>1, <2>4, <3>1 DEF Drives, Planning
      <4>2. Own(s)' = Own(s) \cup {runs + 1}
        BY <2>1, <2>3, <4>1 DEF Own
      <4> QED BY <2>1, <2>3, <2>4, <3>1, <4>1, <4>2 DEF Drives
    <3>2. CASE t # s
      BY <2>1, <2>4, <3>2 DEF Drives, Own, Planning
    <3> QED BY <3>1, <3>2
  <2>5. \A t \in Sessions, m \in issued :
          job'[t].act = "confirm" /\ job'[t].on = m => job[t].act = "confirm" /\ job[t].on = m
    BY <2>1
  <2> QED BY <1>2, <2>1, <2>2, <2>4, <2>5 DEF Successors, Decided
<1>8. ASSUME NEW s \in Sessions, Commits(s) PROVE Successors'
  <2>1. /\ UNCHANGED <<pending, formal, tombstone, drafts, fact, issued, confirmed, ended>>
        /\ \A t \in Sessions :
             /\ job'[t].act = job[t].act /\ job'[t].on = job[t].on /\ job'[t].run = job[t].run
             /\ job'[t].lineage = job[t].lineage /\ job'[t].parent = job[t].parent
             /\ Planning(t)' => Planning(t)
    BY <1>8 DEF Commits, Others, Planning
  <2>2. OneSuccessor' BY <1>1, <2>1 DEF OneSuccessor
  <2>3. \A t \in Sessions : /\ Own(t)' = Own(t)
                            /\ \A d \in Ids : Drives(t, d)' => Drives(t, d)
    BY <2>1 DEF Drives, Own
  <2> QED BY <1>2, <2>1, <2>2, <2>3 DEF Successors, Decided
<1>9. ASSUME NEW s \in Sessions, NEW d \in issued \cup {0}, Starts(s, d) PROVE Successors'
  <2>1. /\ UNCHANGED <<formal, tombstone, issued, confirmed, ended>> /\ pending' \in {0, pending}
        /\ \A m \in 1..born : drafts'[m] = drafts[m]
        /\ \A t \in Sessions \ {s} : job'[t] = job[t]
        /\ \A t \in Sessions :
             /\ job'[t].act = job[t].act /\ job'[t].on = job[t].on /\ job'[t].run = job[t].run
             /\ job'[t].lineage = job[t].lineage
        /\ job'[s].parent = d
    BY <1>0, <1>9 DEF Starts, Others
  <2>2. \A t \in Sessions : Own(t)' = Own(t) BY <2>1 DEF Own
  <2>3. OneSuccessor'
    <3>1. \A m \in confirmed \cup ({pending} \ {0}) : drafts'[m] = drafts[m]
      BY <1>0, <2>1
    <3> QED BY <1>1, <2>1, <3>1 DEF OneSuccessor
  <2>4. ASSUME NEW t \in Sessions, NEW e \in Ids, NEW m \in issued, Drives(t, e)',
               drafts[m].parent = e
        PROVE  Drives(t, e)
    <3>1. fact[e].phase # "none"
      BY <1>0, <1>3, <2>4 DEF Regenerations
    <3>2. CASE ~(d # 0 /\ e = d)
      <4>1. fact'[e] = fact[e] BY <1>0, <1>9, <3>2 DEF Starts, Touches
      <4>2. Planning(t)' /\ job'[t].parent = e => Planning(t) /\ job[t].parent = e
        BY <1>0, <2>1, <3>2 DEF Planning
      <4> QED BY <2>1, <2>2, <2>4, <4>1, <4>2 DEF Drives
    <3>3. CASE d # 0 /\ e = d
      <4>1. Touches(s, d) /\ fact'[d].run = job[s].run
        BY <1>9, <3>3 DEF Starts, Touches
      <4>2. job[s].run \in Own(s) BY <1>3, <4>1 DEF Touches, Own, Typed, Jobs
      <4>3. t = s BY <1>3, <2>2, <2>4, <3>3, <4>1, <4>2 DEF Drives, RunsOwned
      <4> QED BY <3>1, <3>3, <4>1, <4>3 DEF Touches, Drives, Own
    <3> QED BY <3>2, <3>3
  <2>5. \A m \in issued : drafts'[m] = drafts[m] BY <1>0, <2>1
  <2> QED BY <1>0, <1>2, <2>1, <2>2, <2>3, <2>4, <2>5 DEF Successors, Decided
<1> QED BY <1>3, <1>4, <1>5, <1>6, <1>7, <1>8, <1>9, Moves

------------------------------------------------------------------------------
(* The theorems *)

\* The inductive invariant holds in every state.
LEMMA IInvAlways == Spec => []IInv
<1>1. IInv /\ [Next]_vars => IInv'
  BY TypedStep, DecisionsStep, BasesStep, RunsOwnedStep, RegenerationsStep, SuccessorsStep
  DEF IInv
<1> QED BY <1>1, IInvInit, PTL DEF Spec

\* Every variable keeps its type.
THEOREM Typing == Spec => []TypeOK
<1>1. IInv => TypeOK BY DEF IInv, Typed
<1> QED BY <1>1, IInvAlways, PTL

\* For any sessions and bounds: a draft that was abandoned is not confirmed by a
\* late request, although confirm_pending_build_task_plan looks at one tombstone
\* only, which the next abandonment overwrites.
THEOREM Abandonment == Spec => []AbandonedStaysOut
<1>1. IInv => AbandonedStaysOut BY DEF IInv, Decisions
<1> QED BY <1>1, IInvAlways, PTL

\* For any sessions and bounds: the base check of the DAG gate makes the formal
\* plans one history, although several drafts are planned from the same base.
THEOREM OneHistory == Spec => []NoFork
<1>1. IInv => NoFork BY DEF IInv, Bases
<1> QED BY <1>1, IInvAlways, PTL

\* For any sessions and bounds: a draft whose deletion a regeneration recorded is
\* not pending again, wherever the process ended in between.
THEOREM Consumption == Spec => []ConsumedStaysOut
<1>1. IInv => ConsumedStaysOut BY DEF IInv, Regenerations
<1> QED BY <1>1, IInvAlways, PTL

\* For any sessions and bounds: what a regeneration recorded as committed names a
\* draft that was written, so not repeating it loses nothing.
THEOREM Commitment == Spec => []CommittedWasWritten
<1>1. IInv => CommittedWasWritten BY DEF IInv, Regenerations
<1> QED BY <1>1, IInvAlways, PTL

\* For any sessions and bounds: a regeneration that is repeated and recovered, in
\* part by other requests, leaves one successor to confirm at most.
THEOREM Succession == Spec => []OneSuccessor
<1>1. IInv => OneSuccessor BY DEF IInv, Successors
<1> QED BY <1>1, IInvAlways, PTL
==============================================================================

--------------------------- MODULE SchedulerProofs ---------------------------
(***************************************************************************)
(* The orchestrator keeps the invariant of SchedulerInvariant, and what    *)
(* follows of it: the safety properties of UnitGenerationScheduler and its *)
(* refinement of PlanningRun.                                              *)
(***************************************************************************)
EXTENDS SchedulerInvariant

------------------------------------------------------------------------------
(* A step of the orchestrator keeps the invariant *)

\* The orchestrator goes on to its next await, or to its end; the round is
\* left alone.
Aims(next, e) ==
  /\ Turn(Main, e) /\ pc' = [pc EXCEPT ![Main] = next]
  /\ UNCHANGED <<job, cancels>> /\ UNCHANGED round
  /\ cancelled' \subseteq Tasks \ {Main}
  /\ faults' \in 0..MaxFaults /\ (faults' = 0 => faults = 0)

\* Where it may end up.
Lands(next) ==
  /\ next \in MainPcs \ {"join", "gather"} /\ todo' \in Seq(R!Planning)
  /\ next = "cancel_gather" => ~Live
  /\ Alive # {} => next \in Winding /\ aborting
  /\ faults' = 0 => next # "error" /\ (next \in Leading => Live)
  /\ next = "cancelled" /\ Phase # "persisting_pending" /\ MaxCancels <= 2 => ~Live
  /\ (next \in Cancelling /\ MaxCancels <= 2) => cancels >= 1
  /\ (next = "cancel_run" /\ Alive # {} /\ Live /\ MaxCancels <= 2) => cancels >= 2
  /\ (MaxFaults = 0 /\ MaxCancels <= 1 /\ next \in {"cancel_run"} \cup Ended) => Alive = {}
  /\ MainCall' /\ MainProgress' /\ Ends'

\* The orchestrator is a task, and no worker.
LEMMA MainIsTask == Main \in Tasks /\ \A w \in Workers : w \in Tasks \ {Main}
BY SchedulerAssumption DEF Tasks

\* Nothing of the round and of the workers moves with the orchestrator.
LEMMA Aimed ==
  ASSUME IInv, NEW next, NEW e, Aims(next, e)
  PROVE  /\ snapshot' = snapshot /\ pc'[Main] = next /\ call'[Main] = e /\ ~Applied(Main)'
         /\ \A w \in Workers : /\ pc'[w] = pc[w] /\ job'[w] = job[w] /\ call'[w] = call[w]
                               /\ Applied(w)' <=> Applied(w)
         /\ UNCHANGED <<job, queue, unfinished, aborting, fatal, failures, cancels>>
         /\ Alive' = Alive /\ DOMAIN pc' = Tasks
<1>1. pc \in [Tasks -> MainPcs \cup WorkerPcs] /\ TypeOK
  BY DEF IInv, TypeOK
<1>2. /\ Turn(Main, e) /\ pc' = [pc EXCEPT ![Main] = next]
      /\ UNCHANGED <<job, queue, unfinished, aborting, fatal, failures, cancels>>
  BY DEF Aims, round
<1>3. pc'[Main] = next /\ \A w \in Workers : pc'[w] = pc[w]
  BY <1>1, <1>2, MainIsTask
<1>4. call'[Main] = e /\ ~Applied(Main)' /\ snapshot' = snapshot
      /\ \A w \in Workers : call'[w] = call[w] /\ (Applied(w)' <=> Applied(w))
  BY <1>1, <1>2, MainIsTask, TurnOthers DEF Turn
<1>5. Alive' = Alive
  BY <1>3 DEF Alive
<1> QED BY <1>1, <1>2, <1>3, <1>4, <1>5

\* An orchestrator that aims well keeps the invariant.
LEMMA AimsKeeps ==
  ASSUME IInv, NEW next, NEW e, Aims(next, e), Lands(next), e = None \/ EventOk(e),
         pc[Main] # "join"
  PROVE  IInv'
<1>1. /\ snapshot' = snapshot /\ pc'[Main] = next /\ call'[Main] = e /\ ~Applied(Main)'
      /\ \A w \in Workers : /\ pc'[w] = pc[w] /\ job'[w] = job[w] /\ call'[w] = call[w]
                            /\ Applied(w)' <=> Applied(w)
      /\ UNCHANGED <<job, queue, unfinished, aborting, fatal, failures, cancels>>
      /\ Alive' = Alive /\ DOMAIN pc' = Tasks
  BY Aimed
<1>2. /\ next \in MainPcs \ {"join", "gather"} /\ todo' \in Seq(R!Planning)
      /\ next = "cancel_gather" => ~Live
      /\ MainCall' /\ MainProgress' /\ Ends'
  BY DEF Lands
<1>3. TypeOK' /\ Locking'
  <2>1. Controller' /\ Locking'
    BY MainIsTask, TurnLocking DEF IInv, Aims
  <2>2. pc' \in [Tasks -> MainPcs \cup WorkerPcs] /\ pc'[Main] \in MainPcs
        /\ \A w \in Workers : pc'[w] \in WorkerPcs
    <3>1. /\ pc \in [Tasks -> MainPcs \cup WorkerPcs] /\ pc' = [pc EXCEPT ![Main] = next]
          /\ \A w \in Workers : pc[w] \in WorkerPcs
      BY DEF Aims, IInv, TypeOK
    <3> QED BY <1>1, <1>2, <3>1
  <2>3. /\ queue' \in Seq(Jobs \cup {None}) /\ unfinished' \in Nat
        /\ job' \in [Workers -> Jobs \cup {None}]
        /\ cancelled' \subseteq Tasks /\ faults' \in 0..MaxFaults /\ cancels' \in 0..MaxCancels
        /\ aborting' \in BOOLEAN /\ fatal' \in BOOLEAN /\ failures' \in BOOLEAN
    BY <1>1 DEF Aims, IInv, TypeOK
  <2>4. Scheduling'
    BY <1>2, <2>2, <2>3 DEF Scheduling
  <2> QED BY <2>1, <2>4 DEF TypeOK, Controller, Scheduling
<1>4. Snapshots'
  BY <1>1, SnapshotsStep DEF IInv
<1>5. WorkerCalls'
  BY <1>1 DEF IInv, WorkerCalls, WorkerCall
<1>6. WorkersProgress'
  <2> SUFFICES ASSUME Live, NEW w \in Workers, job[w] # None PROVE WorkerProgress(w)'
    BY <1>1 DEF WorkersProgress, Live
  <2>1. WorkerProgress(w)
    BY DEF IInv, WorkersProgress
  <2>2. JobCurrent(job[w])' <=> JobCurrent(job[w])
    BY <1>1 DEF JobCurrent, NextJob, UnitStatus, R!Active
  <2> QED BY <1>1, <2>1, <2>2 DEF WorkerProgress, Phase, Unit, R!InFlight
<1>7. Pool'
  <2>1. Alive' # {} => pc'[Main] \in Winding /\ aborting'
    BY <1>1 DEF Lands
  <2>2. \A k \in DOMAIN queue' : queue'[k] # None <=> pc'[Main] = "join"
    BY <1>1, <1>2 DEF IInv, Pool
  <2>3. fatal' => snapshot'.status = "failed"
    BY <1>1 DEF IInv, Pool
  <2> QED BY <1>1, <1>2, <2>1, <2>2, <2>3 DEF Pool, Live
<1>8. QueuedJobsCurrent'
  BY <1>1, <1>2 DEF QueuedJobsCurrent
<1>9. JoinCounter'
  <2>1. Busy' = Busy
    BY <1>1 DEF Busy
  <2>2. unfinished = Len(queue) + Cardinality(Busy)
    BY DEF IInv, JoinCounter, Busy
  <2> QED BY <1>1, <2>1, <2>2 DEF JoinCounter, Busy
<1>10. Faultless'
  <2> SUFFICES ASSUME faults' = 0
               PROVE  ~failures' /\ pc'[Main] # "error" /\ (pc'[Main] \in Leading => Live')
    BY <1>1, <1>2 DEF Faultless
  <2>1. faults = 0
    BY DEF Aims
  <2> QED BY <1>1, <2>1 DEF IInv, Faultless, Lands, Live
<1>11. Recording'
  <2> SUFFICES ASSUME MaxCancels <= 2
               PROVE  /\ (next = "cancelled" /\ Phase # "persisting_pending") => ~Live
                      /\ Main \notin cancelled'
                      /\ next \in Cancelling => cancels >= 1
                      /\ (next = "cancel_run" /\ Alive # {} /\ Live) => cancels >= 2
    BY <1>1 DEF Recording, CancelBeforeLastAwaitIsRecorded, Live, Phase
  <2> QED BY DEF Lands, Aims
<1>12. Orphans'
  BY <1>1 DEF Orphans, Lands
<1> QED BY <1>2, <1>3, <1>4, <1>5, <1>6, <1>7, <1>8, <1>9, <1>10, <1>11, <1>12 DEF IInv

\* How a step of the orchestrator that resumes comes to aim.
LEMMA Resumes ==
  ASSUME IInv, cancelled' = cancelled \ {Main}, UNCHANGED cancels,
         \/ \E r : Returns(Main, r)
         \/ call[Main] = None /\ UNCHANGED <<snapshot, tx, faults>>
  PROVE  /\ \A next, e : (Awaits(next, e) /\ e # None) => Aims(next, e)
         /\ \A next : Finishes(next) => Aims(next, None) /\ todo' = todo
         /\ \A e : (Submits(Main, e) /\ e # None) => Turn(Main, e)
         /\ Leaves(Main) => Turn(Main, None)
         /\ faults' \in 0..MaxFaults /\ (faults' = 0 => faults = 0)
<1>1. faults' \in 0..MaxFaults /\ (faults' = 0 => faults = 0)
  <2>1. CASE \E r : Returns(Main, r)
    BY <2>1, MainIsTask, Returned
  <2>2. CASE UNCHANGED <<snapshot, tx, faults>>
    BY <2>2 DEF IInv, TypeOK
  <2> QED BY <2>1, <2>2
<1>6. cancelled' \subseteq Tasks \ {Main}
  BY DEF IInv, TypeOK
<1>2. ASSUME NEW e, Submits(Main, e), e # None PROVE Turn(Main, e)
  BY <1>2, MainIsTask, Turns
<1>3. ASSUME Leaves(Main) PROVE Turn(Main, None)
  BY <1>3, MainIsTask, Turns
<1>4. ASSUME NEW next, NEW e, Awaits(next, e), e # None PROVE Aims(next, e)
  BY <1>1, <1>2, <1>4, <1>6 DEF Awaits, Aims
<1>5. ASSUME NEW next, Finishes(next) PROVE Aims(next, None) /\ todo' = todo
  BY <1>1, <1>3, <1>5, <1>6 DEF Finishes, Aims
<1> QED BY <1>1, <1>2, <1>3, <1>4, <1>5

\* The units in the order of the plan are all of them, each once.
LEMMA Ordered ==
  ASSUME NEW S \in SUBSET R!Planning, NEW s \in InOrder(S)
  PROVE  /\ s \in Seq(R!Planning) /\ Len(s) \in Nat /\ DOMAIN s = 1..Len(s)
         /\ \A k, l \in DOMAIN s : s[k] = s[l] => k = l
         /\ \A k \in DOMAIN s : s[k] \in S
         /\ \A u \in S : \E k \in DOMAIN s : s[k] = u
<1>1. Cardinality(S) \in Nat
  <2>1. IsFiniteSet(S)
    BY FS_Subset, SchedulerAssumption DEF R!Planning
  <2> QED BY <2>1, FS_CardinalityType
<1>2. /\ s \in [1..Cardinality(S) -> S]
      /\ \A u \in S : \E k \in DOMAIN s : s[k] = u
      /\ \A k, l \in DOMAIN s : k < l => Before(s[k], s[l])
  BY DEF InOrder
<1>3. s \in Seq(R!Planning) /\ Len(s) = Cardinality(S) /\ DOMAIN s = 1..Cardinality(S)
  BY <1>1, <1>2
<1>4. \A u : ~Before(u, u)
  <2> SUFFICES ASSUME NEW u, NEW k \in DOMAIN UnitOrder, NEW l \in DOMAIN UnitOrder, k < l,
                      UnitOrder[k] = u, UnitOrder[l] = u
               PROVE  FALSE
    BY DEF Before
  <2>1. k = l
    BY SchedulerAssumption
  <2>2. k \in Nat
    BY SchedulerAssumption
  <2> QED BY <2>1, <2>2
<1>5. ASSUME NEW k \in DOMAIN s, NEW l \in DOMAIN s, s[k] = s[l] PROVE k = l
  <2>1. ~(k < l)
    BY <1>2, <1>4, <1>5
  <2>2. ~(l < k)
    BY <1>2, <1>4, <1>5
  <2> QED BY <1>1, <1>3, <2>1, <2>2
<1> QED BY <1>1, <1>2, <1>3, <1>5

\* The orchestrator takes a turn between rounds.
Turning ==
  /\ cancelled' = cancelled \ {Main} /\ UNCHANGED cancels
  /\ \/ \E r : Returns(Main, r)
     \/ call[Main] = None /\ UNCHANGED <<snapshot, tx, faults>>
  /\ pc[Main] # "join" /\ Alive = {} /\ (faults' = 0 => Live)

\* It goes on towards a plan.
LEMMA LeadsOn ==
  ASSUME IInv, Turning, NEW next \in Leading, NEW e, Awaits(next, e), e # None, EventOk(e),
         todo' \in Seq(R!Planning), MainCall', MainProgress'
  PROVE  IInv'
<1>1. Aims(next, e)
  BY Resumes DEF Turning
<1>2. next \in MainPcs \ ({"join", "gather", "cancel_gather"} \cup Cancelling \cup Ended)
  BY DEF Leading, MainPcs, Cancelling, Ended
<1>3. Ends'
  BY <1>1, <1>2, Aimed DEF Ends, Ended
<1>4. next \notin {"cancelled", "error", "cancel_run"}
  BY DEF Leading
<1>5. Lands(next)
  BY <1>2, <1>3, <1>4 DEF Lands, Turning
<1> QED BY <1>1, <1>5, AimsKeeps DEF Turning

\* The round is over and complete, or its barrier raises.
LEMMA BarrierStep ==
  ASSUME IInv, Turning, EntersBarrier,
         Live => Phase = "generating_units",
         (Live /\ faults' = 0) => R!AllIn(snapshot, R!RoundEnded)
  PROVE  IInv'
<1> DEFINE e == Event("GlobalCheckStarted", None)
<1>0. EventOk(e) /\ e # None
  <2>1. "GlobalCheckStarted" \in Events \ (AttemptEvents \cup UnitEvents)
    BY DEF Events, AttemptEvents, UnitEvents
  <2>2. None \in Arguments
    BY DEF Arguments
  <2> QED BY <2>1, <2>2, EventIsSome
<1>1. CASE R!AllIn(snapshot, R!RoundEnded)
  <2>1. Awaits("check", e) /\ todo' = todo
    BY <1>1 DEF EntersBarrier
  <2>2. Aims("check", e)
    BY <1>0, <2>1, Resumes DEF Turning
  <2>3. pc'[Main] = "check" /\ call'[Main] = e /\ snapshot' = snapshot /\ ~Applied(Main)'
    BY <2>2, Aimed
  <2>4. MainCall'
    BY <1>0, <2>3 DEF MainCall, Ended
  <2>5. MainProgress'
    BY <1>1, <2>3 DEF MainProgress, Live, Phase, R!AllIn, R!RoundEnded, R!Planning
  <2>6. todo' \in Seq(R!Planning) /\ "check" \in Leading
    BY <2>1 DEF IInv, TypeOK, Leading
  <2> QED BY <1>0, <2>1, <2>4, <2>5, <2>6, LeadsOn
<1>2. CASE ~R!AllIn(snapshot, R!RoundEnded)
  <2>1. Finishes("error")
    BY <1>2 DEF EntersBarrier
  <2>2. Aims("error", None) /\ todo' = todo
    BY <2>1, Resumes DEF Turning
  <2>3. pc'[Main] = "error" /\ call'[Main] = None
    BY <2>2, Aimed
  <2>4. MainCall' /\ MainProgress' /\ Ends'
    BY <2>3 DEF MainCall, MainProgress, Ends, Ended
  <2>5. Lands("error")
    <3>1. faults' # 0
      BY <1>2 DEF Turning
    <3>2. todo' \in Seq(R!Planning)
      BY <2>2 DEF IInv, TypeOK
    <3>3. "error" \in MainPcs \ {"join", "gather", "cancel_gather"} /\ "error" \notin Cancelling
      BY DEF MainPcs, Ended, Cancelling
    <3> QED BY <2>4, <3>1, <3>2, <3>3 DEF Lands, Turning
  <2> QED BY <2>2, <2>5, AimsKeeps DEF Turning
<1> QED BY <1>1, <1>2

\* The jobs of a new round are current.
LEMMA FreshJob ==
  ASSUME IInv, NEW u \in R!Planning, Strategy[u] = "model", UnitStatus(u) = "pending",
         Live, Phase = "generating_units", Between(u)
  PROVE  NextJob(u) \in Jobs /\ NextJob(u) # None /\ NextJob(u).id.unit = u /\ JobCurrent(NextJob(u))
<1> DEFINE n == NextJob(u)
<1>1. u \in Units /\ Unit(u).attempt = 0 /\ Unit(u).status = "pending"
  BY DEF Between, R!RoundEnded, R!Planning, UnitStatus, Unit
<1>2. Unit(u).round \in 1..(GlobalLimit + 1)
  <2>1. snapshot.units[u] \in R!UnitState
    BY <1>1, Contract DEF IInv, R!Run
  <2> QED BY <2>1 DEF Unit, R!UnitState
<1>3. n.id = [unit |-> u, round |-> Unit(u).round, attempt |-> 1]
      /\ n = [id |-> n.id, local |-> n.local] /\ n.local \in BOOLEAN
  BY <1>1 DEF NextJob, Unit
<1>4. n.id \in R!Identity /\ n.id.unit = u
  <2>1. 1 \in 1..LocalMax
    BY SchedulerAssumption
  <2> QED BY <1>1, <1>2, <1>3, <2>1 DEF R!Identity
<1>5. n \in Jobs
  BY <1>3, <1>4 DEF Jobs
<1>6. JobCurrent(n)
  BY <1>1, <1>4, SchedulerAssumption DEF JobCurrent, R!Active, Live, Phase, UnitStatus, Unit
<1> QED BY <1>4, <1>5, <1>6, SchedulerAssumption

\* The pool starts: every pending model unit is queued once, with its next job.
LEMMA PoolStep ==
  ASSUME IInv, Turning, NEW models \in InOrder(PendingOf("model")), PendingOf("model") # {},
         StartsPool(models),
         Live => /\ Phase = "generating_units"
                 /\ \A u \in R!Planning :
                      Between(u) /\ (Strategy[u] = "deterministic" => UnitStatus(u) # "pending")
  PROVE  IInv'
<1> DEFINE S == PendingOf("model")
           n == Len(models)
<1>1. S \subseteq R!Planning /\ \A u \in S : Strategy[u] = "model" /\ UnitStatus(u) = "pending"
  BY DEF PendingOf, R!Planning
<1>2. /\ models \in Seq(R!Planning) /\ n \in Nat /\ DOMAIN models = 1..n
      /\ \A k, l \in 1..n : models[k] = models[l] => k = l
      /\ \A k \in 1..n : models[k] \in S
      /\ \A u \in S : \E k \in 1..n : models[k] = u
  BY <1>1, Ordered
<1>3. Live
  <2>1. R!ProjectionValid
    BY Contract DEF IInv
  <2>2. PICK u \in S : TRUE
    OBVIOUS
  <2>3. u \in Units /\ snapshot.units[u].status = "pending"
    BY <2>2 DEF PendingOf, UnitStatus
  <2> QED BY <2>1, <2>3 DEF R!ProjectionValid, Live
<1>4. \A u \in S : NextJob(u) \in Jobs /\ NextJob(u) # None /\ NextJob(u).id.unit = u /\ JobCurrent(NextJob(u))
  BY <1>1, <1>3, FreshJob
<1>5. /\ \A k \in 1..n : NextJob(models[k]) \in Jobs /\ NextJob(models[k]) # None
      /\ \A k \in 1..n : NextJob(models[k]).id.unit = models[k] /\ JobCurrent(NextJob(models[k]))
  BY <1>2, <1>4
<1> HIDE DEF S
<1>6. /\ queue' = [k \in 1..n |-> NextJob(models[k])] /\ unfinished' = n
      /\ ~aborting' /\ ~fatal' /\ ~failures' /\ aborting' = FALSE /\ fatal' = FALSE /\ failures' = FALSE
      /\ pc' = [t \in Tasks |-> IF t = Main THEN "join"
                                ELSE IF t <= Len(models) THEN "get" ELSE "done"]
      /\ Leaves(Main) /\ todo' = <<>> /\ UNCHANGED job
  BY DEF StartsPool
<1>7. Turn(Main, None) /\ faults' \in 0..MaxFaults /\ (faults' = 0 => faults = 0)
  BY <1>6, Resumes DEF Turning
<1>8. /\ snapshot' = snapshot /\ call'[Main] = None /\ ~Applied(Main)'
      /\ \A w \in Workers : call'[w] = call[w]
  BY <1>7, MainIsTask, TurnOthers DEF IInv, Turn
<1>9. /\ DOMAIN queue' = 1..n /\ Len(queue') = n /\ queue' \in Seq(Jobs \cup {None})
      /\ \A k \in 1..n : queue'[k] = NextJob(models[k])
  <2>1. queue' \in [1..n -> Jobs \cup {None}]
    BY <1>5, <1>6
  <2> QED BY <1>2, <1>6, <2>1
<1> HIDE DEF n
<1>10. /\ pc'[Main] = "join" /\ \A w \in Workers : pc'[w] \in {"get", "done"}
       /\ pc' \in [Tasks -> MainPcs \cup WorkerPcs]
  BY <1>6, MainIsTask DEF MainPcs, WorkerPcs
<1>11. \A w \in Workers : job[w] = None /\ call[w] = None
  <2>1. \A w \in Workers : pc[w] = "done" /\ WorkerCall(w)
    BY DEF Turning, Alive, IInv, WorkerCalls
  <2> QED BY <2>1 DEF WorkerCall
<1>12. TypeOK' /\ Locking'
  <2>1. Controller' /\ Locking'
    BY <1>7, MainIsTask, TurnLocking DEF IInv
  <2>2. Scheduling'
    <3>1. /\ job' \in [Workers -> Jobs \cup {None}] /\ cancelled' \subseteq Tasks
          /\ cancels' \in 0..MaxCancels
      BY <1>6 DEF Turning, IInv, TypeOK
    <3>2. <<>> \in Seq(R!Planning) /\ FALSE \in BOOLEAN /\ n \in Nat
      BY <1>2 DEF n
    <3>3. /\ "join" \in MainPcs /\ {"get", "done"} \subseteq WorkerPcs
      BY DEF MainPcs, WorkerPcs
    <3> QED BY <1>6, <1>7, <1>9, <1>10, <3>1, <3>2, <3>3 DEF Scheduling, n
  <2> QED BY <2>1, <2>2 DEF TypeOK, Controller, Scheduling
<1>13. Snapshots'
  BY <1>8, SnapshotsStep DEF IInv
<1>14. WorkerCalls' /\ WorkersProgress'
  BY <1>6, <1>8, <1>10, <1>11 DEF WorkerCalls, WorkerCall, WorkersProgress
<1>15. MainCall' /\ MainProgress' /\ Ends' /\ Orphans'
  <2>1. MainCall'
    BY <1>8, <1>10 DEF MainCall, Ended
  <2>2. MainProgress'
    <3>1. Phase' = "generating_units"
      BY <1>3, <1>8 DEF Phase
    <3> QED BY <1>10, <3>1 DEF MainProgress
  <2>3. Ends' /\ Orphans'
    BY <1>10 DEF Ends, Orphans, Ended
  <2> QED BY <2>1, <2>2, <2>3
<1>16. Pool'
  BY <1>5, <1>6, <1>9, <1>10 DEF Pool, Winding
<1>17. QueuedJobsCurrent'
  <2> SUFFICES ASSUME NEW k \in 1..n
               PROVE  /\ JobCurrent(queue[k])'
                      /\ \A l \in 1..n : queue'[l].id.unit = queue'[k].id.unit => l = k
    BY <1>6, <1>9, <1>11 DEF QueuedJobsCurrent
  <2>1. JobCurrent(queue[k])' <=> JobCurrent(queue'[k])
    BY <1>8 DEF JobCurrent, NextJob, UnitStatus, R!Active
  <2>2. JobCurrent(queue'[k])
    BY <1>5, <1>9 DEF n
  <2>3. \A l \in 1..n : queue'[l].id.unit = models[l]
    BY <1>5, <1>9 DEF n
  <2> QED BY <1>2, <2>1, <2>2, <2>3 DEF n
<1>18. JoinCounter'
  <2>1. Busy' = {}
    BY <1>10 DEF Busy
  <2>2. Cardinality(Busy') = 0
    BY <2>1, FS_EmptySet
  <2> QED BY <1>2, <1>6, <1>9, <2>2 DEF JoinCounter, Busy, n
<1>19. Faultless'
  <2>1. ASSUME NEW u \in R!Planning
        PROVE  Unit(u)'.status \in R!RoundEnded \/ Held(u)'
    <3>1. Unit(u).status \in R!RoundEnded \/ UnitStatus(u) = "pending"
      BY <1>3 DEF Between, Unit, UnitStatus
    <3>2. CASE Unit(u).status \in R!RoundEnded
      BY <1>8, <3>2 DEF Unit
    <3>3. CASE UnitStatus(u) = "pending"
      <4>1. u \in S
        BY <1>3, <3>3 DEF S, PendingOf, R!Planning
      <4>2. PICK k \in 1..n : models[k] = u
        BY <1>2, <4>1 DEF n
      <4>3. k \in DOMAIN queue' /\ queue'[k] # None /\ queue'[k].id.unit = u
        BY <1>5, <1>9, <4>2 DEF n
      <4> QED BY <4>3 DEF Held
    <3> QED BY <3>1, <3>2, <3>3
  <2>2. Live' /\ (R!RoundEnded)' = R!RoundEnded /\ (R!Planning)' = R!Planning
    BY <1>3, <1>8 DEF Live, R!RoundEnded, R!Planning
  <2> QED BY <1>6, <1>10, <2>1, <2>2 DEF Faultless, Leading
<1>20. Recording'
  BY <1>10 DEF Recording, CancelBeforeLastAwaitIsRecorded, Cancelling, Turning
<1> QED BY <1>12, <1>13, <1>14, <1>15, <1>16, <1>17, <1>18, <1>19, <1>20 DEF IInv

\* Between two rounds.
Rested == Live => Phase = "generating_units" /\ \A u \in R!Planning : Between(u)

\* The model units of the round, or its barrier when there are none.
LEMMA WorkersStart ==
  ASSUME IInv, Turning, Rested, StartsWorkers,
         Live => \A u \in R!Planning : Strategy[u] = "deterministic" => UnitStatus(u) # "pending"
  PROVE  IInv'
<1>1. CASE PendingOf("model") = {}
  <2>1. EntersBarrier
    BY <1>1 DEF StartsWorkers
  <2>2. ASSUME Live, NEW u \in R!Planning PROVE Unit(u).status \in R!RoundEnded
    <3>1. u \in Units /\ Strategy[u] \in {"model", "deterministic"} /\ Between(u)
      BY <2>2 DEF R!Planning, Rested
    <3>2. Unit(u).status # "pending"
      BY <1>1, <2>2, <3>1 DEF PendingOf, UnitStatus, Unit
    <3> QED BY <3>1, <3>2 DEF Between
  <2>3. Live => Phase = "generating_units" /\ R!AllIn(snapshot, R!RoundEnded)
    BY <2>2 DEF Rested, R!AllIn, Unit
  <2> QED BY <2>1, <2>3, BarrierStep
<1>2. CASE PendingOf("model") # {}
  <2>1. PICK models \in InOrder(PendingOf("model")) : StartsPool(models)
    BY <1>2 DEF StartsWorkers
  <2> QED BY <1>2, <2>1, PoolStep DEF Rested
<1> QED BY <1>1, <1>2

\* Deterministic units are run in turn.
LEMMA DeterministicStep ==
  ASSUME IInv, Turning, Rested, NEW units \in Seq(R!Planning), RunsDeterministic(units),
         Live => \A k, l \in DOMAIN units : units[k] = units[l] => k = l,
         Live => \A k \in DOMAIN units : Strategy[units[k]] = "deterministic",
         Live => \A u \in R!Planning :
                   Strategy[u] = "deterministic" =>
                     (UnitStatus(u) = "pending" <=> \E k \in DOMAIN units : units[k] = u)
  PROVE  IInv'
<1>1. CASE units = <<>>
  <2>1. StartsWorkers
    BY <1>1 DEF RunsDeterministic
  <2>2. DOMAIN units = {}
    BY <1>1
  <2> QED BY <2>1, <2>2, WorkersStart
<1>2. CASE units # <<>>
  <2> DEFINE h == Head(units)
             i == DeterministicId(h)
             e == Event("UnitAttemptStarted", i)
  <2>1. h \in R!Planning /\ h = units[1] /\ 1 \in DOMAIN units
    BY <1>2, HeadOf
  <2>2. i \in R!Identity /\ i.unit = h
    <3>1. snapshot.units[h] \in R!UnitState /\ h \in Units
      BY <2>1, Contract DEF IInv, R!Run, R!Planning
    <3>2. snapshot.units[h].round \in 1..(GlobalLimit + 1) /\ 1 \in 1..LocalMax
      BY <3>1, SchedulerAssumption DEF R!UnitState
    <3> QED BY <3>1, <3>2 DEF DeterministicId, R!Identity
  <2>3. EventOk(e) /\ e # None /\ e.type = "UnitAttemptStarted" /\ e.arg = i
    <3>1. "UnitAttemptStarted" \in Events /\ "UnitAttemptStarted" \notin UnitEvents
      BY DEF Events, AttemptEvents, UnitEvents
    <3>2. i \in Arguments
      BY <2>2 DEF Arguments
    <3> QED BY <2>2, <3>1, <3>2, EventIsSome
  <2>4. todo' = units /\ Awaits("det_start", e)
    BY <1>2 DEF RunsDeterministic
  <2>5. Aims("det_start", e)
    BY <2>3, <2>4, Resumes DEF Turning
  <2>6. pc'[Main] = "det_start" /\ call'[Main] = e /\ snapshot' = snapshot /\ ~Applied(Main)'
    BY <2>5, Aimed
  <2>7. i = [unit |-> h, round |-> Unit(h).round, attempt |-> 1]
    BY DEF DeterministicId, Unit
  <2> HIDE DEF e, i, h
  <2>8. MainCall'
    <3>1. todo' # <<>> /\ e.arg.unit = Head(todo')
      BY <1>2, <2>2, <2>3, <2>4 DEF h
    <3> QED BY <2>3, <2>6, <3>1 DEF MainCall, Ended
  <2>9. ASSUME Live
        PROVE  /\ Listed' /\ Unit(h).status = "pending"
    <3>1. Phase = "generating_units" /\ \A u \in R!Planning : Between(u)
      BY <2>9 DEF Rested
    <3>2. /\ \A u : Unit(u)' = Unit(u) /\ (Between(u)' <=> Between(u))
          /\ Phase' = Phase
      BY <2>6 DEF Unit, Between, R!RoundEnded, Phase
    <3>3. \A u \in R!Planning : Strategy[u] = "deterministic" =>
             (Unit(u).status = "pending" <=> \E k \in DOMAIN units : units[k] = u)
      BY <2>9 DEF Unit, UnitStatus
    <3>4. Unit(h).status = "pending"
      BY <2>1, <2>9, <3>3
    <3> QED BY <2>4, <2>9, <3>1, <3>2, <3>3, <3>4 DEF Listed, R!Planning
  <2>10. MainProgress'
    <3> SUFFICES ASSUME Live PROVE Determined(Applied(Main))'
      BY <2>6 DEF MainProgress, Live
    <3>1. Listed' /\ Unit(h).status = "pending"
      BY <2>9
    <3>2. Unit(h)' = Unit(h) /\ h' = h
      BY <2>4, <2>6 DEF Unit, h
    <3>3. call'[Main].arg = DeterministicId(Head(todo))'
      BY <2>3, <2>4, <2>6, <2>7 DEF DeterministicId, h, Unit
    <3>4. Unit(Head(todo))' = Unit(h)
      BY <2>4, <2>6 DEF Unit, h
    <3> QED BY <2>6, <3>1, <3>3, <3>4 DEF Determined
  <2>11. todo' \in Seq(R!Planning) /\ "det_start" \in Leading
    BY <2>4 DEF Leading
  <2> QED BY <2>3, <2>4, <2>8, <2>10, <2>11, LeadsOn
<1> QED BY <1>1, <1>2

\* A round starts with the deterministic units that are pending.
LEMMA RoundStep ==
  ASSUME IInv, Turning, Rested, StartsRound
  PROVE  IInv'
<1> DEFINE S == PendingOf("deterministic")
<1>1. PICK units \in InOrder(S) : RunsDeterministic(units)
  BY DEF StartsRound
<1>2. S \in SUBSET R!Planning
  BY DEF PendingOf, R!Planning
<1>3. /\ units \in Seq(R!Planning)
      /\ \A k, l \in DOMAIN units : units[k] = units[l] => k = l
      /\ \A k \in DOMAIN units : units[k] \in S
      /\ \A u \in S : \E k \in DOMAIN units : units[k] = u
  BY <1>2, Ordered
<1>4. \A u : u \in S <=> u \in Units /\ Strategy[u] = "deterministic" /\ UnitStatus(u) = "pending"
  BY DEF PendingOf
<1>5. R!Planning \subseteq Units
  BY DEF R!Planning
<1> HIDE DEF S
<1>6. \A k \in DOMAIN units : Strategy[units[k]] = "deterministic"
  BY <1>3, <1>4
<1>7. \A u \in R!Planning :
         Strategy[u] = "deterministic" =>
           (UnitStatus(u) = "pending" <=> \E k \in DOMAIN units : units[k] = u)
  BY <1>3, <1>4, <1>5
<1> QED BY <1>1, <1>3, <1>6, <1>7, DeterministicStep

\* Recovered candidates come first, each for a unit nothing was done for.
LEMMA RecoversStep ==
  ASSUME IInv, Turning, Rested, NEW units \in Seq(R!Planning), Recovers(units),
         Live => \A k, l \in DOMAIN units : units[k] = units[l] => k = l,
         Live => \A k \in DOMAIN units : Untouched(units[k])
  PROVE  IInv'
<1>1. CASE units = <<>>
  BY <1>1, RoundStep DEF Recovers
<1>2. CASE units # <<>>
  <2> DEFINE h == Head(units)
             e == Event("RecoveredCandidateAccepted", h)
  <2>1. h \in R!Planning /\ h = units[1] /\ 1 \in DOMAIN units
    BY <1>2, HeadOf
  <2>2. EventOk(e) /\ e # None
    <3>1. "RecoveredCandidateAccepted" \in Events \ AttemptEvents
      BY DEF Events, AttemptEvents, UnitEvents
    <3>2. h \in Arguments
      BY <2>1 DEF Arguments, R!Planning
    <3> QED BY <2>1, <3>1, <3>2, EventIsSome
  <2>3. todo' = units /\ Awaits("recover", e)
    BY <1>2 DEF Recovers
  <2>4. Aims("recover", e)
    BY <2>2, <2>3, Resumes DEF Turning
  <2>5. pc'[Main] = "recover" /\ call'[Main] = e /\ snapshot' = snapshot /\ ~Applied(Main)'
    BY <2>4, Aimed
  <2>6. MainCall'
    BY <1>2, <2>2, <2>3, <2>5 DEF MainCall, Ended
  <2>7. MainProgress'
    <3> SUFFICES ASSUME Live PROVE Recovering(Applied(Main))'
      BY <2>5 DEF MainProgress, Live
    <3>1. \A u : (Between(u)' <=> Between(u)) /\ (Untouched(u)' <=> Untouched(u))
      BY <2>5 DEF Unit, Between, Untouched, R!RoundEnded
    <3>2. \A k \in DOMAIN units : Untouched(todo[k])' <=> Untouched(units[k])
      BY <2>3, <2>5 DEF Unit, Untouched
    <3>3. Phase' = "generating_units" /\ \A u \in R!Planning : Between(u)'
      BY <2>5, <3>1 DEF Rested, Phase
    <3> QED BY <2>3, <3>2, <3>3 DEF Recovering, R!Planning
  <2>8. todo' \in Seq(R!Planning) /\ "recover" \in Leading
    BY <2>3 DEF Leading
  <2> QED BY <2>2, <2>3, <2>6, <2>7, <2>8, LeadsOn
<1> QED BY <1>1, <1>2

\* The orchestrator resumes from an apply outside of the pool.
LEMMA OnItsWay ==
  ASSUME IInv, pc[Main] \in Leading, Returns(Main, "ok"),
         cancelled' = cancelled \ {Main}, UNCHANGED cancels
  PROVE  /\ pc[Main] \notin {"det_fail", "fail_run"} => Turning
         /\ Live => Applied(Main)
         /\ faults' = faults /\ Main \notin cancelled /\ call[Main] # None /\ Alive = {}
<1>1. Alive = {}
  BY DEF IInv, Pool, Leading, Winding
<1>2. /\ faults' = faults /\ Main \notin cancelled /\ call[Main] # None
      /\ Applied(Main) \/ (Ignored(call[Main]) /\ ~Live)
  BY MainIsTask, Returned
<1>3. ASSUME pc[Main] \notin {"det_fail", "fail_run"}, faults' = 0 PROVE Live
  BY <1>2, <1>3 DEF IInv, Faultless
<1>4. pc[Main] # "join"
  BY DEF Leading
<1> QED BY <1>1, <1>2, <1>3, <1>4 DEF Turning

\* The generation has begun.
LEMMA BegunStep ==
  ASSUME IInv, MainBegun, cancelled' = cancelled \ {Main}, UNCHANGED cancels
  PROVE  IInv'
<1>1. pc[Main] = "begin" /\ Returns(Main, "ok")
      /\ \E S \in SUBSET (Recoverable \cap R!Planning) : \E units \in InOrder(S) : Recovers(units)
  BY DEF MainBegun
<1>2. PICK S \in SUBSET (Recoverable \cap R!Planning) : \E units \in InOrder(S) : Recovers(units)
  BY <1>1
<1>3. PICK units \in InOrder(S) : Recovers(units)
  BY <1>2
<1>4. Turning /\ (Live => Applied(Main))
  BY <1>1, OnItsWay DEF Leading
<1>5. /\ units \in Seq(R!Planning) /\ \A k, l \in DOMAIN units : units[k] = units[l] => k = l
      /\ \A k \in DOMAIN units : units[k] \in S
  BY Ordered
<1>6. ASSUME Live
      PROVE  /\ Phase = "generating_units"
             /\ \A u \in R!Planning : Untouched(u) /\ Between(u)
  <2>1. snapshot = R!BeginGeneration(R!NewRun)
    BY <1>1, <1>4, <1>6 DEF IInv, MainProgress
  <2>2. Phase = "generating_units" /\ snapshot.units = R!NewRun.units
    BY <2>1 DEF R!BeginGeneration, R!NewRun, Phase
  <2>3. ASSUME NEW u \in R!Planning PROVE Unit(u) = R!NewUnit(u) /\ R!NewUnit(u).status = "pending"
    <3>1. R!NewRun.units = [v \in Units |-> R!NewUnit(v)]
      BY DEF R!NewRun
    <3> QED BY <2>2, <3>1 DEF Unit, R!Planning, R!NewUnit
  <2>4. \A u \in R!Planning : Untouched(u)
    BY <2>3 DEF Untouched, R!NewUnit
  <2> QED BY <2>2, <2>4 DEF Untouched, Between
<1> QED BY <1>3, <1>4, <1>5, <1>6, RecoversStep DEF Rested

\* What remains of the list.
LEMMA TodoTail ==
  ASSUME TypeOK, todo # <<>>, \A k, l \in DOMAIN todo : todo[k] = todo[l] => k = l
  PROVE  /\ Tail(todo) \in Seq(R!Planning)
         /\ Head(todo) = todo[1] /\ 1 \in DOMAIN todo /\ Head(todo) \in R!Planning
         /\ \A k, l \in DOMAIN Tail(todo) : Tail(todo)[k] = Tail(todo)[l] => k = l
         /\ \A k \in DOMAIN Tail(todo) : \E l \in DOMAIN todo \ {1} : Tail(todo)[k] = todo[l]
         /\ \A l \in DOMAIN todo \ {1} : \E k \in DOMAIN Tail(todo) : Tail(todo)[k] = todo[l]
         /\ \A k \in DOMAIN Tail(todo) : Tail(todo)[k] # Head(todo)
<1>1. todo \in Seq(R!Planning)
  BY DEF TypeOK
<1>2. /\ Head(todo) = todo[1] /\ 1 \in DOMAIN todo /\ Head(todo) \in R!Planning
      /\ Len(todo) \in Nat /\ DOMAIN todo = 1..Len(todo)
      /\ Tail(todo) \in Seq(R!Planning) /\ DOMAIN Tail(todo) = 1..(Len(todo) - 1)
      /\ \A k \in 1..(Len(todo) - 1) : Tail(todo)[k] = todo[k + 1]
  BY <1>1, HeadOf
<1>3. ASSUME NEW k \in 1..(Len(todo) - 1)
      PROVE  k + 1 \in DOMAIN todo \ {1} /\ Tail(todo)[k] = todo[k + 1] /\ Tail(todo)[k] # todo[1]
  <2>1. k + 1 \in DOMAIN todo \ {1} /\ Tail(todo)[k] = todo[k + 1]
    BY <1>2
  <2> QED BY <1>2, <2>1
<1>4. ASSUME NEW k \in 1..(Len(todo) - 1), NEW l \in 1..(Len(todo) - 1), Tail(todo)[k] = Tail(todo)[l]
      PROVE  k = l
  <2>1. k + 1 = l + 1
    BY <1>3, <1>4
  <2> QED BY <2>1
<1>5. ASSUME NEW l \in DOMAIN todo \ {1}
      PROVE  \E k \in DOMAIN Tail(todo) : Tail(todo)[k] = todo[l]
  <2>1. l - 1 \in 1..(Len(todo) - 1) /\ (l - 1) + 1 = l
    BY <1>2, <1>5
  <2> QED BY <1>2, <2>1
<1>6. Tail(todo) \in Seq(R!Planning) /\ Head(todo) = todo[1] /\ 1 \in DOMAIN todo /\ Head(todo) \in R!Planning
  BY <1>2
<1>7. \A k, l \in DOMAIN Tail(todo) : Tail(todo)[k] = Tail(todo)[l] => k = l
  BY <1>2, <1>4
<1>8. \A k \in DOMAIN Tail(todo) : \E l \in DOMAIN todo \ {1} : Tail(todo)[k] = todo[l]
  BY <1>2, <1>3
<1>9. \A k \in DOMAIN Tail(todo) : Tail(todo)[k] # Head(todo)
  BY <1>2, <1>3
<1> QED BY <1>5, <1>6, <1>7, <1>8, <1>9

\* A recovered candidate was accepted.
LEMMA RecoveredStep ==
  ASSUME IInv, MainRecovered, cancelled' = cancelled \ {Main}, UNCHANGED cancels
  PROVE  IInv'
<1>1. pc[Main] = "recover" /\ Returns(Main, "ok") /\ Recovers(Tail(todo))
  BY DEF MainRecovered
<1>2. Turning /\ (Live => Applied(Main))
  BY <1>1, OnItsWay DEF Leading
<1>3. Live => Recovering(Applied(Main))
  BY <1>1 DEF IInv, MainProgress
<1>4. Live => /\ Phase = "generating_units"
              /\ \A k, l \in DOMAIN todo : todo[k] = todo[l] => k = l
              /\ \A u \in R!Planning : Between(u)
              /\ \A k \in DOMAIN todo : k # 1 => Untouched(todo[k])
  BY <1>3 DEF Recovering
<1>5. todo # <<>> /\ todo \in Seq(R!Planning) /\ TypeOK /\ Tail(todo) \in Seq(R!Planning)
  <2>1. todo # <<>> /\ todo \in Seq(R!Planning)
    BY <1>1 DEF IInv, MainCall, TypeOK
  <2> QED BY <2>1, HeadOf DEF IInv
<1>6. Rested
  BY <1>4 DEF Rested
<1>7. ASSUME Live
      PROVE  /\ \A k, l \in DOMAIN Tail(todo) : Tail(todo)[k] = Tail(todo)[l] => k = l
             /\ \A k \in DOMAIN Tail(todo) : Untouched(Tail(todo)[k])
  <2>1. /\ \A k, l \in DOMAIN Tail(todo) : Tail(todo)[k] = Tail(todo)[l] => k = l
        /\ \A k \in DOMAIN Tail(todo) : \E l \in DOMAIN todo \ {1} : Tail(todo)[k] = todo[l]
    BY <1>4, <1>5, <1>7, TodoTail
  <2>2. ASSUME NEW k \in DOMAIN Tail(todo) PROVE Untouched(Tail(todo)[k])
    <3>1. PICK l \in DOMAIN todo \ {1} : Tail(todo)[k] = todo[l]
      BY <2>1
    <3>2. Untouched(todo[l])
      BY <1>4, <1>7, <3>1
    <3> QED BY <3>1, <3>2
  <2> QED BY <2>1, <2>2
<1> QED BY <1>1, <1>2, <1>5, <1>6, <1>7, RecoversStep

\* A repair has reopened its targets.
LEMMA RepairedStep ==
  ASSUME IInv, MainRepaired, cancelled' = cancelled \ {Main}, UNCHANGED cancels
  PROVE  IInv'
<1>1. pc[Main] = "repair" /\ Returns(Main, "ok") /\ StartsRound
  BY DEF MainRepaired
<1>2. Turning /\ (Live => Applied(Main))
  BY <1>1, OnItsWay DEF Leading
<1>3. Live => Repairing(Applied(Main))
  BY <1>1 DEF IInv, MainProgress
<1>4. Rested
  BY <1>2, <1>3 DEF Repairing, Rested
<1> QED BY <1>1, <1>2, <1>4, RoundStep

\* The events of the orchestrator that are about the whole run.
RunEvents == Events \ (AttemptEvents \cup UnitEvents \cup {"GlobalRepairStarted"})

\* Such an event has no argument.
LEMMA RunEvent ==
  ASSUME NEW type \in RunEvents
  PROVE  /\ EventOk(Event(type, None)) /\ Event(type, None) # None
         /\ Event(type, None).type = type
<1>1. type \in Events \ (AttemptEvents \cup UnitEvents) /\ type # "GlobalRepairStarted"
  BY DEF RunEvents
<1>2. None \in Arguments
  BY DEF Arguments
<1> QED BY <1>1, <1>2, EventIsSome

\* The ones the lemmas below are about.
LEMMA RunEventNames ==
  {"GlobalCheckStarted", "AssemblyStarted", "GlobalValidationStarted", "PendingPersistenceStarted",
   "RunFailed", "RunCancelled"} \subseteq RunEvents
BY DEF RunEvents, Events, AttemptEvents, UnitEvents

\* The orchestrator goes on to record the failure of the run.
LEMMA FailsOn ==
  ASSUME IInv, Turning, NEW next \in {"det_fail", "fail_run"},
         Awaits(next, Event("RunFailed", None)), todo' = todo
  PROVE  IInv'
<1> DEFINE e == Event("RunFailed", None)
<1>1. EventOk(e) /\ e # None
  BY RunEvent, RunEventNames
<1>2. Aims(next, e)
  BY <1>1, Resumes DEF Turning
<1>3. pc'[Main] = next /\ call'[Main] = e
  BY <1>2, Aimed
<1>4. MainCall' /\ MainProgress'
  <2>1. MainCall'
    BY <1>1, <1>3 DEF MainCall, Ended
  <2>2. MainProgress'
    BY <1>3 DEF MainProgress
  <2> QED BY <2>1, <2>2
<1>5. todo' \in Seq(R!Planning) /\ next \in Leading
  BY DEF IInv, TypeOK, Leading
<1> QED BY <1>1, <1>4, <1>5, LeadsOn

\* The identity a deterministic unit in flight is expected with.
LEMMA DeterministicExpected ==
  ASSUME IInv, NEW h \in R!Planning, Strategy[h] = "deterministic", Unit(h).status \in R!InFlight
  PROVE  Unit(h).expected = DeterministicId(h)
<1>1. h \in Units /\ R!UnitLifecycle(h, Unit(h))
  BY Contract DEF IInv, R!LifecycleValid, R!Planning, Unit
<1> QED BY <1>1 DEF R!UnitLifecycle, DeterministicId, Unit

\* A deterministic unit goes on to its next event.
LEMMA DeterministicNext ==
  ASSUME IInv, Turning, todo' = todo, todo # <<>>,
         NEW next, NEW type,
         \/ next = "det_validate" /\ type = "UnitValidationStarted"
         \/ next = "det_ready" /\ type = "CandidateReady",
         Awaits(next, Event(type, DeterministicId(Head(todo)))),
         Live => /\ Listed
                 /\ Unit(Head(todo)).status =
                      IF next = "det_validate" THEN "generating" ELSE "validating"
  PROVE  IInv'
<1> DEFINE h == Head(todo)
           i == DeterministicId(h)
           e == Event(type, i)
<1>1. h \in R!Planning /\ h = todo[1] /\ 1 \in DOMAIN todo /\ todo \in Seq(R!Planning)
  BY HeadOf DEF IInv, TypeOK
<1>2. i \in R!Identity /\ i.unit = h
  <2>1. snapshot.units[h] \in R!UnitState /\ h \in Units
    BY <1>1, Contract DEF IInv, R!Run, R!Planning
  <2>2. snapshot.units[h].round \in 1..(GlobalLimit + 1) /\ 1 \in 1..LocalMax
    BY <2>1, SchedulerAssumption DEF R!UnitState
  <2> QED BY <2>1, <2>2 DEF DeterministicId, R!Identity
<1>3. EventOk(e) /\ e # None /\ e.type = type /\ e.arg = i
  <2>1. type \in Events /\ type \notin UnitEvents /\ type # "GlobalRepairStarted"
    BY DEF Events, AttemptEvents, UnitEvents
  <2>2. i \in Arguments
    BY <1>2 DEF Arguments
  <2> QED BY <1>2, <2>1, <2>2, EventIsSome
<1>4. Aims(next, e)
  BY <1>3, Resumes DEF Turning
<1>5. pc'[Main] = next /\ call'[Main] = e /\ snapshot' = snapshot /\ ~Applied(Main)'
  BY <1>4, Aimed
<1>6. ASSUME Live PROVE Listed /\ Unit(h).expected = i
  <2>1. Listed /\ Unit(h).status \in R!InFlight
    BY <1>6 DEF R!InFlight
  <2>2. Strategy[h] = "deterministic"
    BY <1>1, <2>1 DEF Listed
  <2> QED BY <1>1, <2>1, <2>2, DeterministicExpected
<1> HIDE DEF e, i, h
<1>7. MainCall'
  <2>1. e.arg.unit = Head(todo') /\ todo' # <<>>
    BY <1>2, <1>3 DEF h
  <2>2. next \in {"det_validate", "det_ready"}
    OBVIOUS
  <2> QED BY <1>3, <1>5, <2>1, <2>2 DEF MainCall, Ended
<1>8. MainProgress'
  <2> SUFFICES ASSUME Live PROVE Determined(Applied(Main))'
    BY <1>5 DEF MainProgress, Live
  <2>1. Listed' <=> Listed
    BY <1>5 DEF Listed, Phase, Between, Unit, R!RoundEnded, R!Planning
  <2>2. Unit(Head(todo))' = Unit(h) /\ call'[Main].arg = i
    BY <1>3, <1>5 DEF Unit, h
  <2>3. Unit(h).status = IF next = "det_validate" THEN "generating" ELSE "validating"
    BY DEF h
  <2> QED BY <1>5, <1>6, <2>1, <2>2, <2>3 DEF Determined
<1>9. next \in Leading /\ Awaits(next, e)
  BY DEF Leading, e, i, h
<1> QED BY <1>1, <1>3, <1>7, <1>8, <1>9, LeadsOn

\* The run of a deterministic unit, from its start to the next unit.
LEMMA DeterministicSteps ==
  ASSUME IInv, cancelled' = cancelled \ {Main}, UNCHANGED cancels,
         \/ MainDeterministicStarted \/ MainDeterministicValidated \/ MainDeterministicReady
  PROVE  IInv'
<1>1. pc[Main] \in {"det_start", "det_validate", "det_ready"} /\ Returns(Main, "ok")
  BY DEF MainDeterministicStarted, MainDeterministicValidated, MainDeterministicReady
<1>2. Turning /\ (Live => Applied(Main))
  BY <1>1, OnItsWay DEF Leading
<1>3. todo # <<>> /\ call[Main].arg.unit = Head(todo)
  BY <1>1 DEF IInv, MainCall
<1>4. Live => Determined(Applied(Main))
  BY <1>1 DEF IInv, MainProgress
<1>5. Live => /\ Listed
              /\ pc[Main] = "det_start" => Unit(Head(todo)).status = "generating"
              /\ pc[Main] = "det_validate" => Unit(Head(todo)).status = "validating"
              /\ pc[Main] = "det_ready" => Unit(Head(todo)).status = "candidate_ready"
  BY <1>2, <1>4 DEF Determined
<1>6. CASE MainDeterministicStarted
  <2>1. pc[Main] = "det_start" /\ todo' = todo
        /\ \/ Awaits("det_validate", Event("UnitValidationStarted", DeterministicId(Head(todo))))
           \/ Awaits("det_fail", Event("RunFailed", None))
    BY <1>6 DEF MainDeterministicStarted
  <2>2. CASE Awaits("det_fail", Event("RunFailed", None))
    BY <1>2, <2>1, <2>2, FailsOn
  <2>3. CASE Awaits("det_validate", Event("UnitValidationStarted", DeterministicId(Head(todo))))
    <3>1. Live => Listed /\ Unit(Head(todo)).status =
                      IF "det_validate" = "det_validate" THEN "generating" ELSE "validating"
      BY <1>5, <2>1
    <3> QED BY <1>2, <1>3, <2>1, <2>3, <3>1, DeterministicNext
  <2> QED BY <2>1, <2>2, <2>3
<1>7. CASE MainDeterministicValidated
  <2>1. pc[Main] = "det_validate" /\ todo' = todo
        /\ Awaits("det_ready", Event("CandidateReady", DeterministicId(Head(todo))))
    BY <1>7 DEF MainDeterministicValidated
  <2>2. Live => Listed /\ Unit(Head(todo)).status =
                      IF "det_ready" = "det_validate" THEN "generating" ELSE "validating"
    BY <1>5, <2>1
  <2> QED BY <1>2, <1>3, <2>1, <2>2, DeterministicNext
<1>8. CASE MainDeterministicReady
  <2> DEFINE units == Tail(todo)
  <2>1. pc[Main] = "det_ready" /\ RunsDeterministic(units)
    BY <1>8 DEF MainDeterministicReady
  <2>2. units \in Seq(R!Planning) /\ TypeOK /\ Head(todo) = todo[1] /\ 1 \in DOMAIN todo
        /\ Head(todo) \in R!Planning
    BY <1>3, HeadOf DEF IInv, TypeOK
  <2>3. ASSUME Live
        PROVE  /\ \A k, l \in DOMAIN units : units[k] = units[l] => k = l
               /\ \A k \in DOMAIN units : Strategy[units[k]] = "deterministic"
               /\ \A u \in R!Planning : Strategy[u] = "deterministic" =>
                    (UnitStatus(u) = "pending" <=> \E k \in DOMAIN units : units[k] = u)
               /\ Phase = "generating_units" /\ \A u \in R!Planning : Between(u)
    <3>1. Listed /\ Unit(Head(todo)).status = "candidate_ready"
      BY <1>5, <2>1, <2>3
    <3>2. \A k, l \in DOMAIN todo : todo[k] = todo[l] => k = l
      BY <3>1 DEF Listed
    <3>3. /\ \A k, l \in DOMAIN units : units[k] = units[l] => k = l
          /\ \A k \in DOMAIN units : \E l \in DOMAIN todo \ {1} : units[k] = todo[l]
          /\ \A l \in DOMAIN todo \ {1} : \E k \in DOMAIN units : units[k] = todo[l]
          /\ \A k \in DOMAIN units : units[k] # Head(todo)
      BY <1>3, <2>2, <3>2, TodoTail
    <3> HIDE DEF units
    <3>4. ASSUME NEW k \in DOMAIN units PROVE Strategy[units[k]] = "deterministic"
      BY <3>1, <3>3 DEF Listed
    <3>5. ASSUME NEW u \in R!Planning
          PROVE  /\ Between(u)
                 /\ Strategy[u] = "deterministic" =>
                      (UnitStatus(u) = "pending" <=> \E k \in DOMAIN units : units[k] = u)
      <4>1. CASE u = Head(todo)
        <5>1. Between(u) /\ UnitStatus(u) # "pending"
          BY <3>1, <4>1 DEF Between, R!RoundEnded, UnitStatus, Unit
        <5> QED BY <3>3, <4>1, <5>1
      <4>2. CASE u # Head(todo)
        <5>1. /\ Between(u)
              /\ Strategy[u] = "deterministic" =>
                   (UnitStatus(u) = "pending" <=> \E k \in DOMAIN todo : todo[k] = u)
          BY <3>1, <4>2 DEF Listed, Unit, UnitStatus
        <5>2. (\E k \in DOMAIN todo : todo[k] = u) <=> (\E k \in DOMAIN units : units[k] = u)
          <6>1. ASSUME NEW k \in DOMAIN todo, todo[k] = u PROVE \E l \in DOMAIN units : units[l] = u
            BY <2>2, <3>3, <4>2, <6>1
          <6> QED BY <3>3, <6>1
        <5> QED BY <5>1, <5>2
      <4> QED BY <4>1, <4>2
    <3>6. Phase = "generating_units"
      BY <3>1 DEF Listed
    <3> QED BY <3>3, <3>4, <3>5, <3>6
  <2> HIDE DEF units
  <2>4. Rested
    BY <2>3 DEF Rested
  <2> QED BY <1>2, <2>1, <2>2, <2>3, <2>4, DeterministicStep
<1> QED BY <1>6, <1>7, <1>8

\* The orchestrator goes on with an event about the whole run.
LEMMA RunGoesOn ==
  ASSUME IInv, Turning, todo' = todo, NEW next, NEW type, Awaits(next, Event(type, None)),
         \/ next = "assemble" /\ type = "AssemblyStarted"
         \/ next = "validate" /\ type = "GlobalValidationStarted"
         \/ next = "persist" /\ type = "PendingPersistenceStarted",
         Live => /\ next = "assemble" =>
                      R!AllIn(snapshot, {"candidate_ready"}) /\ Phase = "global_check"
                 /\ next = "validate" => Phase = "assembling"
                 /\ next = "persist" => Phase = "validating"
  PROVE  IInv'
<1> DEFINE e == Event(type, None)
<1>1. EventOk(e) /\ e # None /\ e.type = type
  BY RunEvent, RunEventNames
<1>2. Aims(next, e)
  BY <1>1, Resumes DEF Turning
<1>3. pc'[Main] = next /\ call'[Main] = e /\ snapshot' = snapshot /\ ~Applied(Main)'
  BY <1>2, Aimed
<1>4. MainCall'
  BY <1>1, <1>3 DEF MainCall, Ended
<1>5. MainProgress'
  <2>1. R!AllIn(snapshot, {"candidate_ready"})' <=> R!AllIn(snapshot, {"candidate_ready"})
    BY <1>3 DEF R!AllIn, R!Planning
  <2>2. (Live' <=> Live) /\ Phase' = Phase
    BY <1>3 DEF Live, Phase
  <2> QED BY <1>3, <2>1, <2>2 DEF MainProgress
<1>6. next \in Leading /\ todo' \in Seq(R!Planning)
  BY DEF Leading, IInv, TypeOK
<1> QED BY <1>1, <1>4, <1>5, <1>6, LeadsOn

\* The orchestrator decides on a repair of T, or fails the run.
LEMMA DecidesStep ==
  ASSUME IInv, Turning, NEW T \in SUBSET R!Planning, Decides(T),
         Live => /\ Phase \in {"global_check", "assembling", "validating"}
                 /\ T # {} => R!AllIn(snapshot, R!RoundEnded)
  PROVE  IInv'
<1>1. CASE T = {} \/ snapshot.globalRound >= GlobalLimit
  <2>1. Awaits("fail_run", Event("RunFailed", None)) /\ todo' = todo
    BY <1>1 DEF Decides
  <2> QED BY <2>1, FailsOn
<1>2. CASE ~(T = {} \/ snapshot.globalRound >= GlobalLimit)
  <2> DEFINE e == Event("GlobalRepairStarted", T)
  <2>1. Awaits("repair", e) /\ todo' = todo
    BY <1>2 DEF Decides
  <2>2. EventOk(e) /\ e # None /\ e.type = "GlobalRepairStarted" /\ e.arg = T
    <3>1. "GlobalRepairStarted" \in Events \ (AttemptEvents \cup UnitEvents)
      BY DEF Events, AttemptEvents, UnitEvents
    <3>2. T \in Arguments
      BY DEF Arguments, R!Planning
    <3> QED BY <3>1, <3>2, EventIsSome
  <2>3. Aims("repair", e)
    BY <2>1, <2>2, Resumes DEF Turning
  <2>4. pc'[Main] = "repair" /\ call'[Main] = e /\ snapshot' = snapshot /\ ~Applied(Main)'
    BY <2>3, Aimed
  <2> HIDE DEF e
  <2>5. MainCall'
    BY <2>2, <2>4 DEF MainCall, Ended
  <2>6. ASSUME Live PROVE R!CanBeginGlobalRepair(snapshot, T) /\ R!AllIn(snapshot, R!RoundEnded)
    <3>1. R!AllIn(snapshot, R!RoundEnded) /\ Phase \in {"global_check", "assembling", "validating"}
      BY <1>2, <2>6
    <3>2. snapshot.globalRound < GlobalLimit
      <4>1. snapshot.globalRound \in 0..GlobalLimit
        BY Contract DEF IInv, R!Run
      <4> QED BY <1>2, <4>1, SchedulerAssumption
    <3>3. T # {} /\ T \subseteq Units /\ \A u \in T : snapshot.units[u].status \in R!RoundEnded
      BY <1>2, <3>1 DEF R!AllIn, R!Planning
    <3> QED BY <2>6, <3>1, <3>2, <3>3 DEF R!CanBeginGlobalRepair, R!Active, Live, Phase
  <2>7. MainProgress'
    <3> SUFFICES ASSUME Live PROVE Repairing(Applied(Main))'
      BY <2>4 DEF MainProgress, Live
    <3>1. R!CanBeginGlobalRepair(snapshot, call[Main].arg)' <=> R!CanBeginGlobalRepair(snapshot, T)
      BY <2>2, <2>4 DEF R!CanBeginGlobalRepair, R!Active, R!RoundEnded
    <3>2. R!AllIn(snapshot, R!RoundEnded)' <=> R!AllIn(snapshot, R!RoundEnded)
      BY <2>4 DEF R!AllIn, R!RoundEnded, R!Planning
    <3> QED BY <2>4, <2>6, <3>1, <3>2 DEF Repairing
  <2>8. todo' \in Seq(R!Planning) /\ "repair" \in Leading
    BY <2>1 DEF Leading, IInv, TypeOK
  <2> QED BY <2>1, <2>2, <2>5, <2>7, <2>8, LeadsOn
<1> QED BY <1>1, <1>2

\* The steps after the barrier.
LEMMA GlobalSteps ==
  ASSUME IInv, cancelled' = cancelled \ {Main}, UNCHANGED cancels,
         MainChecked \/ MainAssembled \/ MainValidated
  PROVE  IInv'
<1>1. pc[Main] \in {"check", "assemble", "validate"} /\ Returns(Main, "ok")
  BY DEF MainChecked, MainAssembled, MainValidated
<1>2. Turning /\ (Live => Applied(Main))
  BY <1>1, OnItsWay DEF Leading
<1>3. Live => /\ pc[Main] = "check" => R!AllIn(snapshot, R!RoundEnded) /\ Phase = "global_check"
              /\ pc[Main] = "assemble" =>
                   R!AllIn(snapshot, {"candidate_ready"}) /\ Phase = "assembling"
              /\ pc[Main] = "validate" => Phase = "validating"
  BY <1>2 DEF IInv, MainProgress
<1>4. CASE MainChecked
  <2> DEFINE T == {u \in Units : UnitStatus(u) = "round_exhausted"}
  <2>1. pc[Main] = "check"
    BY <1>4 DEF MainChecked
  <2>2. CASE R!AllIn(snapshot, {"candidate_ready"})
    <3>1. Awaits("assemble", Event("AssemblyStarted", None)) /\ todo' = todo
      BY <1>4, <2>2 DEF MainChecked
    <3> QED BY <1>2, <1>3, <2>1, <2>2, <3>1, RunGoesOn
  <2>3. CASE ~R!AllIn(snapshot, {"candidate_ready"})
    <3>1. Decides(T)
      BY <1>4, <2>3 DEF MainChecked
    <3>2. T \in SUBSET R!Planning
      <4>1. ASSUME NEW u \in Units, UnitStatus(u) = "round_exhausted" PROVE u \in R!Planning
        <5>1. R!UnitLifecycle(u, Unit(u))
          BY Contract DEF IInv, R!LifecycleValid, Unit
        <5> QED BY <4>1, <5>1 DEF R!UnitLifecycle, R!Planning, UnitStatus, Unit
      <4> QED BY <4>1
    <3> HIDE DEF T
    <3> QED BY <1>2, <1>3, <2>1, <3>1, <3>2, DecidesStep
  <2> QED BY <2>2, <2>3
<1>5. CASE MainAssembled
  <2>1. pc[Main] = "assemble"
    BY <1>5 DEF MainAssembled
  <2>2. \/ Awaits("validate", Event("GlobalValidationStarted", None)) /\ todo' = todo
        \/ \E T \in SUBSET R!Planning : Decides(T)
    BY <1>5 DEF MainAssembled
  <2>3. CASE Awaits("validate", Event("GlobalValidationStarted", None)) /\ todo' = todo
    BY <1>2, <1>3, <2>1, <2>3, RunGoesOn
  <2>4. CASE \E T \in SUBSET R!Planning : Decides(T)
    <3>1. PICK T \in SUBSET R!Planning : Decides(T)
      BY <2>4
    <3>2. Live => R!AllIn(snapshot, R!RoundEnded) /\ Phase = "assembling"
      BY <1>3, <2>1 DEF R!AllIn, R!RoundEnded
    <3> QED BY <1>2, <3>1, <3>2, DecidesStep
  <2> QED BY <2>2, <2>3, <2>4
<1>6. CASE MainValidated
  <2>1. pc[Main] = "validate"
    BY <1>6 DEF MainValidated
  <2>2. \/ Awaits("persist", Event("PendingPersistenceStarted", None)) /\ todo' = todo
        \/ Decides({})
    BY <1>6 DEF MainValidated
  <2>3. CASE Awaits("persist", Event("PendingPersistenceStarted", None)) /\ todo' = todo
    BY <1>2, <1>3, <2>1, <2>3, RunGoesOn
  <2>4. CASE Decides({})
    BY <1>2, <1>3, <2>1, <2>4, DecidesStep
  <2> QED BY <2>2, <2>3, <2>4
<1> QED BY <1>4, <1>5, <1>6

------------------------------------------------------------------------------
(* The ends of the orchestrator, and its cancellation *)

\* The orchestrator resumes, wherever it waits but for the join.
Resuming ==
  /\ cancelled' = cancelled \ {Main} /\ UNCHANGED cancels
  /\ \/ \E r : Returns(Main, r)
     \/ call[Main] = None /\ UNCHANGED <<snapshot, tx, faults>>

\* Where the orchestrator waits while workers are alive.
LEMMA Winds ==
  ASSUME IInv, call[Main] # None
  PROVE  /\ Alive # {} => pc[Main] \in {"cancel_round", "cancel_run"} /\ aborting
         /\ pc[Main] \notin {"join", "gather", "cancel_gather"} \cup Ended
         /\ pc[Main] \in Leading \cup {"cancel_det", "cancel_round", "cancel_run"}
<1>1. pc[Main] \notin {"join", "gather", "cancel_gather"} \cup Ended
  BY DEF IInv, MainCall
<1>2. pc[Main] \in MainPcs
  BY DEF IInv, TypeOK
<1>3. pc[Main] \in Leading \cup {"cancel_det", "cancel_round", "cancel_run"}
  BY <1>1, <1>2 DEF MainPcs, Leading, Ended
<1> QED BY <1>1, <1>3 DEF IInv, Pool, Winding, Ended

\* The orchestrator ends.
LEMMA EndStep ==
  ASSUME IInv, Resuming, pc[Main] # "join", NEW end \in Ended, Finishes(end),
         Alive # {} => end \in {"error", "cancelled"} /\ aborting,
         faults' = 0 => end # "error",
         end = "cancelled" /\ Phase # "persisting_pending" /\ MaxCancels <= 2 => ~Live,
         MaxFaults = 0 /\ MaxCancels <= 1 => Alive = {},
         end = "returned" => R!Active(snapshot, {"persisting_pending"}),
         end = "run_failed" => snapshot.status = "failed"
  PROVE  IInv'
<1>1. Aims(end, None) /\ todo' = todo
  BY Resumes DEF Resuming
<1>2. pc'[Main] = end /\ call'[Main] = None /\ snapshot' = snapshot
  BY <1>1, Aimed
<1>3. end \in MainPcs \ {"join", "gather", "cancel_gather"} /\ end \notin Leading /\ end \notin Cancelling
  BY DEF MainPcs, Ended, Leading, Cancelling
<1>4. MainCall' /\ MainProgress'
  <2>1. MainCall'
    BY <1>2 DEF MainCall, Ended
  <2>2. MainProgress'
    BY <1>2 DEF MainProgress, Ended
  <2> QED BY <2>1, <2>2
<1>5. Ends'
  BY <1>2 DEF Ends, R!Active
<1>6. end # "cancel_run" /\ todo' \in Seq(R!Planning)
  BY <1>1 DEF Ended, IInv, TypeOK
<1>7. end \in {"error", "cancelled"} => end \in Winding
  BY DEF Winding
<1>8. Lands(end)
  BY <1>3, <1>4, <1>5, <1>6, <1>7 DEF Lands
<1> QED BY <1>1, <1>8, AimsKeeps

\* The orchestrator goes on to record its cancellation.
LEMMA RecordStep ==
  ASSUME IInv, Resuming, pc[Main] # "join", NEW next \in {"cancel_det", "cancel_run"},
         AwaitsCancel(next),
         Alive # {} => next = "cancel_run" /\ aborting,
         MaxCancels <= 2 => cancels >= 1,
         next = "cancel_run" /\ Alive # {} /\ Live /\ MaxCancels <= 2 => cancels >= 2,
         MaxFaults = 0 /\ MaxCancels <= 1 /\ next = "cancel_run" => Alive = {}
  PROVE  IInv'
<1> DEFINE e == Event("RunCancelled", None)
<1>1. EventOk(e) /\ e # None
  BY RunEvent, RunEventNames
<1>2. Aims(next, e) /\ todo' = todo
  BY <1>1, Resumes DEF Resuming, AwaitsCancel
<1>3. pc'[Main] = next /\ call'[Main] = e
  BY <1>2, Aimed
<1>4. /\ next \in MainPcs \ ({"join", "gather", "cancel_gather"} \cup Ended) /\ next \notin Leading
      /\ next = "cancel_run" => next \in Winding
  BY DEF MainPcs, Ended, Leading, Winding
<1>5. MainCall' /\ MainProgress' /\ Ends'
  <2>1. MainCall'
    BY <1>1, <1>3 DEF MainCall, Ended
  <2>2. MainProgress' /\ Ends'
    BY <1>3 DEF MainProgress, Ends
  <2> QED BY <2>1, <2>2
<1>6. todo' \in Seq(R!Planning) /\ next \notin {"error", "cancelled", "cancel_gather"} \cup Ended
  BY <1>2 DEF Ended, IInv, TypeOK
<1>7. Lands(next)
  BY <1>4, <1>5, <1>6 DEF Lands
<1> QED BY <1>1, <1>2, <1>7, AimsKeeps

\* The round is over: its result, or its failure.
LEMMA GatheredStep ==
  ASSUME IInv, MainGathered, cancelled' = cancelled \ {Main}, UNCHANGED cancels
  PROVE  IInv'
<1>1. /\ pc[Main] = "gather" /\ Alive = {} /\ UNCHANGED <<snapshot, tx, faults>>
      /\ call[Main] = None
  BY DEF MainGathered, IInv, MainCall
<1>2. Resuming
  BY <1>1 DEF Resuming
<1>3. CASE fatal
  <2>1. Finishes("run_failed")
    BY <1>3 DEF MainGathered
  <2>2. snapshot.status = "failed"
    BY <1>3 DEF IInv, Pool
  <2> QED BY <1>1, <1>2, <2>1, <2>2, EndStep DEF Ended
<1>4. ASSUME ~fatal, faults = 0 PROVE ~failures /\ Live
  <2>1. Live \/ \E w \in Workers : pc[w] = "fail"
    BY <1>1, <1>4 DEF IInv, Faultless
  <2>2. \A w \in Workers : pc[w] = "done"
    BY <1>1 DEF Alive
  <2> QED BY <1>4, <2>1, <2>2 DEF IInv, Faultless
<1>5. CASE ~fatal /\ failures
  <2>1. Finishes("error")
    BY <1>5 DEF MainGathered
  <2>2. faults' # 0
    BY <1>1, <1>4, <1>5
  <2> QED BY <1>1, <1>2, <2>1, <2>2, EndStep DEF Ended
<1>6. CASE ~fatal /\ ~failures
  <2>1. EntersBarrier
    BY <1>6 DEF MainGathered
  <2>2. Turning
    BY <1>1, <1>2, <1>4, <1>6 DEF Turning, Resuming
  <2>3. Live => Phase = "generating_units"
    BY <1>1 DEF IInv, MainProgress
  <2>4. ASSUME Live, faults = 0, NEW u \in R!Planning PROVE Unit(u).status \in R!RoundEnded
    <3>1. Unit(u).status \in R!RoundEnded \/ Held(u)
      BY <1>1, <1>6, <2>4 DEF IInv, Faultless
    <3>2. \A k \in DOMAIN queue : queue[k] = None
      BY <1>1 DEF IInv, Pool
    <3>3. \A w \in Workers : job[w] = None
      BY <1>1 DEF Alive, IInv, WorkerCalls, WorkerCall
    <3> QED BY <3>1, <3>2, <3>3 DEF Held
  <2>5. Live /\ faults' = 0 => R!AllIn(snapshot, R!RoundEnded)
    BY <1>1, <2>4 DEF R!AllIn, Unit
  <2> QED BY <2>1, <2>2, <2>3, <2>5, BarrierStep
<1> QED BY <1>3, <1>5, <1>6

\* The last apply, or an error.
LEMMA EndsStep ==
  ASSUME IInv, MainEnds, cancelled' = cancelled \ {Main}, UNCHANGED cancels
  PROVE  IInv'
<1>1. CASE pc[Main] = "persist" /\ Returns(Main, "ok") /\ Finishes("returned")
  <2>1. Alive = {} /\ Resuming /\ call[Main] # None
    BY <1>1, OnItsWay DEF Leading, Resuming
  <2>2. call[Main] = Event("PendingPersistenceStarted", None)
    BY <1>1 DEF IInv, MainCall
  <2>3. call[Main].type = "PendingPersistenceStarted"
    BY <2>2 DEF Event
  <2>4. Applied(Main)
    BY <1>1, <2>3, MainIsTask, Returned DEF Ignored
  <2>5. snapshot.status = "active"
    BY <2>3, <2>4, MainIsTask DEF IInv, Locking, Leaving
  <2>6. Phase = "persisting_pending"
    BY <1>1, <2>4, <2>5 DEF IInv, MainProgress, Live
  <2>7. R!Active(snapshot, {"persisting_pending"})
    BY <2>5, <2>6 DEF R!Active, Phase
  <2> QED BY <1>1, <2>1, <2>7, EndStep DEF Ended
<1>2. CASE pc[Main] \in {"fail_run", "det_fail"} /\ Returns(Main, "ok") /\ Finishes("run_failed")
  <2>1. Alive = {} /\ Resuming
    BY <1>2, OnItsWay DEF Leading, Resuming
  <2>2. call[Main] = Event("RunFailed", None)
    BY <1>2 DEF IInv, MainCall
  <2>3. call[Main].type = "RunFailed"
    BY <2>2 DEF Event
  <2>4. Applied(Main)
    BY <1>2, <2>3, MainIsTask, Returned DEF Ignored
  <2>5. snapshot.status = "failed"
    BY <2>3, <2>4, MainIsTask DEF IInv, Locking, Leaving
  <2> QED BY <1>2, <2>1, <2>5, EndStep DEF Ended
<1>3. ASSUME NEW r \in {"illegal", "persistence", "projection"}, Returns(Main, r), Finishes("error")
      PROVE  IInv'
  <2>1. Resuming /\ call[Main] # None
    BY <1>3, MainIsTask, Returned DEF Resuming
  <2>2. /\ r = "illegal" => ~Live /\ ~Applied(Main) /\ ~Ignored(call[Main])
        /\ r # "illegal" => faults' # 0 /\ MaxFaults # 0
        /\ faults' = 0 => faults = 0
    BY <1>3, MainIsTask, Returned
  <2>3. r = "illegal" => pc[Main] \in Leading
    <3>1. ASSUME pc[Main] \in {"cancel_det", "cancel_round", "cancel_run"}, ~Live PROVE Ignored(call[Main])
      <4>1. call[Main] = Event("RunCancelled", None)
        BY <3>1 DEF IInv, MainCall
      <4>2. call[Main].type = "RunCancelled"
        BY <4>1 DEF Event
      <4> QED BY <3>1, <4>2 DEF Ignored, Live
    <3> QED BY <2>1, <2>2, <3>1, Winds
  <2>4. faults' # 0
    BY <2>2, <2>3 DEF IInv, Faultless
  <2>5. Alive # {} => aborting /\ MaxFaults # 0
    <3>1. pc[Main] \in Leading => pc[Main] \notin {"cancel_round", "cancel_run"}
      BY DEF Leading
    <3> QED BY <2>1, <2>2, <2>3, <3>1, Winds
  <2>6. pc[Main] # "join"
    BY <2>1, Winds
  <2> QED BY <1>3, <2>1, <2>4, <2>5, <2>6, EndStep DEF Ended
<1> QED BY <1>1, <1>2, <1>3 DEF MainEnds

\* The round is cancelled: its queue is drained, its workers take no new job.
LEMMA CancelsRoundStep ==
  ASSUME IInv, Resuming, Main \in cancelled, CancelsRound
  PROVE  IInv'
<1> DEFINE e == Event("RunCancelled", None)
<1>1. EventOk(e) /\ e # None
  BY RunEvent, RunEventNames
<1>2. Turn(Main, e) /\ faults' \in 0..MaxFaults /\ (faults' = 0 => faults = 0)
  BY <1>1, Resumes DEF Resuming, CancelsRound
<1>3. /\ pc' = [pc EXCEPT ![Main] = "cancel_round"]
      /\ aborting' = TRUE /\ queue' = <<>> /\ unfinished' = unfinished - Len(queue)
      /\ UNCHANGED <<job, fatal, failures, todo, cancels>>
      /\ cancelled' = cancelled \ {Main}
  BY DEF CancelsRound, Resuming
<1>4. /\ snapshot' = snapshot /\ call'[Main] = e /\ ~Applied(Main)'
      /\ \A w \in Workers : call'[w] = call[w] /\ (Applied(w)' <=> Applied(w))
  BY <1>2, MainIsTask, TurnOthers DEF IInv, Turn
<1> HIDE DEF e
<1>5. /\ pc'[Main] = "cancel_round" /\ \A w \in Workers : pc'[w] = pc[w]
      /\ pc' \in [Tasks -> MainPcs \cup WorkerPcs]
  BY <1>3, MainIsTask DEF IInv, TypeOK, MainPcs
<1>6. Alive' = Alive /\ Busy' = Busy
  BY <1>5 DEF Alive, Busy
<1>7. unfinished' = Cardinality(Busy) /\ unfinished' \in Nat
  <2>1. Cardinality(Busy) \in Nat /\ Len(queue) \in Nat
    BY Workforce DEF Busy, IInv, TypeOK
  <2>2. unfinished = Len(queue) + Cardinality(Busy)
    BY DEF IInv, JoinCounter, Busy
  <2> QED BY <1>3, <2>1, <2>2
<1>8. TypeOK' /\ Locking'
  <2>1. Controller' /\ Locking'
    BY <1>1, <1>2, MainIsTask, TurnLocking DEF IInv, e
  <2>2. Scheduling'
    <3>1. /\ job' \in [Workers -> Jobs \cup {None}] /\ cancelled' \subseteq Tasks
          /\ cancels' \in 0..MaxCancels /\ todo' \in Seq(R!Planning)
          /\ fatal' \in BOOLEAN /\ failures' \in BOOLEAN /\ aborting' \in BOOLEAN
      BY <1>3 DEF IInv, TypeOK
    <3>2. queue' \in Seq(Jobs \cup {None})
      BY <1>3
    <3>3. \A w \in Workers : pc'[w] \in WorkerPcs
      BY <1>5 DEF IInv, TypeOK
    <3>4. "cancel_round" \in MainPcs
      BY DEF MainPcs
    <3> QED BY <1>2, <1>5, <1>7, <3>1, <3>2, <3>3, <3>4 DEF Scheduling
  <2> QED BY <2>1, <2>2 DEF TypeOK, Controller, Scheduling
<1>9. Snapshots'
  BY <1>4, SnapshotsStep DEF IInv
<1>10. WorkerCalls'
  BY <1>3, <1>4, <1>5 DEF IInv, WorkerCalls, WorkerCall
<1>11. WorkersProgress'
  <2> SUFFICES ASSUME Live, NEW w \in Workers, job[w] # None PROVE WorkerProgress(w)'
    BY <1>3, <1>4 DEF WorkersProgress, Live
  <2>1. WorkerProgress(w)
    BY DEF IInv, WorkersProgress
  <2>2. JobCurrent(job[w])' <=> JobCurrent(job[w])
    BY <1>3, <1>4 DEF JobCurrent, NextJob, UnitStatus, R!Active
  <2> QED BY <1>3, <1>4, <1>5, <2>1, <2>2 DEF WorkerProgress, Phase, Unit, R!InFlight
<1>12. MainCall' /\ MainProgress' /\ Ends' /\ Orphans'
  <2>1. MainCall'
    BY <1>1, <1>4, <1>5 DEF MainCall, Ended, e
  <2>2. MainProgress' /\ Ends' /\ Orphans'
    BY <1>5 DEF MainProgress, Ends, Orphans, Ended
  <2> QED BY <2>1, <2>2
<1>13. Pool'
  <2>1. DOMAIN queue' = {}
    BY <1>3
  <2>2. fatal' => snapshot'.status = "failed"
    BY <1>3, <1>4 DEF IInv, Pool
  <2> QED BY <1>3, <1>5, <2>1, <2>2 DEF Pool, Winding
<1>14. QueuedJobsCurrent'
  BY <1>5 DEF QueuedJobsCurrent
<1>15. JoinCounter'
  <2>1. Len(queue') = 0 /\ unfinished' \in Nat /\ unfinished' = Cardinality(Busy')
    BY <1>3, <1>6, <1>7
  <2>2. unfinished' = Len(queue') + Cardinality(Busy')
    BY <2>1
  <2> QED BY <2>2 DEF JoinCounter, Busy
<1>16. Faultless'
  <2>1. ~(pc'[Main] \in Leading) /\ pc'[Main] \notin {"error", "join", "gather"}
    BY <1>5 DEF Leading
  <2> QED BY <1>2, <1>3, <2>1 DEF IInv, Faultless
<1>17. Recording'
  BY <1>3, <1>5 DEF IInv, Recording, CancelBeforeLastAwaitIsRecorded
<1> QED BY <1>8, <1>9, <1>10, <1>11, <1>12, <1>13, <1>14, <1>15, <1>16, <1>17 DEF IInv

\* The CancelledError is raised out of an apply.
LEMMA CancelledStep ==
  ASSUME IInv, MainCancelledInApply, cancelled' = cancelled \ {Main}, UNCHANGED cancels
  PROVE  IInv'
<1>1. /\ Returns(Main, "cancelled")
      /\ CASE pc[Main] \in {"det_start", "det_validate", "det_ready"} -> AwaitsCancel("cancel_det")
           [] pc[Main] = "check" -> CancelsRound
           [] pc[Main] \in {"det_fail", "persist", "cancel_run"} -> Finishes("cancelled")
           [] OTHER -> AwaitsCancel("cancel_run")
  BY DEF MainCancelledInApply
<1>2. /\ Resuming /\ call[Main] # None /\ Main \in cancelled
      /\ faults' = faults /\ (Applied(Main) \/ tx[Main].stage = "none")
  BY <1>1, MainIsTask, Returned DEF Resuming
<1>3. /\ Alive # {} => pc[Main] \in {"cancel_round", "cancel_run"} /\ aborting
      /\ pc[Main] \notin {"join", "gather", "cancel_gather"} \cup Ended
  BY <1>2, Winds
<1>4. MaxCancels <= 2 => /\ cancels >= 1
                         /\ pc[Main] = "cancel_round" => cancels >= 2
                         /\ (pc[Main] # "cancel_round" /\ Live) => tx[Main].stage # "none"
  BY <1>2 DEF IInv, Recording, Cancelling
<1>5. cancels \in 0..MaxCancels
  BY DEF IInv, TypeOK
<1>6. CASE pc[Main] \in {"det_start", "det_validate", "det_ready"}
  <2>1. AwaitsCancel("cancel_det")
    BY <1>1, <1>6
  <2> QED BY <1>2, <1>3, <1>4, <1>6, <2>1, RecordStep
<1>7. CASE pc[Main] = "check"
  <2>1. CancelsRound
    BY <1>1, <1>7
  <2> QED BY <1>2, <2>1, CancelsRoundStep
<1>8. CASE pc[Main] \in {"det_fail", "persist", "cancel_run"}
  <2>1. Finishes("cancelled")
    BY <1>1, <1>8
  <2>2. ASSUME Phase # "persisting_pending", MaxCancels <= 2, Live PROVE FALSE
    <3>1. Applied(Main)
      BY <1>2, <1>4, <1>8, <2>2
    <3>2. snapshot.status = Leaving(call[Main])
      BY <3>1, MainIsTask DEF IInv, Locking
    <3>3. pc[Main] = "persist" => Phase = "persisting_pending"
      BY <2>2, <3>1 DEF IInv, MainProgress
    <3>4. call[Main] \in {Event("RunFailed", None), Event("RunCancelled", None)}
      BY <1>8, <2>2, <3>3 DEF IInv, MainCall
    <3>5. call[Main].type \in {"RunFailed", "RunCancelled"}
      BY <3>4 DEF Event
    <3> QED BY <2>2, <3>2, <3>5 DEF Leaving, Live
  <2>3. ASSUME MaxFaults = 0, MaxCancels <= 1 PROVE Alive = {}
    <3>1. CASE pc[Main] = "cancel_run"
      BY <2>3, <3>1 DEF IInv, Orphans
    <3>2. CASE pc[Main] # "cancel_run"
      BY <1>3, <1>8, <3>2
    <3> QED BY <3>1, <3>2
  <2> QED BY <1>2, <1>3, <2>1, <2>2, <2>3, EndStep DEF Ended
<1>9. CASE pc[Main] \notin {"det_start", "det_validate", "det_ready", "check",
                            "det_fail", "persist", "cancel_run"}
  <2>1. AwaitsCancel("cancel_run")
    BY <1>1, <1>9
  <2>2. Alive # {} => pc[Main] = "cancel_round" /\ aborting
    BY <1>3, <1>9
  <2>3. ASSUME MaxFaults = 0, MaxCancels <= 1 PROVE Alive = {}
    <3>1. pc[Main] # "cancel_round"
      BY <1>4, <1>5, <2>3, SchedulerAssumption
    <3> QED BY <2>2, <3>1
  <2> QED BY <1>2, <1>3, <1>4, <2>1, <2>2, <2>3, RecordStep
<1> QED BY <1>6, <1>7, <1>8, <1>9

\* The cancellation is recorded, and the workers are awaited.
LEMMA RecordedSteps ==
  ASSUME IInv, cancelled' = cancelled \ {Main}, UNCHANGED cancels,
         MainCancelledInRound \/ MainCancelCommitted \/ MainCancelGathered \/ MainCancelEnds
  PROVE  IInv'
<1>1. CASE MainCancelledInRound
  <2>1. /\ Main \in cancelled /\ CancelsRound /\ pc[Main] \in {"join", "gather"}
        /\ UNCHANGED <<snapshot, tx, faults>>
    BY <1>1 DEF MainCancelledInRound
  <2>2. call[Main] = None
    BY <2>1 DEF IInv, MainCall
  <2> QED BY <2>1, <2>2, CancelsRoundStep DEF Resuming
<1>2. CASE MainCancelCommitted
  <2>1. pc[Main] = "cancel_det" /\ Returns(Main, "ok") /\ AwaitsCancel("cancel_run")
    BY <1>2 DEF MainCancelCommitted
  <2>2. Alive = {}
    BY <2>1 DEF IInv, Pool, Winding
  <2>3. MaxCancels <= 2 => cancels >= 1
    BY <2>1 DEF IInv, Recording, Cancelling
  <2> QED BY <2>1, <2>2, <2>3, RecordStep DEF Resuming
<1>3. CASE MainCancelGathered
  <2>1. /\ pc[Main] = "cancel_gather" /\ Alive = {} /\ AwaitsCancel("cancel_run")
        /\ UNCHANGED <<snapshot, tx, faults>>
    BY <1>3 DEF MainCancelGathered
  <2>2. call[Main] = None
    BY <2>1 DEF IInv, MainCall
  <2>3. MaxCancels <= 2 => cancels >= 1
    BY <2>1 DEF IInv, Recording, Cancelling
  <2> QED BY <2>1, <2>2, <2>3, RecordStep DEF Resuming
<1>4. CASE MainCancelEnds
  <2>1. pc[Main] = "cancel_run" /\ Returns(Main, "ok") /\ Finishes("cancelled")
    BY <1>4 DEF MainCancelEnds
  <2>2. Resuming /\ call[Main] # None /\ (Applied(Main) \/ ~Live)
    BY <2>1, MainIsTask, Returned DEF Resuming
  <2>3. call[Main] = Event("RunCancelled", None)
    BY <2>1 DEF IInv, MainCall
  <2>4. call[Main].type = "RunCancelled"
    BY <2>3 DEF Event
  <2>5. ~Live
    <3>1. Applied(Main) => snapshot.status = "cancelled"
      BY <2>4, MainIsTask DEF IInv, Locking, Leaving
    <3> QED BY <2>2, <3>1 DEF Live
  <2>6. Alive # {} => aborting
    BY <2>2, Winds
  <2>7. MaxFaults = 0 /\ MaxCancels <= 1 => Alive = {}
    BY <2>1 DEF IInv, Orphans
  <2> QED BY <2>1, <2>2, <2>5, <2>6, <2>7, EndStep DEF Ended
<1> QED BY <1>1, <1>2, <1>3, <1>4

\* The cancelled workers are awaited.
LEMMA CancelsWorkersStep ==
  ASSUME IInv, MainCancelsWorkers
  PROVE  IInv'
<1>1. /\ pc[Main] = "cancel_round" /\ Returns(Main, "ok") /\ Leaves(Main)
      /\ pc' = [pc EXCEPT ![Main] = "cancel_gather"]
      /\ cancelled' = (cancelled \cup Alive) \ {Main}
      /\ UNCHANGED <<job, todo, cancels>> /\ UNCHANGED round
  BY DEF MainCancelsWorkers
<1>2. Turn(Main, None)
  BY <1>1, MainIsTask, Turns
<1>3. /\ call[Main] # None /\ (Applied(Main) \/ ~Live)
      /\ faults' \in 0..MaxFaults /\ (faults' = 0 => faults = 0)
  BY <1>1, MainIsTask, Returned
<1>4. cancelled' \subseteq Tasks \ {Main}
  BY <1>1 DEF Alive, Tasks, IInv, TypeOK
<1>5. Aims("cancel_gather", None)
  BY <1>1, <1>2, <1>3, <1>4 DEF Aims
<1>6. pc'[Main] = "cancel_gather" /\ call'[Main] = None
  BY <1>5, Aimed
<1>7. MainCall' /\ MainProgress' /\ Ends'
  BY <1>6 DEF MainCall, MainProgress, Ends, Ended
<1>8. ~Live
  <2>1. call[Main] = Event("RunCancelled", None)
    BY <1>1 DEF IInv, MainCall
  <2>2. call[Main].type = "RunCancelled"
    BY <2>1 DEF Event
  <2>3. Applied(Main) => snapshot.status = "cancelled"
    BY <2>2, MainIsTask DEF IInv, Locking, Leaving
  <2> QED BY <1>3, <2>3 DEF Live
<1>9. Lands("cancel_gather")
  <2>1. /\ "cancel_gather" \in MainPcs \ ({"join", "gather"} \cup Leading \cup Ended)
        /\ "cancel_gather" \in Winding
    BY DEF MainPcs, Leading, Ended, Winding
  <2>2. todo' \in Seq(R!Planning)
    BY <1>1 DEF IInv, TypeOK
  <2>3. Alive # {} => aborting
    BY <1>3, Winds
  <2>4. MaxCancels <= 2 => cancels >= 1
    BY <1>1 DEF IInv, Recording, Cancelling
  <2> QED BY <1>7, <1>8, <2>1, <2>2, <2>3, <2>4 DEF Lands
<1> QED BY <1>1, <1>5, <1>9, AimsKeeps

------------------------------------------------------------------------------
(* The inductive invariant *)

\* The first snapshot is a new run.
LEMMA InitSnapshots ==
  ASSUME Init
  PROVE  Snapshots /\ R!TypeOK /\ snapshot = R!NewRun
<1>1. R!Init
  BY DEF Init
<1>2. P!Init
  BY <1>1, SameInit
<1>3. P!PlanningRunAssumption
  BY SchedulerAssumption DEF P!PlanningRunAssumption, R!Strategies, P!Strategies,
     R!CandidateId, P!CandidateId
<1>4. P!IInv
  BY <1>2, <1>3, P!InitIInv
<1>5. P!Unspent
  BY <1>2 DEF P!Init, P!NewRun, P!Unspent, P!Recorded
<1>6. Snapshots
  BY <1>4, <1>5 DEF Snapshots
<1> QED BY <1>1, <1>6, Contract DEF R!TypeOK, R!Init

\* The first state is well typed.
LEMMA InitTypes ==
  ASSUME Init
  PROVE  TypeOK
<1> DEFINE e == Event("GenerationStarted", None)
<1>1. EventOk(e) /\ e # None
  BY RunEvent DEF RunEvents, Events, AttemptEvents, UnitEvents
<1>2. /\ lockQ = <<Main>>
      /\ call = [t \in Tasks |-> IF t = Main THEN e ELSE None]
      /\ tx = [t \in Tasks |-> NoTx]
      /\ pc = [t \in Tasks |-> IF t = Main THEN "begin" ELSE "done"]
  BY DEF Init
<1> HIDE DEF e
<1>3. Controller
  <2>1. R!TypeOK
    BY InitSnapshots
  <2>2. lockQ \in Seq(Tasks) /\ {lockQ[k] : k \in DOMAIN lockQ} = {Main}
    BY <1>2, MainIsTask
  <2>3. DOMAIN call = Tasks /\ call[Main] = e /\ \A t \in Tasks \ {Main} : call[t] = None
    BY <1>2, MainIsTask
  <2>4. {lockQ[k] : k \in DOMAIN lockQ} = {t \in Tasks : call[t] # None}
    BY <1>1, <2>2, <2>3, MainIsTask
  <2>5. \A t \in Tasks : tx[t] = NoTx
    BY <1>2
  <2> QED BY <1>1, <1>2, <2>1, <2>2, <2>3, <2>4, <2>5 DEF Controller, NoTx
<1>4. Scheduling
  <2>1. /\ pc \in [Tasks -> MainPcs \cup WorkerPcs] /\ pc[Main] = "begin"
        /\ \A w \in Workers : pc[w] = "done"
    BY <1>2, MainIsTask DEF MainPcs, WorkerPcs
  <2>2. "begin" \in MainPcs /\ "done" \in WorkerPcs
    BY DEF MainPcs, WorkerPcs
  <2>3. <<>> \in Seq(R!Planning) /\ <<>> \in Seq(Jobs \cup {None})
    OBVIOUS
  <2>4. /\ job = [w \in Workers |-> None] /\ queue = <<>> /\ unfinished = 0 /\ todo = <<>>
        /\ cancelled = {} /\ aborting = FALSE /\ fatal = FALSE /\ failures = FALSE
        /\ faults = 0 /\ cancels = 0
    BY DEF Init
  <2>5. job \in [Workers -> Jobs \cup {None}]
    BY <2>4
  <2>6. /\ faults \in 0..MaxFaults /\ cancels \in 0..MaxCancels /\ unfinished \in Nat
        /\ cancelled \subseteq Tasks
    BY <2>4, SchedulerAssumption
  <2>7. aborting \in BOOLEAN /\ fatal \in BOOLEAN /\ failures \in BOOLEAN
    BY <2>4
  <2>8. todo \in Seq(R!Planning) /\ queue \in Seq(Jobs \cup {None})
    BY <2>3, <2>4
  <2> QED BY <2>1, <2>2, <2>5, <2>6, <2>7, <2>8 DEF Scheduling
<1> QED BY <1>3, <1>4, Types

\* The first state satisfies the invariant.
LEMMA InitIInv ==
  ASSUME Init
  PROVE  IInv
<1>1. TypeOK /\ Snapshots /\ snapshot = R!NewRun
  BY InitTypes, InitSnapshots
<1>2. /\ pc[Main] = "begin" /\ \A w \in Workers : pc[w] = "done" /\ job[w] = None
      /\ call[Main] = Event("GenerationStarted", None) /\ \A w \in Workers : call[w] = None
      /\ \A t \in Tasks : tx[t] = NoTx
      /\ lockQ = <<Main>> /\ queue = <<>> /\ unfinished = 0 /\ cancelled = {}
      /\ ~failures /\ ~fatal /\ faults = 0
  BY MainIsTask DEF Init
<1>3. Locking
  BY <1>2 DEF Locking, NoTx, Applied
<1>4. WorkerCalls /\ WorkersProgress
  BY <1>2 DEF WorkerCalls, WorkerCall, WorkersProgress
<1>5. MainCall
  <2>1. Event("GenerationStarted", None) # None
    BY RunEvent DEF RunEvents, Events, AttemptEvents, UnitEvents
  <2> QED BY <1>2, <2>1 DEF MainCall, Ended
<1>6. Alive = {}
  BY <1>2 DEF Alive
<1>7. Pool /\ QueuedJobsCurrent
  <2>1. DOMAIN queue = {}
    BY <1>2
  <2> QED BY <1>2, <1>6, <2>1 DEF Pool, QueuedJobsCurrent
<1>8. MainProgress
  BY <1>1, <1>2, MainIsTask DEF MainProgress, Applied, NoTx
<1>9. JoinCounter
  <2>1. Busy = {}
    BY <1>2 DEF Busy
  <2>2. Cardinality(Busy) = 0
    BY <2>1, FS_EmptySet
  <2> QED BY <1>2, <2>2 DEF JoinCounter, Busy
<1>10. Ends /\ Orphans
  BY <1>2 DEF Ends, Orphans, Ended
<1>11. Faultless
  BY <1>1, <1>2 DEF Faultless, Live, R!NewRun
<1>12. Recording
  BY <1>2 DEF Recording, CancelBeforeLastAwaitIsRecorded, Cancelling
<1> QED BY <1>1, <1>3, <1>4, <1>5, <1>7, <1>8, <1>9, <1>10, <1>11, <1>12 DEF IInv

\* Every step of the orchestrator keeps the invariant.
LEMMA MainStepKeeps ==
  ASSUME IInv, MainStep
  PROVE  IInv'
<1>1. CASE MainResumes
  <2>1. /\ cancelled' = cancelled \ {Main} /\ UNCHANGED cancels
        /\ \/ MainBegun \/ MainRecovered \/ MainRepaired
           \/ MainDeterministicStarted \/ MainDeterministicValidated \/ MainDeterministicReady
           \/ MainGathered \/ MainChecked \/ MainAssembled \/ MainValidated
           \/ MainEnds \/ MainCancelledInApply
           \/ MainCancelledInRound \/ MainCancelCommitted \/ MainCancelGathered \/ MainCancelEnds
    BY <1>1 DEF MainResumes
  <2>2. CASE MainBegun \/ MainRecovered \/ MainRepaired
    BY <2>1, <2>2, BegunStep, RecoveredStep, RepairedStep
  <2>3. CASE MainDeterministicStarted \/ MainDeterministicValidated \/ MainDeterministicReady
    BY <2>1, <2>3, DeterministicSteps
  <2>4. CASE MainGathered
    BY <2>1, <2>4, GatheredStep
  <2>5. CASE MainChecked \/ MainAssembled \/ MainValidated
    BY <2>1, <2>5, GlobalSteps
  <2>6. CASE MainEnds
    BY <2>1, <2>6, EndsStep
  <2>7. CASE MainCancelledInApply
    BY <2>1, <2>7, CancelledStep
  <2>8. CASE MainCancelledInRound \/ MainCancelCommitted \/ MainCancelGathered \/ MainCancelEnds
    BY <2>1, <2>8, RecordedSteps
  <2> QED BY <2>1, <2>2, <2>3, <2>4, <2>5, <2>6, <2>7, <2>8
<1>2. CASE MainJoined
  BY <1>2, MainJoinedStep
<1>3. CASE MainCancelsWorkers
  BY <1>3, CancelsWorkersStep
<1> QED BY <1>1, <1>2, <1>3 DEF MainStep

\* So does a step of something else.
LEMMA StutterStep ==
  ASSUME IInv, UNCHANGED vars
  PROVE  IInv'
<1>1. /\ UNCHANGED <<snapshot, lockQ, call, tx, faults, cancelled, pc, job, todo, cancels>>
      /\ UNCHANGED <<queue, unfinished, aborting, fatal, failures>>
  BY DEF vars, ctrl, round
<1>2. Rests
  BY <1>1 DEF Rests, Applied
<1>3. Controller' /\ Locking' /\ Scheduling'
  <2>1. Controller' /\ Locking'
    BY <1>1, RestTypes DEF IInv
  <2>2. Scheduling'
    BY <1>1 DEF IInv, TypeOK, Scheduling
  <2> QED BY <2>1, <2>2
<1>4. TypeOK'
  BY <1>3 DEF TypeOK, Controller, Scheduling
<1>5. Faultless'
  BY <1>1, <1>2, RestFaultless DEF IInv, Faultless
<1>6. Recording'
  BY <1>1 DEF IInv, Recording, CancelBeforeLastAwaitIsRecorded, Alive, Live
<1> QED BY <1>1, <1>2, <1>3, <1>4, <1>5, <1>6, RestStep DEF IInv

\* Every task may move: a commit, a worker, the orchestrator, a cancellation.
THEOREM Invariance == Spec => []IInv
<1>1. Init => IInv
  BY InitIInv
<1>2. ASSUME IInv, [Next]_vars PROVE IInv'
  <2>1. ASSUME NEW t \in Tasks, CommitStep(t) PROVE IInv'
    BY <1>2, <2>1, BeginCommitStep, CommitWritesStep DEF CommitStep
  <2>2. ASSUME NEW w \in Workers, WorkerStep(w) PROVE IInv'
    BY <1>2, <2>2, WorkerStepKeeps
  <2>3. CASE MainStep
    BY <1>2, <2>3, MainStepKeeps
  <2>4. CASE CancelMain
    BY <1>2, <2>4, CancelMainStep
  <2>5. CASE UNCHANGED vars
    BY <1>2, <2>5, StutterStep
  <2> QED BY <1>2, <2>1, <2>2, <2>3, <2>4, <2>5 DEF Next
<1> QED BY <1>1, <1>2, PTL DEF Spec

------------------------------------------------------------------------------
(* The theorems *)

\* Every variable keeps its range; a task waits for the lock exactly while it
\* applies an event, and only the holder of the lock commits.
THEOREM Typing == Spec => []TypeOK
<1>1. IInv => TypeOK
  BY DEF IInv
<1> QED BY <1>1, Invariance, PTL

\* The join counter of asyncio.Queue is the queued items plus the items being
\* worked on, whatever was dropped, drained or cancelled.
THEOREM JoinCounterExact == Spec => []JoinCounter
<1>1. IInv => JoinCounter
  BY DEF IInv
<1> QED BY <1>1, Invariance, PTL

\* The identity fixed when a job was queued is still the next attempt of its
\* unit when a worker takes it, and no unit is queued twice.
THEOREM QueuedJobsStayCurrent == Spec => []QueuedJobsCurrent
<1>1. IInv => QueuedJobsCurrent
  BY DEF IInv
<1> QED BY <1>1, Invariance, PTL

\* While the run is active no caller of the controller proposes a transition
\* that is rejected.
THEOREM OnlyLosersAreRejected == Spec => []RejectedOnlyAfterTheEnd
<1>1. ASSUME IInv PROVE RejectedOnlyAfterTheEnd
  <2> SUFFICES ASSUME NEW t \in Tasks, Committing(t, "none"), Live PROVE Legal(call[t])
    BY DEF RejectedOnlyAfterTheEnd, Live
  <2>1. lockQ \in Seq(Tasks) /\ {lockQ[k] : k \in DOMAIN lockQ} = {s \in Tasks : call[s] # None}
    BY <1>1 DEF IInv, TypeOK
  <2>2. lockQ # <<>> /\ Head(lockQ) = t /\ tx[t].stage = "none"
    BY DEF Committing, HoldsLock
  <2>3. 1 \in DOMAIN lockQ /\ lockQ[1] = t
    BY <2>1, <2>2, HeadOf
  <2>4. call[t] # None
    BY <2>1, <2>3
  <2> QED BY <1>1, <2>2, <2>4, Accepted DEF Applied
<1> QED BY <1>1, Invariance, PTL

\* How the orchestrator ends agrees with how the run ended, and without a fault
\* no internal check of the round raises.
THEOREM OutcomesMatch == Spec => []OutcomeMatchesRun
<1>1. ASSUME IInv PROVE OutcomeMatchesRun
  <2>1. ASSUME pc[Main] = "returned"
        PROVE  /\ R!Active(snapshot, {"persisting_pending"})
               /\ R!AllIn(snapshot, {"candidate_ready"})
    <3>1. R!Active(snapshot, {"persisting_pending"})
      BY <1>1, <2>1 DEF IInv, Ends
    <3>2. R!AssemblyComplete
      BY <1>1, Contract DEF IInv
    <3> QED BY <3>1, <3>2 DEF R!AssemblyComplete, R!Active
  <2>2. pc[Main] = "run_failed" => snapshot.status = "failed"
    BY <1>1 DEF IInv, Ends
  <2>3. ASSUME faults = 0, pc[Main] \in Ended
        PROVE  /\ pc[Main] # "error"
               /\ snapshot.status = "failed" => pc[Main] \in {"run_failed", "cancelled"}
    <3>1. pc[Main] # "error"
      BY <1>1, <2>3 DEF IInv, Faultless
    <3>2. pc[Main] = "returned" => snapshot.status = "active"
      BY <2>1 DEF R!Active
    <3> QED BY <2>3, <3>1, <3>2 DEF Ended
  <2> QED BY <2>1, <2>2, <2>3 DEF OutcomeMatchesRun
<1> QED BY <1>1, Invariance, PTL

\* With at most two cancellations of the orchestrator, the first of them before
\* its last await is recorded: the CancelledError leaves it with a terminal run.
THEOREM CancellationRecorded ==
  ASSUME MaxCancels <= 2
  PROVE  Spec => []CancelBeforeLastAwaitIsRecorded
<1>1. IInv => CancelBeforeLastAwaitIsRecorded
  BY DEF IInv, Recording
<1> QED BY <1>1, Invariance, PTL

\* With one cancellation and no failing write or publication, the orchestrator
\* ends after all its workers.
THEOREM NoOrphans ==
  ASSUME MaxFaults = 0, MaxCancels <= 1
  PROVE  Spec => []NoWorkerOutlivesTheRun
<1>1. IInv => NoWorkerOutlivesTheRun
  BY DEF IInv, Orphans, NoWorkerOutlivesTheRun
<1> QED BY <1>1, Invariance, PTL

\* The controller with its concurrent callers implements the contract: every
\* step is one transition of one PlanningRun, or leaves the run as it is.
THEOREM Refinement == Spec => ImplementsPlanningRun
<1>1. Init => R!Init
  BY DEF Init
<1>2. ASSUME IInv, [Next]_vars PROVE [R!Next]_snapshot
  <2>1. ASSUME NEW t \in Tasks, CommitStep(t) PROVE R!Next \/ UNCHANGED snapshot
    <3>1. CASE BeginCommit(t)
      BY <3>1 DEF BeginCommit
    <3>2. CASE CommitWrites(t)
      <4>1. Committed(t)
        BY <1>2, <2>1, <3>2, CommitApplies DEF IInv
      <4> QED BY <4>1, AppliesIsNext DEF Committed
    <3> QED BY <2>1, <3>1, <3>2 DEF CommitStep
  <2>2. ASSUME NEW w \in Workers, WorkerStep(w) PROVE UNCHANGED snapshot
    <3>1. Worked(w)
      BY <1>2, <2>2, WorkerForm
    <3> QED BY <1>2, <3>1, Working
  <2>3. CASE MainStep
    <3>1. \A r : Returns(Main, r) => UNCHANGED snapshot
      BY DEF Returns
    <3>2. MainResumes => UNCHANGED snapshot
      BY <3>1 DEF MainResumes, MainBegun, MainRecovered, MainDeterministicStarted,
         MainDeterministicValidated, MainDeterministicReady, MainGathered, MainChecked,
         MainAssembled, MainValidated, MainRepaired, MainEnds, MainCancelledInApply,
         MainCancelledInRound, MainCancelCommitted, MainCancelGathered, MainCancelEnds
    <3>3. MainJoined => UNCHANGED snapshot
      BY DEF MainJoined, ctrl
    <3>4. MainCancelsWorkers => UNCHANGED snapshot
      BY <3>1 DEF MainCancelsWorkers
    <3> QED BY <2>3, <3>2, <3>3, <3>4 DEF MainStep
  <2>4. CASE CancelMain
    BY <2>4 DEF CancelMain, ctrl
  <2>5. CASE UNCHANGED vars
    BY <2>5 DEF vars, ctrl
  <2> QED BY <1>2, <2>1, <2>2, <2>3, <2>4, <2>5 DEF Next
<1> QED BY <1>1, <1>2, Invariance, PTL DEF Spec, ImplementsPlanningRun, R!Spec

==============================================================================

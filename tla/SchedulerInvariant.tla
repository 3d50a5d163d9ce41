------------------------- MODULE SchedulerInvariant -------------------------
(***************************************************************************)
(* The inductive invariant of UnitGenerationScheduler, and the steps of    *)
(* the controller and of the workers that keep it.  The snapshot is one of *)
(* a planning run, so what PlanningRunProofs says of a run holds of it.    *)
(***************************************************************************)
EXTENDS UnitGenerationScheduler, FiniteSetTheorems, TLAPS

\* The contract of PlanningRun, with what is proved of it.
P == INSTANCE PlanningRunProofs WITH run <- snapshot

------------------------------------------------------------------------------
(* The inductive invariant *)

\* The run: whether it is still active, its phase, the state of a unit.
Live == snapshot.status = "active"
Phase == snapshot.phase
Unit(u) == snapshot.units[u]

\* The commit of t's event is on disk and in the snapshot, but not published.
Applied(t) == tx[t].stage = "publish"

\* What the contract promises of the snapshot.
Snapshots == P!IInv /\ P!Unspent

\* The status an event leaves the run in.
Leaving(e) ==
  CASE e.type = "RunFailed" -> "failed"
    [] e.type = "RunCancelled" -> "cancelled"
    [] OTHER -> "active"

\* A task is queued once, and what the holder of the lock is about to write is
\* still the transition of the current snapshot.
Locking ==
  /\ \A k, l \in DOMAIN lockQ : lockQ[k] = lockQ[l] => k = l
  /\ \A t \in Tasks :
       /\ tx[t].stage = "write" => Legal(call[t]) /\ tx[t].run = Proposed(call[t])
       /\ Applied(t) => snapshot.status = Leaving(call[t])

\* Each await of a worker is for the event of its own job.
WorkerCall(w) ==
  /\ pc[w] \in {"get", "done"} <=> job[w] = None
  /\ pc[w] \in {"get", "generate", "done"} <=> call[w] = None
  /\ pc[w] = "start" => call[w] = Event("UnitAttemptStarted", job[w].id)
  /\ pc[w] = "validate" => call[w] = Event("UnitValidationStarted", job[w].id)
  /\ pc[w] = "invalid" => call[w] = Event("CandidateInvalid", job[w].id)
  /\ pc[w] = "ready" => call[w] = Event("CandidateReady", job[w].id)
  /\ pc[w] = "exhaust" => call[w] = Event("RoundExhausted", job[w].id.unit)
  /\ pc[w] = "fail" => call[w] = Event("RunFailed", None)

\* Each worker is so, and no two workers have jobs of one unit.
WorkerCalls ==
  /\ \A w \in Workers : WorkerCall(w)
  /\ \A v, w \in Workers :
       (job[v] # None /\ job[w] # None /\ job[v].id.unit = job[w].id.unit) => v = w

\* Each await of the orchestrator is for the event of its place in the plan.
MainCall ==
  LET at == pc[Main]
      e == call[Main]
  IN /\ at \in {"join", "gather", "cancel_gather"} \cup Ended <=> e = None
     /\ at = "begin" => e = Event("GenerationStarted", None)
     /\ at = "recover" => todo # <<>> /\ e = Event("RecoveredCandidateAccepted", Head(todo))
     /\ at = "det_start" => e.type = "UnitAttemptStarted"
     /\ at = "det_validate" => e.type = "UnitValidationStarted"
     /\ at = "det_ready" => e.type = "CandidateReady"
     /\ at \in {"det_start", "det_validate", "det_ready"} => todo # <<>> /\ e.arg.unit = Head(todo)
     /\ at \in {"det_fail", "fail_run"} => e = Event("RunFailed", None)
     /\ at = "check" => e = Event("GlobalCheckStarted", None)
     /\ at = "assemble" => e = Event("AssemblyStarted", None)
     /\ at = "validate" => e = Event("GlobalValidationStarted", None)
     /\ at = "repair" => e.type = "GlobalRepairStarted"
     /\ at = "persist" => e = Event("PendingPersistenceStarted", None)
     /\ at \in {"cancel_det", "cancel_round", "cancel_run"} => e = Event("RunCancelled", None)

\* Where the orchestrator may be while workers wind up.
Winding == {"cancel_round", "cancel_gather", "cancel_run", "error", "cancelled"}

\* While workers are alive the orchestrator waits for them, or the round is
\* aborting; a job is queued exactly until the join, a sentinel after it; and a
\* fatal error, like the wait for cancelled workers, comes after the end of the run.
Pool ==
  /\ Alive # {} => pc[Main] \in {"join", "gather"} \cup Winding
  /\ (Alive # {} /\ pc[Main] \in Winding) => aborting
  /\ pc[Main] = "gather" => \A w \in Workers : pc[w] \in {"get", "done"}
  /\ \A k \in DOMAIN queue : queue[k] # None <=> pc[Main] = "join"
  /\ fatal => snapshot.status = "failed"
  /\ pc[Main] = "cancel_gather" => ~Live

\* How far a worker is with its job, while the run is active.
WorkerProgress(w) ==
  LET j == job[w]
      u == Unit(j.id.unit)
      waits == u.expected = j.id
  IN /\ Strategy[j.id.unit] = "model" /\ Phase = "generating_units"
     /\ pc[w] = "start" => IF Applied(w) THEN u.status = "generating" /\ waits
                           ELSE JobCurrent(j)
     /\ pc[w] = "generate" => u.status = "generating" /\ waits
     /\ pc[w] = "validate" =>
          waits /\ u.status = IF Applied(w) THEN "validating" ELSE "generating"
     /\ pc[w] = "invalid" =>
          IF Applied(w) THEN u.status = "pending" /\ u.issues = "local"
          ELSE u.status \in R!InFlight /\ waits
     /\ pc[w] = "ready" =>
          IF Applied(w) THEN u.status = "candidate_ready"
          ELSE u.status = "validating" /\ waits
     /\ pc[w] = "exhaust" =>
          IF Applied(w) THEN u.status = "round_exhausted"
          ELSE u.status = "pending" /\ u.issues # "none" /\ u.attempt = LocalMax

\* An ended run says nothing of where its workers still are.
WorkersProgress == Live => \A w \in Workers : job[w] # None => WorkerProgress(w)

\* A unit nothing was done for yet, and a unit between two rounds.
Untouched(u) ==
  LET unit == Unit(u)
  IN /\ unit.status = "pending" /\ unit.expected = None
     /\ unit.round = 1 /\ unit.history = <<>>
     /\ unit.attempt = 0 /\ unit.total = 0
     /\ unit.latest = None /\ unit.issues = "none"

\* A unit that needs no more work in this round, or none was done for yet.
Between(u) ==
  Unit(u).status \in R!RoundEnded \/ (Unit(u).status = "pending" /\ Unit(u).attempt = 0)

\* How far the orchestrator is with the snapshot, while the run is active.
Recovering(done) ==
  /\ Phase = "generating_units"
  /\ \A k, l \in DOMAIN todo : todo[k] = todo[l] => k = l
  /\ \A u \in R!Planning : Between(u)
  /\ \A k \in DOMAIN todo : (k = 1 => ~done) => Untouched(todo[k])

\* Deterministic units are run in turn: those on the list are the pending ones.
Listed ==
  /\ Phase = "generating_units"
  /\ \A k, l \in DOMAIN todo : todo[k] = todo[l] => k = l
  /\ \A k \in DOMAIN todo : Strategy[todo[k]] = "deterministic"
  /\ \A u \in R!Planning \ {Head(todo)} :
       /\ Between(u)
       /\ Strategy[u] = "deterministic" =>
            (Unit(u).status = "pending" <=> \E k \in DOMAIN todo : todo[k] = u)

\* The head of the list is as far as the event about it was applied.
Determined(done) ==
  LET unit == Unit(Head(todo))
      waits == unit.expected = call[Main].arg
  IN /\ Listed
     /\ pc[Main] = "det_start" =>
          IF done THEN unit.status = "generating" /\ waits
          ELSE unit.status = "pending" /\ call[Main].arg = DeterministicId(Head(todo))
     /\ pc[Main] = "det_validate" =>
          waits /\ unit.status = IF done THEN "validating" ELSE "generating"
     /\ pc[Main] = "det_ready" =>
          IF done THEN unit.status = "candidate_ready" ELSE unit.status = "validating" /\ waits

\* A repair reopens a run whose units all ended their round.
Repairing(done) ==
  IF done THEN Phase = "generating_units" /\ \A u \in R!Planning : Between(u)
  ELSE /\ R!CanBeginGlobalRepair(snapshot, call[Main].arg)
       /\ R!AllIn(snapshot, R!RoundEnded)

\* The phase the orchestrator has brought the run to, place by place.
MainProgress ==
  LET at == pc[Main]
      done == Applied(Main)
      In(before, after) == Phase = IF done THEN after ELSE before
  IN Live =>
     /\ at = "begin" => snapshot = IF done THEN R!BeginGeneration(R!NewRun) ELSE R!NewRun
     /\ at = "recover" => Recovering(done)
     /\ at \in {"det_start", "det_validate", "det_ready"} => Determined(done)
     /\ at \in {"join", "gather"} => Phase = "generating_units"
     /\ at = "check" =>
          R!AllIn(snapshot, R!RoundEnded) /\ In("generating_units", "global_check")
     /\ at = "assemble" =>
          R!AllIn(snapshot, {"candidate_ready"}) /\ In("global_check", "assembling")
     /\ at = "validate" => In("assembling", "validating")
     /\ at = "persist" => In("validating", "persisting_pending")
     /\ at = "repair" => Repairing(done)

\* The plan is handed over from, and a failure reported of, such a run.
Ends ==
  /\ pc[Main] = "returned" => R!Active(snapshot, {"persisting_pending"})
  /\ pc[Main] = "run_failed" => snapshot.status = "failed"

\* A unit that is queued, or that a worker has.
Held(u) ==
  \/ \E k \in DOMAIN queue : queue[k] # None /\ queue[k].id.unit = u
  \/ \E w \in Workers : job[w] # None /\ job[w].id.unit = u

\* The awaits on the way to a plan, the failure of the run included.
Leading == {"begin", "recover", "det_start", "det_validate", "det_ready", "det_fail",
           "check", "assemble", "validate", "repair", "fail_run", "persist"}

\* Without a failing write or publication: no internal check of the round has
\* raised, the run is active until its failure is applied, and every unit of the
\* round is ready, exhausted, queued or held.
Faultless ==
  faults = 0 =>
    /\ ~failures /\ pc[Main] # "error"
    /\ pc[Main] \in Leading => Live \/ (pc[Main] \in {"det_fail", "fail_run"} /\ Applied(Main))
    /\ (pc[Main] \in {"join", "gather"} /\ ~fatal) =>
         /\ ~aborting
         /\ Live \/ \E w \in Workers : pc[w] = "fail" /\ Applied(w)
         /\ \A w \in cancelled \cap Workers : pc[w] \in {"get", "done"}
         /\ Live => \A u \in R!Planning : Unit(u).status \in R!RoundEnded \/ Held(u)

\* The awaits on the way out of a cancelled run.
Cancelling == {"cancel_det", "cancel_round", "cancel_gather", "cancel_run"}

\* With at most two cancellations: one in flight was counted; one that finds the
\* orchestrator applying an event of an active run finds it in its commit, except
\* where the round is cancelled, which is where a second one can leave a wait for
\* the lock.
Recording ==
  MaxCancels <= 2 =>
    /\ CancelBeforeLastAwaitIsRecorded
    /\ Main \in cancelled => cancels >= 1
    /\ pc[Main] \in Cancelling => cancels >= 1 /\ (Main \in cancelled => cancels >= 2)
    /\ (pc[Main] = "cancel_run" /\ Alive # {} /\ Live) => cancels >= 2 /\ Main \notin cancelled
    /\ (Main \in cancelled /\ call[Main] # None /\ pc[Main] # "cancel_round" /\ Live) =>
         tx[Main].stage # "none"

\* With one cancellation and no fault: the pool is left when it is empty.
Orphans ==
  (MaxFaults = 0 /\ MaxCancels <= 1) =>
    (pc[Main] \in {"cancel_run"} \cup Ended => Alive = {})

\* No part is inductive on its own: the acceptance of an event rests on the
\* progress of its sender, the progress on who else may apply, and that on the pool.
IInv ==
  /\ TypeOK /\ Snapshots /\ Locking /\ WorkerCalls /\ MainCall /\ Pool /\ QueuedJobsCurrent
  /\ WorkersProgress /\ MainProgress /\ JoinCounter /\ Ends /\ Faultless /\ Recording /\ Orphans

------------------------------------------------------------------------------
(* Sequences *)

\* The head and the tail of a sequence that is not empty, position by position.
LEMMA HeadOf ==
  ASSUME NEW S, NEW s \in Seq(S), s # <<>>
  PROVE  /\ Head(s) = s[1] /\ Head(s) \in S /\ 1 \in DOMAIN s
         /\ Len(s) \in Nat /\ Len(s) >= 1 /\ DOMAIN s = 1..Len(s)
         /\ Tail(s) \in Seq(S) /\ Len(Tail(s)) = Len(s) - 1 /\ DOMAIN Tail(s) = 1..(Len(s) - 1)
         /\ \A k \in 1..(Len(s) - 1) : Tail(s)[k] = s[k + 1]
OBVIOUS

------------------------------------------------------------------------------
(* The snapshot *)

\* The instance of PlanningRun in the scheduler's module is the one proved about.
LEMMA SameInit == R!Init <=> P!Init
BY DEF R!Init, P!Init, R!NewRun, P!NewRun, R!NewUnit, P!NewUnit, R!Planning, P!Planning

\* The two instances of PlanningRun make the same steps.
LEMMA SameNext == R!Next <=> P!Next
BY DEF R!Planning, P!Planning, R!Identity, P!Identity, R!InFlight, P!InFlight,
       R!RoundEnded, P!RoundEnded, R!Active, P!Active, R!Recorded, P!Recorded,
       R!UsedAttempts, P!UsedAttempts, R!AllIn, P!AllIn, R!NextAttempt, P!NextAttempt,
       R!CanBeginGeneration, P!CanBeginGeneration, R!BeginGeneration,
       P!BeginGeneration, R!CanMarkUnitGenerating, P!CanMarkUnitGenerating, R!Started,
       P!Started, R!MarkUnitGenerating, P!MarkUnitGenerating, R!Expected, P!Expected,
       R!CanMarkUnitValidating, P!CanMarkUnitValidating, R!MarkUnitValidating,
       P!MarkUnitValidating, R!CanRecordCandidateInvalid, P!CanRecordCandidateInvalid,
       R!Rejected, P!Rejected, R!RecordCandidateInvalid, P!RecordCandidateInvalid,
       R!CanRecordCandidateReady, P!CanRecordCandidateReady, R!Accepted, P!Accepted,
       R!RecordCandidateReady, P!RecordCandidateReady, R!RecoveredId, P!RecoveredId,
       R!CanAcceptRecoveredCandidate, P!CanAcceptRecoveredCandidate,
       R!AcceptRecoveredCandidate, P!AcceptRecoveredCandidate, R!CanMarkRoundExhausted,
       P!CanMarkRoundExhausted, R!MarkRoundExhausted, P!MarkRoundExhausted,
       R!CanBeginGlobalCheck, P!CanBeginGlobalCheck, R!BeginGlobalCheck,
       P!BeginGlobalCheck, R!CanBeginGlobalRepair, P!CanBeginGlobalRepair, R!Reopened,
       P!Reopened, R!Replaced, P!Replaced, R!BeginGlobalRepair, P!BeginGlobalRepair,
       R!CanBeginAssembly, P!CanBeginAssembly, R!BeginAssembly, P!BeginAssembly,
       R!CanBeginValidation, P!CanBeginValidation, R!BeginValidation,
       P!BeginValidation, R!CanBeginPendingPersistence, P!CanBeginPendingPersistence,
       R!BeginPendingPersistence, P!BeginPendingPersistence, R!Aborted, P!Aborted,
       R!CanTerminate, P!CanTerminate, R!Terminate, P!Terminate, R!StartGeneration,
       P!StartGeneration, R!StartAttempt, P!StartAttempt, R!StartValidation,
       P!StartValidation, R!CandidateInvalid, P!CandidateInvalid, R!CandidateReady,
       P!CandidateReady, R!RecoveredAccepted, P!RecoveredAccepted, R!RoundExhausted,
       P!RoundExhausted, R!StartGlobalCheck, P!StartGlobalCheck, R!StartGlobalRepair,
       P!StartGlobalRepair, R!StartAssembly, P!StartAssembly, R!StartGlobalValidation,
       P!StartGlobalValidation, R!StartPendingPersistence, P!StartPendingPersistence,
       R!Fail, P!Fail, R!Cancel, P!Cancel, R!UnitNext, P!UnitNext, R!Next, P!Next

\* What the contract says, in the terms of the scheduler.
LEMMA Contract ==
  ASSUME Snapshots
  PROVE  /\ snapshot \in R!Run /\ R!LifecycleValid /\ R!AssemblyComplete /\ R!AttemptOnce
         /\ R!ProjectionValid
         /\ \A i \in R!Identity :
              (/\ snapshot.units[i.unit].status = "pending"
               /\ i.round = snapshot.units[i.unit].round
               /\ i.attempt = R!NextAttempt(snapshot, i.unit)) => i \notin R!UsedAttempts(snapshot)
         /\ \A u \in Units : (Unit(u).status = "pending" /\ Unit(u).attempt = 0)
                            => R!RecoveredId(snapshot, u) \notin R!Recorded(snapshot)
<1>1. snapshot \in R!Run /\ R!LifecycleValid /\ R!AssemblyComplete /\ R!AttemptOnce
      /\ R!ProjectionValid
  BY DEF Snapshots, P!IInv,
       R!TypeOK, P!TypeOK, R!Run, P!Run, R!Phases, P!Phases, R!UnitState, P!UnitState,
       R!Statuses, P!Statuses, R!CandidateId, P!CandidateId, R!History, P!History,
       R!RoundEnded, P!RoundEnded, R!Identity, P!Identity, R!LifecycleValid,
       P!LifecycleValid, R!UnitLifecycle, P!UnitLifecycle, R!InFlight, P!InFlight,
       R!Planning, P!Planning, R!AssemblyComplete, P!AssemblyComplete, R!AllIn,
       P!AllIn, R!AttemptOnce, P!AttemptOnce, R!Recorded, P!Recorded,
       R!ProjectionValid, P!ProjectionValid
<1>2. P!NextIsUnused
  BY P!UnusedNext, SchedulerAssumption DEF P!UnusedNext, Snapshots, R!Strategies, P!Strategies,
     R!CandidateId, P!CandidateId
<1>3. \A i \in R!Identity :
              (/\ snapshot.units[i.unit].status = "pending"
               /\ i.round = snapshot.units[i.unit].round
               /\ i.attempt = R!NextAttempt(snapshot, i.unit)) => i \notin R!UsedAttempts(snapshot)
  BY <1>2 DEF P!NextIsUnused, R!Identity, P!Identity, R!NextAttempt, P!NextAttempt,
     R!UsedAttempts, P!UsedAttempts, R!Recorded, P!Recorded
<1>4. ASSUME NEW u \in Units, Unit(u).status = "pending", Unit(u).attempt = 0,
             R!RecoveredId(snapshot, u) \in R!Recorded(snapshot)
      PROVE  FALSE
  <2> DEFINE c == R!RecoveredId(snapshot, u)
  <2>1. c.unit = u /\ c.round = Unit(u).round /\ c.attempt = 0
    BY DEF R!RecoveredId, Unit
  <2>2. c \in P!Recorded(snapshot)
    BY <1>4 DEF R!Recorded, P!Recorded
  <2> HIDE DEF c
  <2>3. c.attempt \in 1..snapshot.units[c.unit].attempt
    BY <1>4, <2>1, <2>2 DEF Snapshots, P!Unspent, Unit
  <2> QED BY <1>4, <2>1, <2>3 DEF Unit
<1> QED BY <1>1, <1>3, <1>4

------------------------------------------------------------------------------
(* The lock *)

\* No two positions of s hold the same.
Distinct(s) == \A k, l \in DOMAIN s : s[k] = s[l] => k = l

\* Without t the queue of the lock keeps the others, in their order.
LEMMA OthersStay ==
  ASSUME TypeOK, Locking, NEW t \in Tasks
  PROVE  /\ Without(t) \in Seq(Tasks) /\ Distinct(Without(t))
         /\ \A s : (\E k \in DOMAIN Without(t) : Without(t)[k] = s)
                   <=> (s \in Tasks \ {t} /\ call[s] # None)
         /\ \A s \in Tasks \ {t} :
              HoldsLock(s) => Without(t) # <<>> /\ Head(Without(t)) = s
<1>1. /\ lockQ \in Seq(Tasks) /\ Distinct(lockQ)
      /\ \A s : (\E k \in DOMAIN lockQ : lockQ[k] = s) <=> (s \in Tasks /\ call[s] # None)
  <2>1. lockQ \in Seq(Tasks) /\ {lockQ[k] : k \in DOMAIN lockQ} = {s \in Tasks : call[s] # None}
    BY DEF TypeOK
  <2>2. Distinct(lockQ)
    BY DEF Locking, Distinct
  <2> QED BY <2>1, <2>2
<1>2. CASE call[t] = None
  BY <1>1, <1>2 DEF Without, HoldsLock
<1>3. CASE call[t] # None
  <2> DEFINE n == Len(lockQ)
             p == Place(t)
             w == Without(t)
  <2>1. p \in 1..n /\ lockQ[p] = t /\ n \in Nat
    <3>1. \E k \in DOMAIN lockQ : lockQ[k] = t
      BY <1>1, <1>3
    <3>2. p \in DOMAIN lockQ /\ lockQ[p] = t
      BY <3>1 DEF Place
    <3> QED BY <1>1, <3>2
  <2>2. w = [k \in 1..(n - 1) |-> IF k < p THEN lockQ[k] ELSE lockQ[k + 1]]
    BY <1>3 DEF Without
  <2>3. /\ w \in Seq(Tasks) /\ Len(w) = n - 1 /\ DOMAIN w = 1..(n - 1)
        /\ \A k \in 1..(n - 1) : w[k] = lockQ[IF k < p THEN k ELSE k + 1]
    <3>1. /\ DOMAIN w = 1..(n - 1)
          /\ \A k \in 1..(n - 1) : w[k] = lockQ[IF k < p THEN k ELSE k + 1]
      BY <2>2
    <3>2. \A k \in 1..(n - 1) : w[k] \in Tasks
      BY <1>1, <2>1, <3>1
    <3>3. w \in [1..(n - 1) -> Tasks] /\ n - 1 \in Nat
      BY <2>1, <2>2, <3>2
    <3> QED BY <3>1, <3>3
  <2> HIDE DEF w, p, n
  <2>4. DOMAIN lockQ = 1..n
    BY <1>1 DEF n
  <2>5. Distinct(w)
    <3> SUFFICES ASSUME NEW k \in 1..(n - 1), NEW l \in 1..(n - 1), w[k] = w[l]
                 PROVE  k = l
      BY <2>3 DEF Distinct
    <3> DEFINE at(m) == IF m < p THEN m ELSE m + 1
    <3>1. at(k) \in 1..n /\ at(l) \in 1..n /\ lockQ[at(k)] = lockQ[at(l)]
      BY <2>1, <2>3
    <3>2. at(k) = at(l)
      BY <1>1, <2>4, <3>1 DEF Distinct
    <3> QED BY <2>1, <3>2
  <2>6. ASSUME NEW s, s \in Tasks \ {t}, call[s] # None
        PROVE  \E k \in DOMAIN w : w[k] = s
    <3>1. PICK l \in 1..n : lockQ[l] = s
      BY <1>1, <2>4, <2>6
    <3>2. l # p
      BY <2>1, <2>6, <3>1
    <3>3. CASE l < p
      <4>1. l \in 1..(n - 1) BY <2>1, <3>3
      <4> QED BY <2>3, <3>1, <3>3, <4>1
    <3>4. CASE p < l
      <4>1. l - 1 \in 1..(n - 1) /\ ~(l - 1 < p) /\ (l - 1) + 1 = l BY <2>1, <3>4
      <4>2. w[l - 1] = lockQ[(l - 1) + 1] BY <2>3, <4>1
      <4> QED BY <2>3, <3>1, <4>1, <4>2
    <3> QED BY <2>1, <3>2, <3>3, <3>4
  <2>7. ASSUME NEW k \in DOMAIN w
        PROVE  w[k] \in Tasks \ {t} /\ call[w[k]] # None
    <3>1. PICK l \in 1..n : l # p /\ w[k] = lockQ[l]
      BY <2>1, <2>3, <2>7
    <3> QED BY <1>1, <2>1, <2>4, <3>1 DEF Distinct
  <2>8. ASSUME NEW s \in Tasks \ {t}, HoldsLock(s)
        PROVE  w # <<>> /\ Head(w) = s
    <3>1. n >= 1 /\ lockQ[1] = s
      BY <1>1, <2>1, <2>8 DEF HoldsLock, n
    <3>2. p # 1 /\ n >= 2
      BY <2>1, <2>8, <3>1
    <3>3. 1 \in 1..(n - 1) /\ 1 < p
      BY <2>1, <3>2
    <3>4. w[1] = s
      BY <2>3, <3>1, <3>3
    <3> QED BY <2>1, <2>3, <3>2, <3>4
  <2> QED BY <2>3, <2>5, <2>6, <2>7, <2>8 DEF w
<1> QED BY <1>2, <1>3

\* t returns from apply, or applies e next.
Turn(t, e) ==
  /\ UNCHANGED snapshot
  /\ DOMAIN tx' = Tasks /\ tx'[t] = NoTx
  /\ DOMAIN call' = Tasks /\ call'[t] = e
  /\ \A s \in Tasks \ {t} : tx'[s] = tx[s] /\ call'[s] = call[s]
  /\ lockQ' = IF e = None THEN Without(t) ELSE Append(Without(t), t)

\* The parts of TypeOK about the controller.
Controller ==
  /\ R!TypeOK
  /\ DOMAIN call = Tasks /\ \A t \in Tasks : call[t] # None => EventOk(call[t])
  /\ lockQ \in Seq(Tasks)
  /\ {lockQ[k] : k \in DOMAIN lockQ} = {t \in Tasks : call[t] # None}
  /\ DOMAIN tx = Tasks
  /\ \A t \in Tasks :
       /\ tx[t] = [stage |-> tx[t].stage, run |-> tx[t].run]
       /\ tx[t].stage \in {"none", "write", "publish"}
       /\ tx[t].stage # "write" => tx[t].run = None
       /\ tx[t].stage # "none" => HoldsLock(t)

\* A turn leaves the others' calls and commits alone.
LEMMA TurnOthers ==
  ASSUME TypeOK, NEW t \in Tasks, NEW e, Turn(t, e)
  PROVE  /\ call'[t] = e /\ tx'[t] = NoTx /\ ~Applied(t)'
         /\ \A s \in Tasks \ {t} : /\ call'[s] = call[s] /\ tx'[s] = tx[s]
                                   /\ Applied(s)' <=> Applied(s)
BY DEF TypeOK, Turn, Applied, NoTx

\* A turn keeps the lock queue in order and the other commits current.
LEMMA TurnLocking ==
  ASSUME TypeOK, Locking, NEW t \in Tasks, NEW e, Turn(t, e), e = None \/ EventOk(e)
  PROVE  Controller' /\ Locking'
<1> DEFINE w == Without(t)
<1>1. /\ w \in Seq(Tasks) /\ Distinct(w)
      /\ \A s : (\E k \in DOMAIN w : w[k] = s) <=> (s \in Tasks \ {t} /\ call[s] # None)
      /\ \A s \in Tasks \ {t} : HoldsLock(s) => w # <<>> /\ Head(w) = s
  BY OthersStay
<1> HIDE DEF w
<1>2. lockQ' = IF e = None THEN w ELSE Append(w, t)
  BY DEF Turn, w
<1>3. /\ DOMAIN call' = Tasks /\ DOMAIN tx' = Tasks
      /\ call'[t] = e /\ tx'[t] = NoTx
      /\ \A s \in Tasks \ {t} : call'[s] = call[s] /\ tx'[s] = tx[s]
  BY DEF TypeOK, Turn
<1>4. /\ lockQ' \in Seq(Tasks) /\ Distinct(lockQ')
      /\ \A s : (\E k \in DOMAIN lockQ' : lockQ'[k] = s) <=> (s \in Tasks /\ call'[s] # None)
      /\ \A s \in Tasks \ {t} : HoldsLock(s) => lockQ' # <<>> /\ Head(lockQ') = s
  <2>1. CASE e = None
    BY <1>1, <1>2, <1>3, <2>1
  <2>2. CASE e # None
    <3>1. lockQ' = Append(w, t)
      BY <1>2, <2>2
    <3>2. /\ lockQ' \in Seq(Tasks) /\ DOMAIN lockQ' = 1..(Len(w) + 1) /\ DOMAIN w = 1..Len(w)
          /\ Len(w) \in Nat
          /\ \A k \in 1..Len(w) : lockQ'[k] = w[k]
          /\ lockQ'[Len(w) + 1] = t
      BY <1>1, <3>1
    <3>3. Distinct(lockQ')
      <4> SUFFICES ASSUME NEW k \in 1..(Len(w) + 1), NEW l \in 1..(Len(w) + 1),
                          lockQ'[k] = lockQ'[l]
                   PROVE  k = l
        BY <3>2 DEF Distinct
      <4>1. \A m \in 1..Len(w) : w[m] # t
        BY <1>1, <3>2
      <4>2. k \in 1..Len(w) \/ k = Len(w) + 1
        BY <3>2
      <4>3. l \in 1..Len(w) \/ l = Len(w) + 1
        BY <3>2
      <4> QED BY <1>1, <3>2, <4>1, <4>2, <4>3 DEF Distinct
    <3>4. ASSUME NEW s
          PROVE  (\E k \in DOMAIN lockQ' : lockQ'[k] = s) <=> (s \in Tasks /\ call'[s] # None)
      <4>1. CASE s = t
        BY <1>3, <2>2, <3>2, <4>1
      <4>2. CASE s # t
        <5>1. (\E k \in DOMAIN lockQ' : lockQ'[k] = s) <=> (\E k \in DOMAIN w : w[k] = s)
          <6>1. \A k \in DOMAIN lockQ' : k \in DOMAIN w \/ k = Len(w) + 1
            BY <3>2
          <6>2. \A k \in DOMAIN w : k \in DOMAIN lockQ' /\ lockQ'[k] = w[k]
            BY <3>2
          <6> QED BY <3>2, <4>2, <6>1, <6>2
        <5> QED BY <1>1, <1>3, <4>2, <5>1
      <4> QED BY <4>1, <4>2
    <3>5. ASSUME NEW s \in Tasks \ {t}, HoldsLock(s)
          PROVE  lockQ' # <<>> /\ Head(lockQ') = s
      <4>1. w # <<>> /\ Head(w) = s
        BY <1>1, <3>5
      <4>2. 1 \in 1..Len(w) /\ w[1] = s
        BY <1>1, <4>1
      <4>3. lockQ'[1] = s /\ Len(lockQ') # 0
        BY <3>2, <4>2
      <4> QED BY <3>2, <4>3
    <3> QED BY <3>2, <3>3, <3>4, <3>5
  <2> QED BY <2>1, <2>2
<1>5. \A s \in Tasks \ {t} : HoldsLock(s) => HoldsLock(s)'
  BY <1>4 DEF HoldsLock
<1>6. Controller'
  <2>1. R!TypeOK'
    BY DEF TypeOK, Turn, R!TypeOK
  <2>2. \A s \in Tasks : call'[s] # None => EventOk(call'[s])
    BY <1>3 DEF TypeOK
  <2>3. \A s \in Tasks : EventOk(call'[s]) => EventOk(call[s])'
    BY DEF EventOk, Event
  <2>4. {lockQ'[k] : k \in DOMAIN lockQ'} = {s \in Tasks : call'[s] # None}
    BY <1>4
  <2>5. ASSUME NEW s \in Tasks
        PROVE  /\ tx'[s] = [stage |-> tx'[s].stage, run |-> tx'[s].run]
               /\ tx'[s].stage \in {"none", "write", "publish"}
               /\ tx'[s].stage # "write" => tx'[s].run = None
               /\ tx'[s].stage # "none" => HoldsLock(s)'
    <3>1. CASE s = t
      BY <1>3, <3>1 DEF NoTx
    <3>2. CASE s # t
      BY <1>3, <1>5, <3>2 DEF TypeOK
    <3> QED BY <3>1, <3>2
  <2> QED BY <1>3, <1>4, <2>1, <2>2, <2>4, <2>5 DEF Controller, EventOk
<1>7. Locking'
  <2>1. \A k, l \in DOMAIN lockQ' : lockQ'[k] = lockQ'[l] => k = l
    BY <1>4 DEF Distinct
  <2>2. ASSUME NEW s \in Tasks
        PROVE  /\ tx'[s].stage = "write" => Legal(call[s])' /\ tx'[s].run = Proposed(call[s])'
               /\ Applied(s)' => snapshot'.status = Leaving(call'[s])
    <3>1. CASE s = t
      BY <1>3, <3>1 DEF NoTx, Applied
    <3>2. CASE s # t
      <4>1. snapshot' = snapshot /\ call'[s] = call[s] /\ tx'[s] = tx[s]
        BY <1>3, <3>2 DEF Turn
      <4>2. (Legal(call[s])' <=> Legal(call[s])) /\ Proposed(call[s])' = Proposed(call[s])
        BY <4>1 DEF Legal, Proposed
      <4> QED BY <4>1, <4>2 DEF Locking, Applied, Live
    <3> QED BY <3>1, <3>2
  <2> QED BY <2>1, <2>2 DEF Locking
<1> QED BY <1>6, <1>7

------------------------------------------------------------------------------
(* The commits *)

\* The transition of event e is made.
Applies(e) == EventOk(e) /\ Legal(e) /\ snapshot' = Proposed(e)

\* What an event other than the end of the run leaves behind.
Remains == Live /\ Live'

\* The event changed the state of unit u to unit, in the phase of generation.
OneUnit(u, unit) ==
  /\ Remains /\ Phase = "generating_units" /\ Phase' = "generating_units"
  /\ snapshot'.units[u] = unit
  /\ \A v \in Units \ {u} : snapshot'.units[v] = snapshot.units[v]

\* The event moved the run from one of the phases to another.
Phased(from, to) ==
  /\ Remains /\ Phase \in from /\ Phase' = to

\* What the events about one unit do to it.
LEMMA UnitEffects ==
  ASSUME snapshot \in R!Run, NEW e, Applies(e)
  PROVE  /\ e.type = "UnitAttemptStarted" =>
              /\ Unit(e.arg.unit).status = "pending"
              /\ OneUnit(e.arg.unit, R!Started(Unit(e.arg.unit), e.arg))
         /\ e.type = "UnitValidationStarted" =>
              OneUnit(e.arg.unit, [Unit(e.arg.unit) EXCEPT !.status = "validating"])
         /\ e.type = "CandidateInvalid" =>
              OneUnit(e.arg.unit, R!Rejected(Unit(e.arg.unit)))
         /\ e.type = "CandidateReady" =>
              OneUnit(e.arg.unit, R!Accepted(Unit(e.arg.unit), e.arg))
         /\ e.type = "RecoveredCandidateAccepted" =>
              OneUnit(e.arg, R!Accepted(Unit(e.arg), R!RecoveredId(snapshot, e.arg)))
         /\ e.type = "RoundExhausted" =>
              OneUnit(e.arg, [Unit(e.arg) EXCEPT !.status = "round_exhausted"])
<1>1. snapshot = [snapshot EXCEPT !.status = snapshot.status] /\ DOMAIN snapshot.units = Units
      /\ DOMAIN snapshot = {"status", "phase", "globalRound", "globalIssues", "failure", "units",
                            "valid", "invalid", "superseded"}
  BY DEF R!Run
<1>2. CASE e.type = "UnitAttemptStarted"
  <2>1. R!CanMarkUnitGenerating(snapshot, e.arg) /\ snapshot' = R!MarkUnitGenerating(snapshot, e.arg)
        /\ e.arg.unit \in Units
    BY <1>2 DEF Applies, Legal, Proposed, EventOk, AttemptEvents, R!Identity
  <2> QED BY <1>1, <1>2, <2>1 DEF OneUnit, Remains, Live, Phase, Unit, R!CanMarkUnitGenerating,
             R!MarkUnitGenerating, R!Active
<1>3. CASE e.type = "UnitValidationStarted"
  <2>1. R!CanMarkUnitValidating(snapshot, e.arg) /\ snapshot' = R!MarkUnitValidating(snapshot, e.arg)
        /\ e.arg.unit \in Units
    BY <1>3 DEF Applies, Legal, Proposed, EventOk, AttemptEvents, R!Identity
  <2> QED BY <1>1, <1>3, <2>1 DEF OneUnit, Remains, Live, Phase, Unit, R!CanMarkUnitValidating,
             R!MarkUnitValidating, R!Active, R!Expected
<1>4. CASE e.type = "CandidateInvalid"
  <2>1. R!CanRecordCandidateInvalid(snapshot, e.arg)
        /\ snapshot' = R!RecordCandidateInvalid(snapshot, e.arg) /\ e.arg.unit \in Units
    BY <1>4 DEF Applies, Legal, Proposed, EventOk, AttemptEvents, R!Identity
  <2> QED BY <1>1, <1>4, <2>1 DEF OneUnit, Remains, Live, Phase, Unit, R!CanRecordCandidateInvalid,
             R!RecordCandidateInvalid, R!Active, R!Expected
<1>5. CASE e.type = "CandidateReady"
  <2>1. R!CanRecordCandidateReady(snapshot, e.arg)
        /\ snapshot' = R!RecordCandidateReady(snapshot, e.arg) /\ e.arg.unit \in Units
    BY <1>5 DEF Applies, Legal, Proposed, EventOk, AttemptEvents, R!Identity
  <2> QED BY <1>1, <1>5, <2>1 DEF OneUnit, Remains, Live, Phase, Unit, R!CanRecordCandidateReady,
             R!RecordCandidateReady, R!Active, R!Expected
<1>6. CASE e.type = "RecoveredCandidateAccepted"
  <2>1. R!CanAcceptRecoveredCandidate(snapshot, e.arg)
        /\ snapshot' = R!AcceptRecoveredCandidate(snapshot, e.arg) /\ e.arg \in Units
    BY <1>6 DEF Applies, Legal, Proposed, EventOk, UnitEvents, R!Planning
  <2> QED BY <1>1, <1>6, <2>1 DEF OneUnit, Remains, Live, Phase, Unit, R!CanAcceptRecoveredCandidate,
             R!AcceptRecoveredCandidate, R!Active
<1>7. CASE e.type = "RoundExhausted"
  <2>1. R!CanMarkRoundExhausted(snapshot, e.arg)
        /\ snapshot' = R!MarkRoundExhausted(snapshot, e.arg) /\ e.arg \in Units
    BY <1>7 DEF Applies, Legal, Proposed, EventOk, UnitEvents, R!Planning
  <2> QED BY <1>1, <1>7, <2>1 DEF OneUnit, Remains, Live, Phase, Unit, R!CanMarkRoundExhausted,
             R!MarkRoundExhausted, R!Active
<1> QED BY <1>2, <1>3, <1>4, <1>5, <1>6, <1>7

\* What the events about the whole run do to its phase and its units.
LEMMA PhaseEffects ==
  ASSUME snapshot \in R!Run, NEW e, Applies(e)
  PROVE  /\ e.type = "GenerationStarted" =>
              Phased({"preparing"}, "generating_units") /\ snapshot' = R!BeginGeneration(snapshot)
         /\ e.type = "GlobalCheckStarted" =>
              Phased({"generating_units"}, "global_check") /\ snapshot'.units = snapshot.units
         /\ e.type = "AssemblyStarted" =>
              Phased({"global_check"}, "assembling") /\ snapshot'.units = snapshot.units
         /\ e.type = "GlobalValidationStarted" =>
              Phased({"assembling"}, "validating") /\ snapshot'.units = snapshot.units
         /\ e.type = "PendingPersistenceStarted" =>
              Phased({"validating"}, "persisting_pending") /\ snapshot'.units = snapshot.units
         /\ e.type = "GlobalRepairStarted" =>
              /\ Remains /\ Phase' = "generating_units"
              /\ \A u \in Units :
                   snapshot'.units[u] = IF u \in e.arg THEN R!Reopened(Unit(u)) ELSE Unit(u)
         /\ e.type = "RunFailed" =>
              /\ Live /\ snapshot'.status = "failed" /\ Phase' = Phase
         /\ e.type = "RunCancelled" =>
              /\ Live /\ snapshot'.status = "cancelled" /\ Phase' = Phase
<1>1. DOMAIN snapshot.units = Units
      /\ DOMAIN snapshot = {"status", "phase", "globalRound", "globalIssues", "failure", "units",
                            "valid", "invalid", "superseded"}
  BY DEF R!Run
<1>2. CASE e.type = "GenerationStarted"
  BY <1>1, <1>2 DEF Applies, Legal, Proposed, Phased, Remains, Live, Phase, R!CanBeginGeneration,
     R!BeginGeneration, R!Active
<1>3. CASE e.type = "GlobalCheckStarted"
  BY <1>1, <1>3 DEF Applies, Legal, Proposed, Phased, Remains, Live, Phase, R!CanBeginGlobalCheck,
     R!BeginGlobalCheck, R!Active
<1>4. CASE e.type = "AssemblyStarted"
  BY <1>1, <1>4 DEF Applies, Legal, Proposed, Phased, Remains, Live, Phase, R!CanBeginAssembly,
     R!BeginAssembly, R!Active
<1>5. CASE e.type = "GlobalValidationStarted"
  BY <1>1, <1>5 DEF Applies, Legal, Proposed, Phased, Remains, Live, Phase, R!CanBeginValidation,
     R!BeginValidation, R!Active
<1>6. CASE e.type = "PendingPersistenceStarted"
  BY <1>1, <1>6 DEF Applies, Legal, Proposed, Phased, Remains, Live, Phase,
     R!CanBeginPendingPersistence, R!BeginPendingPersistence, R!Active
<1>7. CASE e.type = "GlobalRepairStarted"
  BY <1>1, <1>7 DEF Applies, Legal, Proposed, Remains, Live, Phase, Unit,
     R!CanBeginGlobalRepair, R!BeginGlobalRepair, R!Active
<1>8. CASE e.type = "RunFailed"
  BY <1>1, <1>8 DEF Applies, Legal, Proposed, Live, Phase, R!CanTerminate, R!Terminate
<1>9. CASE e.type = "RunCancelled"
  BY <1>1, <1>9 DEF Applies, Legal, Proposed, Live, Phase, R!CanTerminate, R!Terminate
<1> QED BY <1>2, <1>3, <1>4, <1>5, <1>6, <1>7, <1>8, <1>9

\* A committed event is a step of the run.
LEMMA AppliesIsNext ==
  ASSUME NEW e, Applies(e)
  PROVE  R!Next
<1>1. e.type \in Events /\ (e.type \in AttemptEvents => e.arg \in R!Identity)
      /\ (e.type \in UnitEvents => e.arg \in Units)
      /\ (e.type = "GlobalRepairStarted" => e.arg \in SUBSET Units)
  BY DEF Applies, EventOk, R!Planning
<1>2. CASE e.type \in AttemptEvents
  BY <1>1, <1>2 DEF Applies, AttemptEvents, Legal, Proposed, R!Next, R!UnitNext, R!StartAttempt,
     R!StartValidation, R!CandidateInvalid, R!CandidateReady
<1>3. CASE e.type \in UnitEvents
  BY <1>1, <1>3 DEF Applies, UnitEvents, Legal, Proposed, R!Next, R!UnitNext, R!RecoveredAccepted,
     R!RoundExhausted
<1>4. CASE e.type \in {"GenerationStarted", "GlobalCheckStarted", "AssemblyStarted"}
  BY <1>4 DEF Applies, Legal, Proposed, R!Next, R!StartGeneration, R!StartGlobalCheck, R!StartAssembly
<1>5. CASE e.type \in {"GlobalValidationStarted", "PendingPersistenceStarted"}
  BY <1>5 DEF Applies, Legal, Proposed, R!Next, R!StartGlobalValidation, R!StartPendingPersistence
<1>6. CASE e.type = "GlobalRepairStarted"
  BY <1>1, <1>6 DEF Applies, Legal, Proposed, R!Next, R!StartGlobalRepair
<1>7. CASE e.type \in {"RunFailed", "RunCancelled"}
  BY <1>7 DEF Applies, Legal, Proposed, R!Next, R!Fail, R!Cancel
<1> QED BY <1>1, <1>2, <1>3, <1>4, <1>5, <1>6, <1>7 DEF Events

\* What a commit changes besides the snapshot.
Committed(t) ==
  /\ t \in Tasks /\ call[t] # None /\ Applies(call[t])
  /\ HoldsLock(t) /\ tx' = [tx EXCEPT ![t] = [stage |-> "publish", run |-> None]]
  /\ Applied(t)' /\ ~Applied(t)
  /\ \A s \in Tasks \ {t} : tx[s] = NoTx /\ tx'[s] = NoTx
  /\ UNCHANGED <<lockQ, call, faults, cancelled, pc, job, round, todo, cancels>>

\* A commit writes the transition of the snapshot it finds.
LEMMA CommitApplies ==
  ASSUME TypeOK, Locking, NEW t \in Tasks, CommitWrites(t)
  PROVE  Committed(t)
<1>1. HoldsLock(t) /\ tx[t].stage = "write" /\ snapshot' = tx[t].run
      /\ tx' = [tx EXCEPT ![t] = [stage |-> "publish", run |-> None]]
  BY DEF CommitWrites, Committing
<1>2. call[t] # None
  <2>1. lockQ \in Seq(Tasks) /\ {lockQ[k] : k \in DOMAIN lockQ} = {s \in Tasks : call[s] # None}
    BY DEF TypeOK
  <2>2. 1 \in DOMAIN lockQ /\ lockQ[1] = t
    BY <1>1, <2>1 DEF HoldsLock
  <2> QED BY <2>1, <2>2
<1>3. EventOk(call[t]) /\ DOMAIN tx = Tasks
  BY <1>2 DEF TypeOK
<1>4. Applies(call[t])
  BY <1>1, <1>3 DEF Applies, Locking
<1>5. ASSUME NEW s \in Tasks \ {t} PROVE tx[s] = NoTx /\ tx'[s] = NoTx
  <2>1. ~HoldsLock(s)
    BY <1>1, <1>5 DEF HoldsLock
  <2>2. tx[s].stage = "none" /\ tx[s].run = None
    BY <2>1 DEF TypeOK
  <2>3. tx[s] = [stage |-> tx[s].stage, run |-> tx[s].run]
    BY DEF TypeOK
  <2>4. tx[s] = NoTx
    BY <2>2, <2>3 DEF NoTx
  <2> QED BY <1>1, <2>4
<1>6. Applied(t)' /\ ~Applied(t)
  BY <1>1, <1>3 DEF Applied
<1> QED BY <1>1, <1>2, <1>4, <1>5, <1>6 DEF Committed, CommitWrites, round

\* The snapshot stays one of a run.
LEMMA SnapshotsStep ==
  ASSUME Snapshots, R!Next \/ UNCHANGED snapshot
  PROVE  Snapshots'
<1>1. CASE R!Next
  <2>1. P!Next
    BY <1>1, SameNext
  <2>2. P!PlanningRunAssumption
    BY SchedulerAssumption DEF P!PlanningRunAssumption, R!Strategies, P!Strategies,
       R!CandidateId, P!CandidateId
  <2>3. P!TypeOK' /\ P!LifecycleValid' /\ P!ProjectionValid'
    BY <2>1, <2>2, P!TypeStep, P!LifecycleStep, P!ProjectionStep
       DEF Snapshots, P!TypeStep, P!LifecycleStep, P!ProjectionStep, P!PlanningRunAssumption
  <2>4. P!NoHiddenFallback' /\ P!AttemptOnce' /\ P!AssemblyComplete'
    BY <2>1, <2>2, P!FallbackStep, P!OnceStep, P!AssemblyStep
       DEF Snapshots, P!FallbackStep, P!OnceStep, P!AssemblyStep, P!PlanningRunAssumption
  <2>5. P!Unspent'
    BY <2>1, <2>2, P!UnspentStep DEF Snapshots, P!UnspentStep, P!PlanningRunAssumption
  <2> QED BY <2>3, <2>4, <2>5 DEF Snapshots, P!IInv
<1>2. CASE UNCHANGED snapshot
  BY <1>2 DEF Snapshots, P!IInv, P!Unspent, P!TypeOK, P!LifecycleValid, P!ProjectionValid,
     P!NoHiddenFallback, P!AttemptOnce, P!AssemblyComplete, P!AllIn, P!Recorded
<1> QED BY <1>1, <1>2

\* A commit keeps the lock queue in order: nobody else had one under way.
LEMMA CommitLocking ==
  ASSUME TypeOK, Locking, Snapshots, NEW t, Committed(t)
  PROVE  Controller' /\ Locking'
<1>1. snapshot \in R!Run /\ Snapshots' /\ R!TypeOK'
  <2>1. Snapshots'
    BY AppliesIsNext, SnapshotsStep DEF Committed
  <2>2. snapshot \in R!Run
    BY DEF TypeOK, R!TypeOK
  <2>3. P!TypeOK'
    BY <2>1 DEF Snapshots, P!IInv
  <2>4. R!TypeOK'
    BY <2>3 DEF R!TypeOK, P!TypeOK, R!Run, P!Run, R!Phases, P!Phases, R!UnitState, P!UnitState,
       R!Statuses, P!Statuses, R!CandidateId, P!CandidateId, R!History, P!History,
       R!RoundEnded, P!RoundEnded, R!Identity, P!Identity
  <2> QED BY <2>1, <2>2, <2>4
<1>2. t \in Tasks /\ call' = call /\ lockQ' = lockQ /\ HoldsLock(t) /\ Applied(t)' /\ DOMAIN tx = Tasks
      /\ tx' = [tx EXCEPT ![t] = [stage |-> "publish", run |-> None]]
      /\ \A s \in Tasks \ {t} : tx'[s] = NoTx
  BY DEF Committed, TypeOK
<1>3. ASSUME NEW s \in Tasks
      PROVE  /\ tx'[s] = [stage |-> tx'[s].stage, run |-> tx'[s].run]
             /\ tx'[s].stage \in {"none", "write", "publish"}
             /\ tx'[s].stage # "write" => tx'[s].run = None
             /\ tx'[s].stage # "none" => HoldsLock(s)'
             /\ s # t => ~Applied(s)'
             /\ tx'[s].stage # "write"
  <2>1. CASE s = t
    BY <1>2, <2>1 DEF HoldsLock
  <2>2. CASE s # t
    BY <1>2, <2>2 DEF NoTx, Applied
  <2> QED BY <2>1, <2>2
<1>4. Controller'
  <2>1. \A s \in Tasks : call'[s] # None => EventOk(call[s])'
    BY <1>2 DEF TypeOK, EventOk
  <2> QED BY <1>1, <1>2, <1>3, <2>1 DEF Controller, TypeOK, EventOk
<1>5. snapshot'.status = Leaving(call[t])
  <2>1. Applies(call[t])
    BY DEF Committed
  <2>2. CASE call[t].type = "RunFailed"
    BY <1>1, <2>1, <2>2, PhaseEffects DEF Leaving
  <2>3. CASE call[t].type = "RunCancelled"
    BY <1>1, <2>1, <2>3, PhaseEffects DEF Leaving
  <2>4. call[t].type \in AttemptEvents \cup UnitEvents => Live'
    BY <1>1, <2>1, UnitEffects DEF OneUnit, Remains, AttemptEvents, UnitEvents
  <2>5. call[t].type \in Events \ (AttemptEvents \cup UnitEvents \cup {"RunFailed", "RunCancelled"})
          => Live'
    BY <1>1, <2>1, PhaseEffects DEF Events, Phased, Remains
  <2>6. call[t].type \in Events
    BY <2>1 DEF Applies, EventOk
  <2>7. CASE call[t].type \notin {"RunFailed", "RunCancelled"}
    <3>1. Live'
      BY <2>4, <2>5, <2>6, <2>7
    <3> QED BY <2>7, <3>1 DEF Leaving, Live
  <2> QED BY <2>2, <2>3, <2>7
<1>6. Locking'
  <2>1. \A k, l \in DOMAIN lockQ' : lockQ'[k] = lockQ'[l] => k = l
    BY <1>2 DEF Locking
  <2> QED BY <1>2, <1>3, <1>5, <2>1 DEF Locking
<1> QED BY <1>4, <1>6

------------------------------------------------------------------------------
(* Every event is accepted while the run is active *)

\* A live run accepts the event a worker applies.
LEMMA WorkerAccepted ==
  ASSUME TypeOK, Snapshots, WorkerCalls, WorkersProgress, NEW w \in Workers,
         Live, call[w] # None, ~Applied(w)
  PROVE  ~Ignored(call[w]) /\ Legal(call[w])
<1> DEFINE e == call[w]
           j == job[w]
           u == Unit(job[w].id.unit)
<1>1. /\ pc[w] \in {"start", "validate", "invalid", "ready", "exhaust", "fail"} /\ j # None
      /\ WorkerCall(w) /\ WorkerProgress(w)
  BY DEF TypeOK, WorkerPcs, WorkerCalls, WorkerCall, WorkersProgress
<1>2. EventOk(e) /\ j.id.unit \in Units /\ R!AttemptOnce
  <2>1. w \in Tasks /\ job[w] \in Jobs \cup {None}
    BY DEF TypeOK, Tasks
  <2> QED BY <1>1, <2>1, Contract DEF TypeOK, Jobs, R!Identity
<1>3. CASE pc[w] = "start"
  <2>1. e = Event("UnitAttemptStarted", j.id) /\ JobCurrent(j)
    BY <1>1, <1>3 DEF WorkerCall, WorkerProgress
  <2>2. e.type = "UnitAttemptStarted" /\ e.arg = j.id
    BY <2>1 DEF Event
  <2>3. j.id \in R!Identity
    BY <1>2, <2>2 DEF EventOk, AttemptEvents
  <2>4. /\ j.id = [unit |-> j.id.unit, round |-> u.round, attempt |-> u.attempt + 1]
        /\ u.status = "pending" /\ u.attempt < LocalMax /\ Strategy[j.id.unit] = "model"
        /\ R!Active(snapshot, {"generating_units"})
    <3>1. j = NextJob(j.id.unit)
      BY <2>1 DEF JobCurrent
    <3> QED BY <2>1, <3>1 DEF JobCurrent, NextJob, Unit, UnitStatus
  <2>5. j.id.round = u.round /\ j.id.attempt = u.attempt + 1 /\ u.attempt \in Nat
    <3>1. u.attempt \in 0..LocalMax
      BY <1>2, Contract DEF R!Run, R!UnitState, Unit
    <3> QED BY <2>4, <3>1, SchedulerAssumption
  <2>6. j.id \notin R!UsedAttempts(snapshot) /\ j.id.attempt = R!NextAttempt(snapshot, j.id.unit)
    <3>1. j.id.attempt = R!NextAttempt(snapshot, j.id.unit)
      BY <2>4, <2>5 DEF R!NextAttempt, Unit
    <3> QED BY <2>3, <2>4, <2>5, <3>1, Contract DEF Unit
  <2>7. R!CanMarkUnitGenerating(snapshot, j.id)
    BY <2>4, <2>5, <2>6, SchedulerAssumption DEF R!CanMarkUnitGenerating, Unit
  <2> QED BY <2>2, <2>7 DEF Legal, Ignored
<1>4. CASE pc[w] = "validate"
  <2>1. e = Event("UnitValidationStarted", j.id) /\ u.status = "generating" /\ u.expected = j.id
        /\ Phase = "generating_units"
    BY <1>1, <1>4 DEF WorkerCall, WorkerProgress
  <2> QED BY <2>1 DEF Event, Legal, Ignored, Unit, Live, Phase, R!AcceptsAttempt,
             R!CanMarkUnitValidating, R!Expected, R!Active
<1>5. CASE pc[w] = "invalid"
  <2>1. e = Event("CandidateInvalid", j.id) /\ u.status \in R!InFlight /\ u.expected = j.id
        /\ Phase = "generating_units" /\ Strategy[j.id.unit] = "model"
    BY <1>1, <1>5 DEF WorkerCall, WorkerProgress
  <2>2. j.id \notin R!Recorded(snapshot)
    BY <1>2, <2>1 DEF R!AttemptOnce, Unit
  <2> QED BY <2>1, <2>2 DEF Event, Legal, Ignored, Unit, Live, Phase, R!AcceptsAttempt,
             R!CanRecordCandidateInvalid, R!Expected, R!Active
<1>6. CASE pc[w] = "ready"
  <2>1. e = Event("CandidateReady", j.id) /\ u.status = "validating" /\ u.expected = j.id
        /\ Phase = "generating_units"
    BY <1>1, <1>6 DEF WorkerCall, WorkerProgress
  <2>2. j.id \notin R!Recorded(snapshot)
    BY <1>2, <2>1 DEF R!AttemptOnce, Unit
  <2> QED BY <2>1, <2>2 DEF Event, Legal, Ignored, Unit, Live, Phase, R!AcceptsAttempt,
             R!CanRecordCandidateReady, R!Expected, R!Active
<1>7. CASE pc[w] = "exhaust"
  <2>1. e = Event("RoundExhausted", j.id.unit) /\ u.status = "pending" /\ u.issues # "none"
        /\ u.attempt = LocalMax /\ Phase = "generating_units"
    BY <1>1, <1>7 DEF WorkerCall, WorkerProgress
  <2> QED BY <2>1 DEF Event, Legal, Ignored, Unit, Live, Phase, R!CanMarkRoundExhausted, R!Active
<1>8. CASE pc[w] = "fail"
  <2>1. e = Event("RunFailed", None)
    BY <1>1, <1>8 DEF WorkerCall
  <2> QED BY <2>1 DEF Event, Legal, Ignored, Live, R!CanTerminate
<1> QED BY <1>1, <1>3, <1>4, <1>5, <1>6, <1>7, <1>8

\* A live run accepts the event the orchestrator applies.
LEMMA MainAccepted ==
  ASSUME TypeOK, Snapshots, MainCall, MainProgress, Live, call[Main] # None, ~Applied(Main)
  PROVE  ~Ignored(call[Main]) /\ Legal(call[Main])
<1> DEFINE e == call[Main]
           h == Head(todo)
           u == Unit(h)
           i == e.arg
<1>1. pc[Main] \in MainPcs \ ({"join", "gather", "cancel_gather"} \cup Ended)
  BY DEF TypeOK, MainCall
<1>2. EventOk(e) /\ R!AttemptOnce /\ snapshot \in R!Run
  BY Contract DEF TypeOK, Tasks
<1>3. CASE pc[Main] = "begin"
  <2>1. e = Event("GenerationStarted", None) /\ snapshot = R!NewRun
    BY <1>3 DEF MainCall, MainProgress
  <2>2. R!CanBeginGeneration(R!NewRun)
    BY DEF R!CanBeginGeneration, R!NewRun, R!NewUnit, R!Active
  <2> QED BY <2>1, <2>2 DEF Event, Legal, Ignored
<1>4. CASE pc[Main] = "recover"
  <2>1. e = Event("RecoveredCandidateAccepted", h) /\ Phase = "generating_units"
        /\ todo # <<>> /\ Untouched(todo[1])
    <3>1. e = Event("RecoveredCandidateAccepted", h) /\ todo # <<>> /\ Recovering(FALSE)
      BY <1>4 DEF MainCall, MainProgress, Applied
    <3>2. 1 \in DOMAIN todo
      BY <3>1, HeadOf DEF TypeOK
    <3> QED BY <3>1, <3>2 DEF Recovering
  <2>2. h = todo[1] /\ h \in R!Planning /\ h \in Units
    BY <2>1, HeadOf DEF TypeOK, R!Planning
  <2>3. R!CanAcceptRecoveredCandidate(snapshot, h)
    BY <2>1, <2>2, Contract DEF R!CanAcceptRecoveredCandidate, Untouched, Unit, Live, Phase, R!Active
  <2> QED BY <2>1, <2>3 DEF Event, Legal, Ignored
<1>5. CASE pc[Main] \in {"det_start", "det_validate", "det_ready"}
  <2>1. /\ Determined(FALSE) /\ Phase = "generating_units" /\ i.unit = h
        /\ todo # <<>> /\ h \in Units /\ Strategy[h] = "deterministic"
        /\ e.type = CASE pc[Main] = "det_start" -> "UnitAttemptStarted"
                      [] pc[Main] = "det_validate" -> "UnitValidationStarted"
                      [] pc[Main] = "det_ready" -> "CandidateReady"
    <3>1. /\ Determined(FALSE) /\ i.unit = h /\ todo # <<>>
          /\ e.type = CASE pc[Main] = "det_start" -> "UnitAttemptStarted"
                        [] pc[Main] = "det_validate" -> "UnitValidationStarted"
                        [] pc[Main] = "det_ready" -> "CandidateReady"
      BY <1>5 DEF MainCall, MainProgress, Event, Applied
    <3>2. h = todo[1] /\ h \in R!Planning /\ 1 \in DOMAIN todo
      BY <3>1, HeadOf DEF TypeOK
    <3> QED BY <3>1, <3>2 DEF Determined, Listed, R!Planning
  <2>2. i \in R!Identity
    BY <1>2, <1>5, <2>1 DEF EventOk, AttemptEvents
  <2>3. CASE pc[Main] = "det_start"
    <3>1. u.status = "pending" /\ i = DeterministicId(h) /\ e.type = "UnitAttemptStarted"
      BY <2>1, <2>3 DEF Determined
    <3>2. i.round = snapshot.units[h].round /\ i.attempt = 1 /\ R!NextAttempt(snapshot, h) = 1
      BY <2>1, <3>1 DEF DeterministicId, R!NextAttempt
    <3>3. i \notin R!UsedAttempts(snapshot)
      BY <2>1, <2>2, <3>1, <3>2, Contract DEF Unit
    <3>4. R!CanMarkUnitGenerating(snapshot, i)
      BY <2>1, <3>1, <3>2, <3>3, SchedulerAssumption
         DEF R!CanMarkUnitGenerating, R!Active, Unit, Live, Phase
    <3> QED BY <3>1, <3>4 DEF Legal, Ignored
  <2>4. CASE pc[Main] = "det_validate"
    <3>1. u.status = "generating" /\ u.expected = i /\ e.type = "UnitValidationStarted"
      BY <2>1, <2>4 DEF Determined
    <3> QED BY <2>1, <3>1 DEF Legal, Ignored, Unit, Live, Phase, R!AcceptsAttempt,
               R!CanMarkUnitValidating, R!Expected, R!Active
  <2>5. CASE pc[Main] = "det_ready"
    <3>1. u.status = "validating" /\ u.expected = i /\ e.type = "CandidateReady"
      BY <2>1, <2>5 DEF Determined
    <3>2. i \notin R!Recorded(snapshot)
      BY <1>2, <2>1, <3>1 DEF R!AttemptOnce, Unit
    <3> QED BY <2>1, <3>1, <3>2 DEF Legal, Ignored, Unit, Live, Phase, R!AcceptsAttempt,
               R!CanRecordCandidateReady, R!Expected, R!Active
  <2> QED BY <1>5, <2>3, <2>4, <2>5
<1>6. CASE pc[Main] \in {"det_fail", "fail_run"}
  <2>1. e.type = "RunFailed"
    BY <1>6 DEF MainCall, Event
  <2> QED BY <2>1 DEF Legal, Ignored, Live, R!CanTerminate
<1>7. CASE pc[Main] \in {"cancel_det", "cancel_round", "cancel_run"}
  <2>1. e.type = "RunCancelled"
    BY <1>7 DEF MainCall, Event
  <2> QED BY <2>1 DEF Legal, Ignored, Live, R!CanTerminate
<1>8. CASE pc[Main] \in {"check", "assemble", "validate", "persist"}
  <2>1. /\ pc[Main] = "check" => /\ e.type = "GlobalCheckStarted" /\ Phase = "generating_units"
                                 /\ R!AllIn(snapshot, R!RoundEnded)
        /\ pc[Main] = "assemble" => /\ e.type = "AssemblyStarted" /\ Phase = "global_check"
                                    /\ R!AllIn(snapshot, {"candidate_ready"})
        /\ pc[Main] = "validate" => e.type = "GlobalValidationStarted" /\ Phase = "assembling"
        /\ pc[Main] = "persist" => e.type = "PendingPersistenceStarted" /\ Phase = "validating"
    BY <1>8 DEF MainCall, MainProgress, Event
  <2> QED BY <1>8, <2>1 DEF Legal, Ignored, Live, Phase, R!Active,
             R!CanBeginGlobalCheck, R!CanBeginAssembly, R!CanBeginValidation, R!CanBeginPendingPersistence
<1>9. CASE pc[Main] = "repair"
  BY <1>9 DEF MainCall, MainProgress, Repairing, Legal, Ignored
<1> QED BY <1>1, <1>3, <1>4, <1>5, <1>6, <1>7, <1>8, <1>9 DEF MainPcs, Ended

\* A live run accepts every event that is applied.
LEMMA Accepted ==
  ASSUME IInv, NEW t \in Tasks, Live, call[t] # None, ~Applied(t)
  PROVE  ~Ignored(call[t]) /\ Legal(call[t])
BY WorkerAccepted, MainAccepted DEF Tasks, IInv

------------------------------------------------------------------------------
(* A commit and the progress of the tasks *)

\* What w's event does to its unit.
LEMMA WorkerCommits ==
  ASSUME TypeOK, WorkerCalls, NEW w \in Workers, Committed(w), Live'
  PROVE  LET u == job[w].id.unit
             unit == snapshot'.units[u]
         IN /\ job[w] # None /\ u \in Units /\ OneUnit(u, unit)
            /\ pc[w] \in {"start", "validate", "invalid", "ready", "exhaust"}
            /\ pc[w] = "start" => unit.status = "generating" /\ unit.expected = job[w].id
            /\ pc[w] = "validate" => /\ unit.status = "validating"
                                     /\ unit.expected = Unit(u).expected
            /\ pc[w] = "invalid" => /\ unit.status = "pending" /\ unit.issues = "local"
            /\ pc[w] = "ready" => unit.status = "candidate_ready"
            /\ pc[w] = "exhaust" => unit.status = "round_exhausted"
<1> DEFINE e == call[w]
           j == job[w]
           u == Unit(job[w].id.unit)
<1>1. /\ pc[w] \in {"start", "validate", "invalid", "ready", "exhaust", "fail"} /\ j # None
      /\ WorkerCall(w) /\ Applies(e) /\ call[w] # None
  BY DEF TypeOK, WorkerPcs, WorkerCalls, WorkerCall, Committed
<1>2. j.id.unit \in Units /\ snapshot \in R!Run /\ u \in R!UnitState
  <2>1. job[w] \in Jobs \cup {None} /\ snapshot \in R!Run
    BY DEF TypeOK, R!TypeOK
  <2> QED BY <1>1, <2>1 DEF Jobs, R!Identity, R!Run, Unit
<1>3. pc[w] # "fail"
  <2> SUFFICES ASSUME pc[w] = "fail" PROVE FALSE
    OBVIOUS
  <2>1. e.type = "RunFailed"
    BY <1>1 DEF WorkerCall, Event
  <2> QED BY <1>1, <1>2, <2>1, PhaseEffects DEF Live
<1>4. CASE pc[w] = "start"
  <2>1. e.type = "UnitAttemptStarted" /\ e.arg = j.id
    BY <1>1, <1>4 DEF WorkerCall, Event
  <2>2. OneUnit(j.id.unit, R!Started(u, j.id))
    BY <1>1, <1>2, <2>1, UnitEffects
  <2>3. R!Started(u, j.id).status = "generating" /\ R!Started(u, j.id).expected = j.id
    BY <1>2 DEF R!Started, R!UnitState
  <2> QED BY <1>1, <1>2, <1>4, <2>2, <2>3 DEF OneUnit
<1>5. CASE pc[w] = "validate"
  <2>1. e.type = "UnitValidationStarted" /\ e.arg = j.id
    BY <1>1, <1>5 DEF WorkerCall, Event
  <2>2. OneUnit(j.id.unit, [u EXCEPT !.status = "validating"])
    BY <1>1, <1>2, <2>1, UnitEffects
  <2>3. [u EXCEPT !.status = "validating"].status = "validating"
        /\ [u EXCEPT !.status = "validating"].expected = u.expected
    BY <1>2 DEF R!UnitState
  <2> QED BY <1>1, <1>2, <1>5, <2>2, <2>3 DEF OneUnit
<1>6. CASE pc[w] = "invalid"
  <2>1. e.type = "CandidateInvalid" /\ e.arg = j.id
    BY <1>1, <1>6 DEF WorkerCall, Event
  <2>2. OneUnit(j.id.unit, R!Rejected(u))
    BY <1>1, <1>2, <2>1, UnitEffects
  <2>3. R!Rejected(u).status = "pending" /\ R!Rejected(u).issues = "local"
    BY <1>2 DEF R!Rejected, R!UnitState
  <2> QED BY <1>1, <1>2, <1>6, <2>2, <2>3 DEF OneUnit
<1>7. CASE pc[w] = "ready"
  <2>1. e.type = "CandidateReady" /\ e.arg = j.id
    BY <1>1, <1>7 DEF WorkerCall, Event
  <2>2. OneUnit(j.id.unit, R!Accepted(u, j.id))
    BY <1>1, <1>2, <2>1, UnitEffects
  <2>3. R!Accepted(u, j.id).status = "candidate_ready"
    BY <1>2 DEF R!Accepted, R!UnitState
  <2> QED BY <1>1, <1>2, <1>7, <2>2, <2>3 DEF OneUnit
<1>8. CASE pc[w] = "exhaust"
  <2>1. e.type = "RoundExhausted" /\ e.arg = j.id.unit
    BY <1>1, <1>8 DEF WorkerCall, Event
  <2>2. OneUnit(j.id.unit, [u EXCEPT !.status = "round_exhausted"])
    BY <1>1, <1>2, <2>1, UnitEffects
  <2>3. [u EXCEPT !.status = "round_exhausted"].status = "round_exhausted"
    BY <1>2 DEF R!UnitState
  <2> QED BY <1>1, <1>2, <1>8, <2>2, <2>3 DEF OneUnit
<1> QED BY <1>1, <1>3, <1>4, <1>5, <1>6, <1>7, <1>8

\* Workers and the orchestrator do not commit in the same stretch of the plan.
LEMMA WhoCommits ==
  ASSUME TypeOK, WorkerCalls, MainCall, Pool, NEW t, Committed(t)
  PROVE  /\ Live
         /\ t # Main => t \in Workers /\ pc[Main] \in {"join", "gather"} \cup Winding
         /\ t = Main => /\ pc[Main] \notin {"join", "gather", "cancel_gather"} \cup Ended
                        /\ Alive # {} => ~Live'
<1>1. t \in Tasks /\ call[t] # None /\ Applies(call[t]) /\ snapshot \in R!Run
  BY DEF Committed, TypeOK, R!TypeOK
<1>2. Live
  BY <1>1 DEF Applies, Legal, Live, EventOk, Events, AttemptEvents, UnitEvents, R!Active, R!Expected,
     R!CanBeginGeneration, R!CanMarkUnitGenerating, R!CanMarkUnitValidating, R!CanTerminate,
     R!CanRecordCandidateInvalid, R!CanRecordCandidateReady, R!CanAcceptRecoveredCandidate,
     R!CanMarkRoundExhausted, R!CanBeginGlobalCheck, R!CanBeginGlobalRepair, R!CanBeginAssembly,
     R!CanBeginValidation, R!CanBeginPendingPersistence
<1>3. ASSUME t # Main PROVE t \in Workers /\ pc[Main] \in {"join", "gather"} \cup Winding
  <2>1. t \in Workers
    BY <1>1, <1>3 DEF Tasks
  <2>2. pc[t] # "done"
    BY <1>1, <2>1 DEF WorkerCalls, WorkerCall
  <2>3. t \in Alive
    BY <2>1, <2>2 DEF Alive
  <2> QED BY <2>1, <2>3 DEF Pool
<1>4. ASSUME t = Main
      PROVE  /\ pc[Main] \notin {"join", "gather", "cancel_gather"} \cup Ended
             /\ Alive # {} => ~Live'
  <2>1. pc[Main] \notin {"join", "gather", "cancel_gather"} \cup Ended
    BY <1>1, <1>4 DEF MainCall
  <2>2. ASSUME Alive # {} PROVE ~Live'
    <3>1. pc[Main] \in {"cancel_round", "cancel_run"}
      BY <2>1, <2>2 DEF Pool, Winding, Ended
    <3>2. call[Main].type = "RunCancelled"
      BY <3>1 DEF MainCall, Event
    <3> QED BY <1>1, <1>4, <3>2, PhaseEffects DEF Live
  <2> QED BY <2>1, <2>2
<1> QED BY <1>2, <1>3, <1>4

\* A unit the commit did not touch is as current as before.
LEMMA JobStaysCurrent ==
  ASSUME NEW u, NEW unit, OneUnit(u, unit), NEW j, j.id.unit \in Units \ {u}
  PROVE  JobCurrent(j)' <=> JobCurrent(j)
BY DEF OneUnit, Remains, Live, Phase, JobCurrent, NextJob, UnitStatus, R!Active

\* A commit moves the progress of its own worker, and of nobody else.
LEMMA CommitWorkersProgress ==
  ASSUME TypeOK, WorkerCalls, MainCall, Pool, WorkersProgress, NEW t, Committed(t)
  PROVE  WorkersProgress'
<1>0. pc' = pc /\ job' = job /\ t \in Tasks
      /\ Applied(t)' /\ \A s \in Tasks \ {t} : ~Applied(s) /\ ~Applied(s)'
  BY DEF Committed, Applied, NoTx
<1> SUFFICES ASSUME Live', NEW w \in Workers, job[w] # None
             PROVE  WorkerProgress(w)'
  BY <1>0 DEF WorkersProgress
<1>1. Live /\ WorkerProgress(w) /\ w \in Alive
  <2>1. Live
    BY WhoCommits
  <2>2. pc[w] # "done"
    BY DEF WorkerCalls, WorkerCall
  <2> QED BY <2>1, <2>2 DEF WorkersProgress, Alive
<1>2. t \in Workers
  BY <1>1, WhoCommits
<1> DEFINE u == job[t].id.unit
<1>3. /\ OneUnit(u, snapshot'.units[u]) /\ job[t] # None
      /\ job[w].id.unit \in Units
  <2>1. job[w] \in Jobs \cup {None}
    BY DEF TypeOK
  <2> QED BY <1>2, <2>1, WorkerCommits DEF Jobs, R!Identity
<1>4. CASE w = t
  <2> DEFINE unit == snapshot'.units[job[w].id.unit]
  <2>1. /\ OneUnit(u, unit)
        /\ pc[w] \in {"start", "validate", "invalid", "ready", "exhaust"}
        /\ pc[w] = "start" => unit.status = "generating" /\ unit.expected = job[w].id
        /\ pc[w] = "validate" => /\ unit.status = "validating"
                                 /\ unit.expected = Unit(u).expected
        /\ pc[w] = "invalid" => /\ unit.status = "pending" /\ unit.issues = "local"
        /\ pc[w] = "ready" => unit.status = "candidate_ready"
        /\ pc[w] = "exhaust" => unit.status = "round_exhausted"
    BY <1>2, <1>4, WorkerCommits
  <2>2. Phase' = "generating_units" /\ Strategy[job[w].id.unit] = "model" /\ Applied(w)'
    BY <1>0, <1>1, <1>4, <2>1 DEF OneUnit, WorkerProgress
  <2>3. pc[w] = "validate" => unit.expected = job[w].id
    BY <1>1, <1>4, <2>1 DEF WorkerProgress
  <2> HIDE DEF u
  <2> QED BY <1>0, <2>1, <2>2, <2>3 DEF WorkerProgress, Unit
<1>5. CASE w # t
  <2>1. job[w].id.unit # u
    BY <1>2, <1>3, <1>5 DEF WorkerCalls
  <2>2. Unit(job[w].id.unit)' = Unit(job[w].id.unit) /\ Phase' = Phase
    BY <1>0, <1>3, <2>1 DEF OneUnit, Unit
  <2>3. JobCurrent(job[w])' <=> JobCurrent(job[w])
    <3>1. \A j : j.id.unit \in Units \ {u} => (JobCurrent(j)' <=> JobCurrent(j))
      BY <1>3, JobStaysCurrent
    <3> QED BY <1>0, <1>3, <2>1, <3>1 DEF JobCurrent, NextJob, UnitStatus, R!Active
  <2>4. ~Applied(w) /\ ~Applied(w)'
    BY <1>0, <1>5 DEF Tasks
  <2> QED BY <1>0, <1>1, <2>2, <2>3, <2>4 DEF WorkerProgress
<1> QED BY <1>4, <1>5

\* A commit leaves the queued jobs current: it is about a unit that is not queued.
LEMMA CommitQueue ==
  ASSUME TypeOK, WorkerCalls, MainCall, Pool, QueuedJobsCurrent, NEW t, Committed(t)
  PROVE  QueuedJobsCurrent'
<1>0. pc' = pc /\ job' = job /\ queue' = queue /\ aborting' = aborting
  BY DEF Committed, round
<1> SUFFICES ASSUME pc[Main] = "join", ~aborting, Live', NEW k \in DOMAIN queue
             PROVE  JobCurrent(queue[k])'
                    /\ \A l \in DOMAIN queue : queue[l].id.unit = queue[k].id.unit => l = k
                    /\ \A w \in Workers : job[w] # None => job[w].id.unit # queue[k].id.unit
  BY <1>0 DEF QueuedJobsCurrent, Draining, Live
<1>1. t \in Workers /\ Live
  BY WhoCommits
<1>2. /\ JobCurrent(queue[k])
      /\ \A l \in DOMAIN queue : queue[l].id.unit = queue[k].id.unit => l = k
      /\ \A w \in Workers : job[w] # None => job[w].id.unit # queue[k].id.unit
  BY <1>1 DEF QueuedJobsCurrent, Draining, Live
<1> DEFINE u == job[t].id.unit
<1>3. OneUnit(u, snapshot'.units[u]) /\ job[t] # None
  BY <1>1, WorkerCommits
<1>4. queue[k].id.unit \in Units
  <2>1. queue[k] \in Jobs \cup {None} /\ queue[k] # None
    BY DEF TypeOK, Pool
  <2> QED BY <2>1 DEF Jobs, R!Identity
<1>5. JobCurrent(queue[k])' <=> JobCurrent(queue[k])
  <2>1. \A j : j.id.unit \in Units \ {u} => (JobCurrent(j)' <=> JobCurrent(j))
    BY <1>3, JobStaysCurrent
  <2> QED BY <1>0, <1>1, <1>2, <1>3, <1>4, <2>1 DEF JobCurrent, NextJob, UnitStatus, R!Active
<1> QED BY <1>0, <1>2, <1>5

\* A commit moves the progress of the orchestrator if it is its own.
LEMMA CommitMainProgress ==
  ASSUME TypeOK, WorkerCalls, MainCall, Pool, MainProgress, NEW t, Committed(t)
  PROVE  MainProgress'
<1>0. pc' = pc /\ call' = call /\ todo' = todo /\ t \in Tasks /\ Applies(call[t]) /\ Live
      /\ snapshot \in R!Run
  BY WhoCommits DEF Committed, TypeOK, R!TypeOK
<1> SUFFICES ASSUME Live' PROVE MainProgress'
  BY DEF MainProgress
<1>1. CASE t # Main
  <2>1. t \in Workers /\ pc[Main] \in {"join", "gather"} \cup Winding
    BY <1>1, WhoCommits
  <2>2. Phase' = "generating_units"
    BY <2>1, WorkerCommits DEF OneUnit
  <2> QED BY <1>0, <2>1, <2>2 DEF MainProgress, Winding
<1>2. CASE t = Main
  <2> DEFINE e == call[Main]
             h == Head(todo)
             at == pc[Main]
  <2>0. /\ Applied(Main)' /\ ~Applied(Main) /\ Applies(e)
        /\ at \in MainPcs \ ({"join", "gather", "cancel_gather"} \cup Ended)
    BY <1>0, <1>2, WhoCommits DEF Committed, TypeOK
  <2>1. CASE at = "begin"
    <3>1. e.type = "GenerationStarted" /\ snapshot = R!NewRun
      BY <1>0, <2>0, <2>1 DEF MainCall, MainProgress, Event
    <3>2. snapshot' = R!BeginGeneration(snapshot)
      BY <1>0, <2>0, <3>1, PhaseEffects
    <3>3. snapshot' = R!BeginGeneration(R!NewRun)'
      BY <3>1, <3>2 DEF R!BeginGeneration, R!NewRun, R!NewUnit, R!Planning
    <3>4. pc'[Main] = "begin" /\ Applied(Main)'
      BY <1>0, <2>0, <2>1
    <3>5. snapshot' = IF Applied(Main)' THEN R!BeginGeneration(R!NewRun)' ELSE R!NewRun'
      BY <3>3, <3>4
    <3> QED BY <3>4, <3>5 DEF MainProgress
  <2>2. CASE at = "recover"
    <3>0. Recovering(FALSE)
      BY <1>0, <2>0, <2>2 DEF MainProgress, Applied
    <3>1. e.type = "RecoveredCandidateAccepted" /\ e.arg = h /\ todo # <<>>
      BY <2>2 DEF MainCall, Event
    <3>2. h = todo[1] /\ h \in Units /\ todo \in Seq(R!Planning) /\ 1 \in DOMAIN todo
      BY <3>1, HeadOf DEF TypeOK, R!Planning
    <3>3. OneUnit(h, R!Accepted(Unit(h), R!RecoveredId(snapshot, h)))
      BY <1>0, <2>0, <3>1, UnitEffects
    <3>4. Unit(h)'.status = "candidate_ready" /\ \A v \in Units \ {h} : Unit(v)' = Unit(v)
      <4>1. Unit(h) \in R!UnitState
        BY <1>0, <3>2 DEF R!Run, Unit
      <4>2. Unit(h)' = R!Accepted(Unit(h), R!RecoveredId(snapshot, h))
        BY <1>0, <3>2, <3>3 DEF OneUnit, Unit
      <4>3. R!Accepted(Unit(h), R!RecoveredId(snapshot, h)).status = "candidate_ready"
        BY <4>1 DEF R!Accepted, R!UnitState
      <4> QED BY <1>0, <3>3, <4>2, <4>3 DEF OneUnit, Unit
    <3>5. \A u \in R!Planning : Between(u)'
      BY <1>0, <3>0, <3>4 DEF Recovering, Between, R!RoundEnded, R!Planning
    <3>6. \A k \in DOMAIN todo : k # 1 => Untouched(todo[k])'
      <4> SUFFICES ASSUME NEW k \in DOMAIN todo, k # 1 PROVE Untouched(todo[k])'
        OBVIOUS
      <4>1. Untouched(todo[k]) /\ todo[k] \in Units \ {h}
        BY <3>0, <3>2 DEF Recovering, R!Planning
      <4>2. Unit(todo[k])' = Unit(todo[k])
        BY <1>0, <3>4, <4>1 DEF Unit
      <4> QED BY <1>0, <4>1, <4>2 DEF Untouched
    <3>7. Recovering(TRUE)'
      BY <1>0, <3>0, <3>3, <3>5, <3>6 DEF Recovering, OneUnit
    <3> QED BY <1>0, <2>0, <2>2, <3>7 DEF MainProgress, Recovering
  <2>3. CASE at \in {"det_start", "det_validate", "det_ready"}
    <3> DEFINE unit == Unit(h)
    <3>1. /\ Determined(FALSE) /\ e.arg.unit = h /\ todo # <<>>
          /\ at = "det_start" => e.type = "UnitAttemptStarted"
          /\ at = "det_validate" => e.type = "UnitValidationStarted"
          /\ at = "det_ready" => e.type = "CandidateReady"
      BY <1>0, <2>0, <2>3 DEF MainCall, MainProgress, Applied
    <3>2. h \in R!Planning /\ h \in Units
      BY <3>1, HeadOf DEF TypeOK, R!Planning
    <3>3. unit \in R!UnitState
      BY <1>0, <3>2 DEF R!Run, Unit
    <3>4. /\ OneUnit(h, Unit(h)')
          /\ at = "det_start" => Unit(h)'.status = "generating" /\ Unit(h)'.expected = e.arg
          /\ at = "det_validate" => Unit(h)'.status = "validating" /\ Unit(h)'.expected = unit.expected
          /\ at = "det_ready" => Unit(h)'.status = "candidate_ready"
      <4>1. CASE at = "det_start"
        <5>1. OneUnit(h, R!Started(unit, e.arg))
          BY <1>0, <2>0, <3>1, <4>1, UnitEffects
        <5>2. R!Started(unit, e.arg).status = "generating" /\ R!Started(unit, e.arg).expected = e.arg
          BY <3>3 DEF R!Started, R!UnitState
        <5> QED BY <1>0, <4>1, <5>1, <5>2 DEF OneUnit, Unit
      <4>2. CASE at = "det_validate"
        <5>1. OneUnit(h, [unit EXCEPT !.status = "validating"])
          BY <1>0, <2>0, <3>1, <4>2, UnitEffects
        <5>2. [unit EXCEPT !.status = "validating"].status = "validating"
              /\ [unit EXCEPT !.status = "validating"].expected = unit.expected
          BY <3>3 DEF R!UnitState
        <5> QED BY <1>0, <4>2, <5>1, <5>2 DEF OneUnit, Unit
      <4>3. CASE at = "det_ready"
        <5>1. OneUnit(h, R!Accepted(unit, e.arg))
          BY <1>0, <2>0, <3>1, <4>3, UnitEffects
        <5>2. R!Accepted(unit, e.arg).status = "candidate_ready"
          BY <3>3 DEF R!Accepted, R!UnitState
        <5> QED BY <1>0, <4>3, <5>1, <5>2 DEF OneUnit, Unit
      <4> QED BY <2>3, <4>1, <4>2, <4>3
    <3>5. Listed'
      <4>1. \A u \in R!Planning \ {h} : Unit(u)' = Unit(u)
        BY <1>0, <3>4 DEF OneUnit, Unit, R!Planning
      <4>2. Phase' = "generating_units"
        BY <3>4 DEF OneUnit
      <4> QED BY <1>0, <3>1, <4>1, <4>2 DEF Listed, Determined, Between
    <3>6. Determined(TRUE)'
      BY <1>0, <3>1, <3>4, <3>5 DEF Determined
    <3> QED BY <1>0, <2>0, <2>3, <3>6 DEF MainProgress, Determined
  <2>4. CASE at \in {"det_fail", "fail_run"}
    <3>1. e.type = "RunFailed"
      BY <2>4 DEF MainCall, Event
    <3> QED BY <1>0, <2>0, <3>1, PhaseEffects DEF Live
  <2>5. CASE at \in {"cancel_det", "cancel_round", "cancel_run"}
    <3>1. e.type = "RunCancelled"
      BY <2>5 DEF MainCall, Event
    <3> QED BY <1>0, <2>0, <3>1, PhaseEffects DEF Live
  <2>6. CASE at \in {"check", "assemble", "validate", "persist"}
    <3>1. /\ at = "check" => e.type = "GlobalCheckStarted" /\ R!AllIn(snapshot, R!RoundEnded)
          /\ at = "assemble" => e.type = "AssemblyStarted" /\ R!AllIn(snapshot, {"candidate_ready"})
          /\ at = "validate" => e.type = "GlobalValidationStarted"
          /\ at = "persist" => e.type = "PendingPersistenceStarted"
      BY <1>0, <2>6 DEF MainCall, MainProgress, Event
    <3>2. /\ snapshot'.units = snapshot.units
          /\ at = "check" => Phase' = "global_check"
          /\ at = "assemble" => Phase' = "assembling"
          /\ at = "validate" => Phase' = "validating"
          /\ at = "persist" => Phase' = "persisting_pending"
      BY <1>0, <2>0, <2>6, <3>1, PhaseEffects DEF Phased
    <3>3. \A S : R!AllIn(snapshot, S) => R!AllIn(snapshot, S)'
      BY <3>2 DEF R!AllIn
    <3> QED BY <1>0, <2>0, <2>6, <3>1, <3>2, <3>3 DEF MainProgress, R!AllIn
  <2>7. CASE at = "repair"
    <3>1. e.type = "GlobalRepairStarted" /\ R!AllIn(snapshot, R!RoundEnded)
      BY <1>0, <2>0, <2>7 DEF MainCall, MainProgress, Repairing, Applied
    <3>2. /\ Phase' = "generating_units"
          /\ \A u \in Units :
               Unit(u)' = IF u \in e.arg THEN R!Reopened(Unit(u)) ELSE Unit(u)
      BY <1>0, <2>0, <3>1, PhaseEffects DEF Unit
    <3>3. ASSUME NEW u \in R!Planning PROVE Between(u)'
      <4>1. u \in Units /\ Unit(u) \in R!UnitState
        BY <1>0 DEF R!Planning, R!Run, Unit
      <4>2. R!Reopened(Unit(u)).status = "pending" /\ R!Reopened(Unit(u)).attempt = 0
        BY <4>1 DEF R!Reopened, R!UnitState
      <4>3. Unit(u).status \in R!RoundEnded
        BY <3>1 DEF R!AllIn, Unit
      <4>4. Unit(u)'.status \in R!RoundEnded \/ (Unit(u)'.status = "pending" /\ Unit(u)'.attempt = 0)
        BY <3>2, <4>1, <4>2, <4>3
      <4> QED BY <1>0, <4>4 DEF Between
    <3>4. Repairing(TRUE)'
      BY <1>0, <3>2, <3>3 DEF Repairing
    <3> QED BY <1>0, <2>0, <2>7, <3>4 DEF MainProgress, Repairing
  <2> QED BY <2>0, <2>1, <2>2, <2>3, <2>4, <2>5, <2>6, <2>7 DEF MainPcs, Ended
<1> QED BY <1>1, <1>2

\* The parts of TypeOK about the tasks of the round.
Scheduling ==
  /\ pc \in [Tasks -> MainPcs \cup WorkerPcs]
  /\ pc[Main] \in MainPcs /\ \A w \in Workers : pc[w] \in WorkerPcs
  /\ job \in [Workers -> Jobs \cup {None}]
  /\ queue \in Seq(Jobs \cup {None}) /\ unfinished \in Nat
  /\ cancelled \subseteq Tasks
  /\ aborting \in BOOLEAN /\ fatal \in BOOLEAN /\ failures \in BOOLEAN
  /\ todo \in Seq(R!Planning)
  /\ faults \in 0..MaxFaults /\ cancels \in 0..MaxCancels

\* TypeOK is about the controller, and about the rest.
LEMMA Types == TypeOK <=> Controller /\ Scheduling
BY DEF TypeOK, Controller, Scheduling

\* A commit loses no unit of the round.
LEMMA CommitFaultless ==
  ASSUME TypeOK, WorkerCalls, MainCall, Pool, Faultless, NEW t, Committed(t)
  PROVE  Faultless'
<1>0. /\ UNCHANGED <<call, cancelled, pc, job, queue, aborting, fatal, failures, faults>>
      /\ t \in Tasks /\ Applies(call[t]) /\ snapshot \in R!Run /\ Applied(t)'
      /\ \A s \in Tasks \ {t} : ~Applied(s)
  BY DEF Committed, TypeOK, R!TypeOK, round, NoTx, Applied
<1>1. /\ Live
      /\ t # Main => t \in Workers /\ pc[Main] \in {"join", "gather"} \cup Winding
      /\ t = Main => pc[Main] \notin {"join", "gather", "cancel_gather"} \cup Ended
  BY WhoCommits
<1> SUFFICES ASSUME faults = 0 PROVE Faultless'
  BY <1>0 DEF Faultless
<1>2. ~Live' => call[t].type \in {"RunFailed", "RunCancelled"}
  <2>1. call[t].type \in Events
    BY <1>0 DEF Applies, EventOk
  <2>2. call[t].type \in AttemptEvents \cup UnitEvents => Live'
    BY <1>0, UnitEffects DEF OneUnit, Remains, AttemptEvents, UnitEvents
  <2>3. call[t].type \in Events \ (AttemptEvents \cup UnitEvents \cup {"RunFailed", "RunCancelled"})
          => Live'
    BY <1>0, PhaseEffects DEF Events, Phased, Remains
  <2> QED BY <2>1, <2>2, <2>3
<1>3. ASSUME pc[Main] \in Leading
      PROVE  Live' \/ (pc[Main] \in {"det_fail", "fail_run"} /\ Applied(Main)')
  <2>1. t = Main
    BY <1>1, <1>3 DEF Leading, Winding
  <2>2. ASSUME ~Live' PROVE pc[Main] \in {"det_fail", "fail_run"}
    <3>1. call[Main].type \in {"RunFailed", "RunCancelled"}
      BY <1>2, <2>1, <2>2
    <3> QED BY <1>3, <3>1 DEF Leading, MainCall, Event
  <2> QED BY <1>0, <2>1, <2>2
<1>4. ASSUME pc[Main] \in {"join", "gather"}, ~fatal
      PROVE  /\ Live' \/ \E w \in Workers : pc[w] = "fail" /\ Applied(w)'
             /\ Live' => \A u \in R!Planning : Unit(u)'.status \in R!RoundEnded \/ Held(u)
  <2>1. t \in Workers
    BY <1>1, <1>4
  <2>2. ASSUME ~Live' PROVE pc[t] = "fail"
    <3>1. call[t].type \in {"RunFailed", "RunCancelled"} /\ call[t] # None
      BY <1>2, <2>1, <2>2 DEF Committed
    <3>2. WorkerCall(t) /\ pc[t] \in WorkerPcs
      BY <2>1 DEF WorkerCalls, TypeOK
    <3> QED BY <3>1, <3>2 DEF WorkerCall, WorkerPcs, Event
  <2>3. ASSUME Live', NEW u \in R!Planning
        PROVE  Unit(u)'.status \in R!RoundEnded \/ Held(u)
    <3>1. Unit(u).status \in R!RoundEnded \/ Held(u)
      BY <1>1, <1>4, <2>3 DEF Faultless
    <3>2. OneUnit(job[t].id.unit, snapshot'.units[job[t].id.unit]) /\ job[t] # None
      BY <2>1, <2>3, WorkerCommits
    <3>3. CASE u = job[t].id.unit
      BY <2>1, <3>2, <3>3 DEF Held
    <3>4. CASE u # job[t].id.unit
      <4>1. Unit(u)' = Unit(u)
        BY <3>2, <3>4 DEF OneUnit, Unit, R!Planning
      <4> QED BY <3>1, <4>1
    <3> QED BY <3>3, <3>4
  <2> QED BY <1>0, <2>1, <2>2, <2>3
<1>5. \A u : Held(u)' <=> Held(u)
  BY <1>0 DEF Held
<1>6. (R!RoundEnded)' = R!RoundEnded /\ (R!Planning)' = R!Planning
  BY DEF R!RoundEnded, R!Planning
<1>7. ASSUME pc[Main] \in {"join", "gather"}, ~fatal
      PROVE  Live' => \A u \in R!Planning : Unit(u)'.status \in R!RoundEnded \/ Held(u)'
  BY <1>4, <1>5, <1>7
<1> QED BY <1>0, <1>3, <1>4, <1>7, <1>6 DEF Faultless

\* A commit brings the cancellation no further.
LEMMA CommitRecording ==
  ASSUME TypeOK, WorkerCalls, MainCall, Pool, Recording, NEW t, Committed(t)
  PROVE  Recording'
<1>0. /\ UNCHANGED <<call, cancelled, pc, cancels>>
      /\ t \in Tasks /\ snapshot \in R!Run /\ Applied(t)'
      /\ Main # t => tx'[Main] = tx[Main]
  BY DEF Committed, TypeOK, R!TypeOK, Tasks
<1>1. /\ Live
      /\ t # Main => t \in Workers
      /\ t = Main => pc[Main] \notin {"join", "gather", "cancel_gather"} \cup Ended
  BY WhoCommits
<1> SUFFICES ASSUME MaxCancels <= 2 PROVE Recording'
  BY DEF Recording
<1>2. CancelBeforeLastAwaitIsRecorded'
  <2> SUFFICES ASSUME pc[Main] = "cancelled", Live' PROVE snapshot'.phase = "persisting_pending"
    BY <1>0 DEF CancelBeforeLastAwaitIsRecorded, Live
  <2>1. t \in Workers
    BY <1>1 DEF Ended
  <2>2. snapshot.phase = "generating_units"
    BY <2>1, WorkerCommits DEF OneUnit, Phase
  <2> QED BY <1>1, <2>2 DEF Recording, CancelBeforeLastAwaitIsRecorded, Live
<1>3. (Main \in cancelled /\ call[Main] # None /\ pc[Main] # "cancel_round" /\ Live')
        => tx'[Main].stage # "none"
  BY <1>0, <1>1 DEF Recording, Applied
<1>4. Alive' = Alive
  BY <1>0 DEF Alive
<1> QED BY <1>0, <1>1, <1>2, <1>3, <1>4 DEF Recording

\* A commit keeps the invariant.
LEMMA CommitWritesStep ==
  ASSUME IInv, NEW t \in Tasks, CommitWrites(t)
  PROVE  IInv'
<1> USE DEF IInv
<1>1. Committed(t)
  BY CommitApplies
<1>2. /\ UNCHANGED <<lockQ, call, faults, cancelled, pc, job, todo, cancels>>
      /\ UNCHANGED <<queue, unfinished, aborting, fatal, failures>>
  BY <1>1 DEF Committed, round
<1>3. TypeOK'
  <2>1. Scheduling'
    BY <1>2 DEF TypeOK, Scheduling
  <2>2. Controller'
    BY <1>1, CommitLocking
  <2> QED BY <2>1, <2>2, Types DEF TypeOK, Controller, Scheduling
<1>4. Snapshots'
  BY <1>1, AppliesIsNext, SnapshotsStep DEF Committed
<1>5. Locking'
  BY <1>1, CommitLocking
<1>6. WorkerCalls' /\ MainCall' /\ JoinCounter'
  BY <1>2 DEF WorkerCalls, WorkerCall, MainCall, JoinCounter
<1>7. Live /\ (Live' \/ TRUE)
  BY <1>1, WhoCommits
<1>8. Pool'
  <2>1. ~fatal /\ pc[Main] # "cancel_gather"
    BY <1>7 DEF Pool, Live
  <2>2. Alive' = Alive
    BY <1>2 DEF Alive
  <2> QED BY <1>2, <2>1, <2>2 DEF Pool
<1>9. Ends'
  <2>1. pc[Main] \notin {"returned", "run_failed"}
    BY <1>1, WhoCommits DEF Winding, Ended
  <2> QED BY <1>2, <2>1 DEF Ends
<1>10. Orphans'
  BY <1>2 DEF Orphans, Alive
<1> QED BY <1>1, <1>3, <1>4, <1>5, <1>6, <1>8, <1>9, <1>10, CommitQueue, CommitWorkersProgress,
           CommitMainProgress, CommitFaultless, CommitRecording

------------------------------------------------------------------------------
(* Steps that commit and return nothing *)

\* Nothing is applied or withdrawn, no task moves.
Rests ==
  /\ UNCHANGED <<snapshot, lockQ, call, faults, pc, job, todo>>
  /\ UNCHANGED <<aborting, fatal, failures>>
  /\ \A t \in Tasks : Applied(t)' <=> Applied(t)

\* A step that moves no task and applies nothing keeps these parts.
LEMMA RestStep ==
  ASSUME IInv, Rests, UNCHANGED <<queue, unfinished>>
  PROVE  /\ Snapshots' /\ WorkerCalls' /\ MainCall' /\ Pool' /\ QueuedJobsCurrent'
         /\ WorkersProgress' /\ MainProgress' /\ JoinCounter' /\ Ends' /\ Orphans'
<1> USE DEF IInv
<1>1. UNCHANGED <<snapshot, lockQ, call, faults, pc, job, todo, queue, unfinished>>
      /\ UNCHANGED <<aborting, fatal, failures>>
      /\ \A t \in Tasks : Applied(t)' <=> Applied(t)
  BY DEF Rests
<1>2. Snapshots'
  BY <1>1, SnapshotsStep
<1>3. WorkerCalls' /\ MainCall' /\ JoinCounter' /\ Orphans' /\ Pool'
  BY <1>1 DEF WorkerCalls, WorkerCall, MainCall, JoinCounter, Orphans, Pool, Alive, Live
<1>4. \A j : JobCurrent(j)' <=> JobCurrent(j)
  BY <1>1 DEF JobCurrent, NextJob, UnitStatus, R!Active
<1>5. QueuedJobsCurrent'
  BY <1>1, <1>4 DEF QueuedJobsCurrent, Draining
<1>6. WorkersProgress'
  <2> SUFFICES ASSUME Live', NEW w \in Workers, job[w] # None PROVE WorkerProgress(w)'
    BY <1>1 DEF WorkersProgress
  <2>1. WorkerProgress(w) /\ (Applied(w)' <=> Applied(w))
    BY <1>1 DEF WorkersProgress, Live, Tasks
  <2>2. JobCurrent(job[w])' <=> JobCurrent(job[w])
    BY <1>1 DEF JobCurrent, NextJob, UnitStatus, R!Active
  <2> QED BY <1>1, <2>1, <2>2 DEF WorkerProgress, Unit, Phase
<1>7. MainProgress'
  <2>1. Applied(Main)' <=> Applied(Main)
    BY <1>1 DEF Tasks
  <2> QED BY <1>1, <2>1 DEF MainProgress, Live, Phase, Recovering, Determined, Listed, Repairing,
             Between, Untouched, Unit, R!AllIn, R!CanBeginGlobalRepair, R!Active, DeterministicId,
             R!BeginGeneration, R!NewRun, R!NewUnit
<1>8. Ends'
  BY <1>1 DEF Ends, R!Active
<1> QED BY <1>2, <1>3, <1>5, <1>6, <1>7, <1>8

\* What a step that leaves the snapshot and the queue alone keeps of Faultless.
LEMMA RestFaultless ==
  ASSUME IInv, Rests, UNCHANGED queue,
         faults = 0 /\ pc[Main] \in {"join", "gather"} /\ ~fatal
           => \A w \in cancelled' \cap Workers : pc[w] \in {"get", "done"}
  PROVE  Faultless'
<1>1. UNCHANGED <<snapshot, faults, pc, job, queue>>
      /\ UNCHANGED <<aborting, fatal, failures>>
      /\ \A t \in Tasks : Applied(t)' <=> Applied(t)
  BY DEF Rests
<1>2. /\ Applied(Main)' <=> Applied(Main)
      /\ \A w \in Workers : Applied(w)' <=> Applied(w)
  BY <1>1 DEF Tasks
<1>3. \A u : Held(u)' <=> Held(u)
  BY <1>1 DEF Held
<1>4. Faultless
  BY DEF IInv
<1> QED BY <1>1, <1>2, <1>3, <1>4 DEF Faultless, Live, Unit, R!RoundEnded, R!Planning

\* The types and the lock, when the controller does not move.
LEMMA RestTypes ==
  ASSUME TypeOK, Locking, UNCHANGED <<snapshot, lockQ, call, tx>>
  PROVE  Controller' /\ Locking'
<1>1. Controller'
  BY DEF Controller, TypeOK, R!TypeOK, HoldsLock, EventOk
<1>2. Locking'
  BY DEF Locking, Legal, Proposed, Applied
<1> QED BY <1>1, <1>2

\* The evaluation of an event under the lock keeps the invariant.
LEMMA BeginCommitStep ==
  ASSUME IInv, NEW t \in Tasks, BeginCommit(t)
  PROVE  IInv'
<1> USE DEF IInv
<1>1. /\ HoldsLock(t) /\ tx[t].stage = "none" /\ Legal(call[t]) /\ DOMAIN tx = Tasks
      /\ tx' = [tx EXCEPT ![t] = [stage |-> "write", run |-> Proposed(call[t])]]
      /\ UNCHANGED <<snapshot, lockQ, call, faults, cancelled, pc, job, todo, cancels>>
      /\ UNCHANGED <<queue, unfinished, aborting, fatal, failures>>
  BY DEF BeginCommit, Committing, round, TypeOK
<1>2. Rests
  BY <1>1 DEF Rests, Applied
<1>3. ASSUME NEW s \in Tasks
      PROVE  /\ tx'[s] = [stage |-> tx'[s].stage, run |-> tx'[s].run]
             /\ tx'[s].stage \in {"none", "write", "publish"}
             /\ tx'[s].stage # "write" => tx'[s].run = None
             /\ tx'[s].stage # "none" => HoldsLock(s)'
             /\ tx'[s].stage = "write" => Legal(call[s]) /\ tx'[s].run = Proposed(call[s])
  <2>1. CASE s = t
    BY <1>1, <2>1 DEF HoldsLock
  <2>2. CASE s # t
    BY <1>1, <2>2 DEF HoldsLock, TypeOK, Locking
  <2> QED BY <2>1, <2>2
<1>4. Controller' /\ Scheduling'
  BY <1>1, <1>3 DEF Controller, Scheduling, TypeOK, R!TypeOK, EventOk
<1>5. \A s \in Tasks : (Legal(call[s])' <=> Legal(call[s])) /\ Proposed(call[s])' = Proposed(call[s])
  BY <1>1 DEF Legal, Proposed
<1>6. Locking'
  BY <1>1, <1>2, <1>3, <1>5 DEF Locking, Rests
<1>7. Recording'
  BY <1>1, <1>3 DEF Recording, Alive, Live, CancelBeforeLastAwaitIsRecorded, Tasks
<1>8. Faultless'
  BY <1>1, <1>2, RestFaultless DEF Faultless
<1>9. TypeOK'
  BY <1>4 DEF TypeOK, Controller, Scheduling
<1> QED BY <1>1, <1>2, <1>6, <1>7, <1>8, <1>9, RestStep

\* A call of cancel() on the orchestrator keeps the invariant.
LEMMA CancelMainStep ==
  ASSUME IInv, CancelMain
  PROVE  IInv'
<1> USE DEF IInv
<1>1. /\ cancels < MaxCancels /\ cancels' = cancels + 1 /\ ~Committing(Main, "none")
      /\ pc[Main] \notin Ended /\ Main \notin cancelled
      /\ cancelled' = cancelled \cup {Main}
           \cup (IF pc[Main] \in {"gather", "cancel_gather"} THEN Alive ELSE {})
      /\ UNCHANGED <<snapshot, lockQ, call, tx, faults, pc, job, todo>>
      /\ UNCHANGED <<queue, unfinished, aborting, fatal, failures>>
  BY DEF CancelMain, ctrl, round
<1>2. Rests
  BY <1>1 DEF Rests, Applied
<1>3. cancels \in Nat /\ cancels' \in 0..MaxCancels /\ cancels' >= 1
  BY <1>1, SchedulerAssumption DEF TypeOK
<1>4. Scheduling' /\ Controller' /\ Locking'
  <2>1. cancelled' \subseteq Tasks
    BY <1>1 DEF TypeOK, Tasks, Alive
  <2> QED BY <1>1, <1>3, <2>1, RestTypes DEF Scheduling, TypeOK
<1>5. TypeOK'
  BY <1>4 DEF TypeOK, Controller, Scheduling
<1>6. Faultless'
  <2>1. ASSUME faults = 0, pc[Main] \in {"join", "gather"}, ~fatal, NEW w \in cancelled' \cap Workers
        PROVE  pc[w] \in {"get", "done"}
    <3>1. CASE w \in cancelled
      BY <2>1, <3>1 DEF Faultless
    <3>2. CASE w \notin cancelled
      <4>1. pc[Main] = "gather"
        BY <1>1, <2>1, <3>2, SchedulerAssumption
      <4> QED BY <2>1, <4>1 DEF Pool
    <3> QED BY <3>1, <3>2
  <2> QED BY <1>1, <1>2, <2>1, RestFaultless
<1>7. Recording'
  <2> SUFFICES ASSUME MaxCancels <= 2 PROVE Recording'
    BY DEF Recording
  <2>1. CancelBeforeLastAwaitIsRecorded'
    BY <1>1 DEF Recording, CancelBeforeLastAwaitIsRecorded
  <2>2. pc[Main] \in Cancelling => cancels' >= 2
    BY <1>1, <1>3 DEF Recording
  <2>3. ASSUME pc[Main] = "cancel_run", Alive # {}, Live PROVE FALSE
    <3>1. cancels >= 2
      BY <2>3 DEF Recording
    <3> QED BY <1>1, <1>3, <3>1, SchedulerAssumption
  <2>4. ASSUME call[Main] # None, pc[Main] # "cancel_round", Live, tx[Main].stage = "none"
        PROVE  FALSE
    <3>1. Alive = {}
      <4>1. pc[Main] \notin {"join", "gather", "cancel_gather"}
        BY <2>4 DEF MainCall
      <4>2. pc[Main] # "cancel_run" \/ Alive = {}
        BY <2>3, <2>4
      <4> QED BY <1>1, <2>4, <4>1, <4>2 DEF Pool, Winding, Ended
    <3>2. \A w \in Workers : call[w] = None
      BY <3>1 DEF Alive, WorkerCalls, WorkerCall
    <3>3. lockQ \in Seq(Tasks) /\ {lockQ[k] : k \in DOMAIN lockQ} = {s \in Tasks : call[s] # None}
      BY DEF TypeOK
    <3>4. Main \in {lockQ[k] : k \in DOMAIN lockQ}
      BY <2>4, <3>3 DEF Tasks
    <3>5. lockQ # <<>>
      BY <3>3, <3>4
    <3>6. Head(lockQ) \in {lockQ[k] : k \in DOMAIN lockQ}
      BY <3>3, <3>5, HeadOf
    <3>7. Head(lockQ) = Main
      BY <3>2, <3>3, <3>6 DEF Tasks
    <3> QED BY <1>1, <2>4, <3>5, <3>7 DEF Committing, HoldsLock
  <2>5. Alive' = Alive /\ (Live' <=> Live)
    BY <1>1 DEF Alive, Live
  <2> QED BY <1>1, <1>3, <2>1, <2>2, <2>3, <2>4, <2>5 DEF Recording
<1> QED BY <1>1, <1>2, <1>4, <1>5, <1>6, <1>7, RestStep

------------------------------------------------------------------------------
(* The end of the join *)

\* The workers that hold a job.
Busy == {w \in Workers : pc[w] \notin {"get", "done"}}

\* There are finitely many workers.
LEMMA Workforce ==
  /\ IsFiniteSet(Workers)
  /\ \A S \in SUBSET Workers :
       /\ IsFiniteSet(S) /\ Cardinality(S) \in Nat
       /\ Cardinality(S) = 0 <=> S = {}
<1>1. IsFiniteSet(Workers)
  BY FS_Interval, SchedulerAssumption DEF Workers
<1>2. ASSUME NEW S \in SUBSET Workers
      PROVE  /\ IsFiniteSet(S) /\ Cardinality(S) \in Nat
             /\ Cardinality(S) = 0 <=> S = {}
  <2>1. IsFiniteSet(S)
    BY <1>1, FS_Subset
  <2> QED BY <2>1, FS_CardinalityType, FS_EmptySet
<1> QED BY <1>1, <1>2

\* At the end of the join nothing is queued and nobody is busy.
LEMMA MainJoinedStep ==
  ASSUME IInv, MainJoined
  PROVE  IInv'
<1> USE DEF IInv
<1>1. /\ pc[Main] = "join" /\ Main \notin cancelled /\ unfinished = 0
      /\ pc' = [pc EXCEPT ![Main] = "gather"]
      /\ fatal => queue' = queue /\ unfinished' = unfinished
      /\ ~fatal => /\ queue' = queue \o [k \in 1..Cardinality(Alive) |-> None]
                   /\ unfinished' = unfinished + Cardinality(Alive)
      /\ UNCHANGED <<snapshot, lockQ, call, tx, faults, cancelled, job, todo, cancels>>
      /\ UNCHANGED <<aborting, fatal, failures>>
  BY DEF MainJoined, Joined, ctrl
<1>2. /\ pc'[Main] = "gather" /\ \A w \in Workers : pc'[w] = pc[w]
      /\ pc' \in [Tasks -> MainPcs \cup WorkerPcs]
  BY <1>1, SchedulerAssumption DEF TypeOK, Tasks, MainPcs
<1>3. Busy = {} /\ queue = <<>>
  <2>1. queue \in Seq(Jobs \cup {None}) /\ Len(queue) \in Nat
    BY DEF TypeOK
  <2>2. Cardinality(Busy) = 0 /\ Len(queue) = 0
    <3>1. Cardinality(Busy) \in Nat
      BY Workforce DEF Busy
    <3>2. 0 = Len(queue) + Cardinality(Busy)
      BY <1>1 DEF JoinCounter, Busy
    <3> QED BY <2>1, <3>1, <3>2
  <2>3. Busy = {}
    BY <2>2, Workforce DEF Busy
  <2> QED BY <2>1, <2>2, <2>3
<1>4. /\ queue' \in Seq(Jobs \cup {None}) /\ \A k \in DOMAIN queue' : queue'[k] = None
      /\ unfinished' = Len(queue') /\ unfinished' \in Nat
  <2>1. CASE fatal
    BY <1>1, <1>3, <2>1
  <2>2. CASE ~fatal
    <3> DEFINE n == Cardinality(Alive)
    <3>1. n \in Nat
      BY Workforce DEF Alive
    <3> HIDE DEF n
    <3>2. queue' = [k \in 1..n |-> None]
      BY <1>1, <1>3, <2>2, <3>1 DEF n
    <3>3. queue' \in Seq(Jobs \cup {None}) /\ Len(queue') = n /\ \A k \in DOMAIN queue' : queue'[k] = None
      BY <3>1, <3>2
    <3> QED BY <1>1, <2>2, <3>1, <3>3 DEF n
  <2> QED BY <2>1, <2>2
<1>5. Scheduling'
  BY <1>1, <1>2, <1>4 DEF Scheduling, TypeOK, MainPcs
<1>6. Controller' /\ Locking'
  BY <1>1, RestTypes
<1>7. TypeOK'
  BY <1>5, <1>6 DEF TypeOK, Controller, Scheduling
<1>8. Snapshots'
  BY <1>1, SnapshotsStep
<1>9. WorkerCalls' /\ MainCall'
  <2>1. MainCall'
    BY <1>1, <1>2 DEF MainCall, Ended
  <2>2. WorkerCalls'
    BY <1>1, <1>2 DEF WorkerCalls, WorkerCall
  <2> QED BY <2>1, <2>2
<1>10. Alive' = Alive /\ Busy' = Busy
  BY <1>2 DEF Alive, Busy
<1>11. Pool'
  BY <1>1, <1>2, <1>3, <1>4, <1>10 DEF Pool, Winding, Busy
<1>12. QueuedJobsCurrent' /\ Ends' /\ Orphans'
  BY <1>2 DEF QueuedJobsCurrent, Ends, Orphans, Ended
<1>13. JoinCounter'
  <2>1. Cardinality(Busy') = 0
    BY <1>3, <1>10, Workforce
  <2>2. unfinished' = Len(queue') + Cardinality(Busy')
    BY <1>4, <2>1
  <2> QED BY <2>2 DEF JoinCounter, Busy
<1>14. WorkersProgress'
  <2> SUFFICES ASSUME Live', NEW w \in Workers, job[w] # None PROVE WorkerProgress(w)'
    BY <1>1 DEF WorkersProgress
  <2>1. w \in Busy
    BY DEF WorkerCalls, WorkerCall, Busy
  <2> QED BY <1>3, <2>1
<1>15. MainProgress'
  BY <1>1, <1>2 DEF MainProgress, Live, Phase
<1>16. Faultless'
  <2>1. \A u \in R!Planning : Held(u) => Held(u)'
    <3>1. \A u : Held(u) => \E w \in Workers : job[w] # None /\ job[w].id.unit = u
      BY <1>3 DEF Held
    <3> QED BY <1>1, <3>1 DEF Held
  <2>2. \A w \in Workers : Applied(w)' <=> Applied(w)
    BY <1>1 DEF Applied
  <2> QED BY <1>1, <1>2, <2>1, <2>2 DEF Faultless, Leading, Live, Unit, R!Planning, R!RoundEnded
<1>17. Recording'
  BY <1>1, <1>2 DEF Recording, CancelBeforeLastAwaitIsRecorded, Cancelling
<1> QED BY <1>6, <1>7, <1>8, <1>9, <1>11, <1>12, <1>13, <1>14, <1>15, <1>16, <1>17

------------------------------------------------------------------------------
(* How apply returns *)

\* What is known of a task when its apply returns.
LEMMA Returned ==
  ASSUME IInv, NEW t \in Tasks, NEW r, Returns(t, r)
  PROVE  /\ UNCHANGED snapshot /\ call[t] # None
         /\ DOMAIN tx' = Tasks /\ tx'[t] = NoTx /\ \A s \in Tasks \ {t} : tx'[s] = tx[s]
         /\ faults' \in 0..MaxFaults /\ (faults' = 0 => faults = 0)
         /\ r = "ok" => /\ t \notin cancelled /\ faults' = faults
                        /\ Applied(t) \/ (Ignored(call[t]) /\ ~Live)
         /\ r = "illegal" => ~Live /\ ~Applied(t) /\ ~Ignored(call[t]) /\ faults' = faults
         /\ r = "cancelled" => /\ t \in cancelled /\ faults' = faults
                               /\ Applied(t) \/ tx[t].stage = "none"
         /\ r \in {"persistence", "projection"} => faults' # 0 /\ MaxFaults # 0
<1> USE DEF IInv
<1>1. UNCHANGED snapshot
  BY DEF Returns
<1>2. \A stage : Committing(t, stage) => call[t] # None /\ tx[t].stage = stage
  <2>1. lockQ \in Seq(Tasks) /\ {lockQ[k] : k \in DOMAIN lockQ} = {s \in Tasks : call[s] # None}
    BY DEF TypeOK
  <2>2. ASSUME HoldsLock(t) PROVE call[t] # None
    <3>1. lockQ # <<>> /\ Head(lockQ) = t
      BY <2>2 DEF HoldsLock
    <3>2. lockQ[1] = t /\ 1 \in DOMAIN lockQ
      BY <2>1, <3>1, HeadOf
    <3> QED BY <2>1, <3>2
  <2> QED BY <2>2 DEF Committing
<1>3. DOMAIN tx = Tasks /\ (tx[t].stage = "none" => tx[t] = NoTx) /\ faults \in 0..MaxFaults
  BY DEF TypeOK, NoTx
<1>4. CASE /\ Committing(t, "none") /\ t \notin cancelled
           /\ \/ Ignored(call[t]) /\ r = "ok"
              \/ ~Ignored(call[t]) /\ ~Legal(call[t]) /\ r = "illegal"
           /\ UNCHANGED <<tx, faults>>
  <2>1. call[t] # None /\ ~Applied(t) /\ tx'[t] = NoTx
    BY <1>2, <1>3, <1>4 DEF Applied
  <2>2. ~Live
    BY <1>4, <2>1, Accepted
  <2> QED BY <1>1, <1>3, <1>4, <2>1, <2>2
<1>5. CASE /\ call[t] # None /\ tx[t].stage = "none" /\ t \in cancelled
           /\ r = "cancelled"
           /\ UNCHANGED <<tx, faults>>
  BY <1>1, <1>3, <1>5
<1>6. CASE /\ Committing(t, "publish")
           /\ r = IF t \in cancelled THEN "cancelled" ELSE "ok"
           /\ tx' = [tx EXCEPT ![t] = NoTx]
           /\ UNCHANGED faults
  BY <1>1, <1>2, <1>3, <1>6 DEF Applied
<1>7. CASE /\ \/ Committing(t, "write") /\ r = "persistence"
              \/ Committing(t, "publish") /\ r = "projection"
           /\ faults < MaxFaults /\ faults' = faults + 1
           /\ tx' = [tx EXCEPT ![t] = NoTx]
  BY <1>1, <1>2, <1>3, <1>7, SchedulerAssumption
<1> QED BY <1>4, <1>5, <1>6, <1>7 DEF Returns

\* An event is not None, and it has the fields it was made with.
LEMMA EventIsSome ==
  ASSUME NEW type \in Events, NEW arg \in Arguments
  PROVE  /\ Event(type, arg) # None
         /\ Event(type, arg).type = type /\ Event(type, arg).arg = arg
         /\ (/\ type \in AttemptEvents => arg \in R!Identity
             /\ type \in UnitEvents => arg \in R!Planning
             /\ type = "GlobalRepairStarted" => arg \in SUBSET R!Planning) => EventOk(Event(type, arg))
<1>1. Event(type, arg) \in [type : Events, arg : Arguments]
  BY DEF Event
<1>2. Event(type, arg) # None
  BY <1>1, SchedulerAssumption
<1>3. Event(type, arg).type = type /\ Event(type, arg).arg = arg
  BY DEF Event
<1> QED BY <1>2, <1>3 DEF EventOk, Event

\* The ways in which a task takes a turn.
LEMMA Turns ==
  ASSUME IInv, NEW t \in Tasks
  PROVE  /\ \A r, e : (Returns(t, r) /\ Submits(t, e) /\ e # None) => Turn(t, e)
         /\ \A r : (Returns(t, r) /\ Leaves(t)) => Turn(t, None)
         /\ \A e : (/\ call[t] = None /\ UNCHANGED <<snapshot, tx>>
                    /\ Submits(t, e) /\ e # None) => Turn(t, e)
         /\ (call[t] = None /\ UNCHANGED <<snapshot, tx>> /\ Leaves(t)) => Turn(t, None)
         /\ (call[t] = None /\ UNCHANGED <<snapshot, tx, lockQ, call>>) => Turn(t, None)
<1>1. DOMAIN call = Tasks /\ DOMAIN tx = Tasks
  BY DEF IInv, TypeOK
<1>2. call[t] = None => tx[t] = NoTx
  <2> SUFFICES ASSUME call[t] = None, tx[t] # NoTx PROVE FALSE
    OBVIOUS
  <2>1. tx[t] = [stage |-> tx[t].stage, run |-> tx[t].run] /\ (tx[t].stage # "write" => tx[t].run = None)
        /\ (tx[t].stage # "none" => HoldsLock(t))
    BY DEF IInv, TypeOK
  <2>2. HoldsLock(t)
    BY <2>1 DEF NoTx
  <2>3. lockQ \in Seq(Tasks) /\ {lockQ[k] : k \in DOMAIN lockQ} = {s \in Tasks : call[s] # None}
    BY DEF IInv, TypeOK
  <2>4. lockQ[1] = t /\ 1 \in DOMAIN lockQ
    BY <2>2, <2>3, HeadOf DEF HoldsLock
  <2> QED BY <2>3, <2>4
<1>3. ASSUME NEW r, Returns(t, r)
      PROVE  /\ UNCHANGED snapshot /\ DOMAIN tx' = Tasks /\ tx'[t] = NoTx
             /\ \A s \in Tasks \ {t} : tx'[s] = tx[s]
  BY <1>3, Returned
<1>4. ASSUME NEW e, Submits(t, e), e # None
      PROVE  /\ DOMAIN call' = Tasks /\ call'[t] = e /\ \A s \in Tasks \ {t} : call'[s] = call[s]
             /\ lockQ' = IF e = None THEN Without(t) ELSE Append(Without(t), t)
  BY <1>1, <1>4 DEF Submits
<1>5. ASSUME Leaves(t)
      PROVE  /\ DOMAIN call' = Tasks /\ call'[t] = None /\ \A s \in Tasks \ {t} : call'[s] = call[s]
             /\ lockQ' = Without(t)
  BY <1>1, <1>5 DEF Leaves
<1>6. call[t] = None => Without(t) = lockQ
  BY DEF Without
<1> QED BY <1>1, <1>2, <1>3, <1>4, <1>5, <1>6 DEF Turn

------------------------------------------------------------------------------
(* The steps of a worker *)

\* w waits at another place, for e and with job j.
Moves(w, at, e, j) ==
  /\ Turn(w, e) /\ UNCHANGED <<todo, cancels>>
  /\ pc' = [pc EXCEPT ![w] = at] /\ job' = [job EXCEPT ![w] = j]

\* The turn has no effect on the round but for the queue.
Plain == UNCHANGED <<aborting, fatal, failures, faults>>

\* A worker takes a job ...
Taken(w) ==
  LET j == Head(queue)
  IN /\ pc[w] = "get" /\ w \notin cancelled /\ queue # <<>> /\ queue' = Tail(queue)
     /\ j \in Jobs /\ pc[Main] = "join" /\ ~Draining
     /\ Moves(w, "start", Event("UnitAttemptStarted", j.id), j)
     /\ Plain /\ UNCHANGED <<unfinished, cancelled>>

\* ... or drops what it took: a sentinel, a job of a draining round.
Skipped(w) ==
  /\ pc[w] = "get" /\ queue # <<>> /\ queue' = Tail(queue)
  /\ Head(queue) = None \/ Draining
  /\ \E at \in {"get", "done"} : Moves(w, at, None, None)
  /\ Plain /\ unfinished' = unfinished - 1 /\ UNCHANGED cancelled

\* It goes on to the next event of its job ...
Continued(w) ==
  LET i == job[w].id
  IN /\ job[w] # None /\ Plain /\ UNCHANGED <<queue, unfinished>> /\ cancelled' = cancelled \ {w}
     /\ pc[w] # "generate" => Applied(w) \/ ~Live
     /\ \/ pc[w] = "start" /\ Moves(w, "generate", None, job[w])
        \/ pc[w] = "generate" /\ Moves(w, "validate", Event("UnitValidationStarted", i), job[w])
        \/ /\ pc[w] \in {"generate", "validate"}
           /\ Moves(w, "invalid", Event("CandidateInvalid", i), job[w])
        \/ pc[w] = "validate" /\ Moves(w, "ready", Event("CandidateReady", i), job[w])
        \/ /\ pc[w] = "invalid" /\ BudgetSpent(i.unit)
           /\ Moves(w, "exhaust", Event("RoundExhausted", i.unit), job[w])
        \/ /\ pc[w] \in {"generate", "validate"}
           /\ Moves(w, "fail", Event("RunFailed", None), job[w])

\* ... or is done with the job, for one of the reasons it may have ...
Dropped(w) ==
  /\ pc[w] \notin {"get", "done"} /\ job[w] # None
  /\ \E at \in {"get", "done"} : Moves(w, at, None, None)
  /\ UNCHANGED <<queue, aborting, fatal>> /\ unfinished' = unfinished - 1
  /\ cancelled' = cancelled \ {w}
  /\ failures' \in BOOLEAN /\ faults' \in 0..MaxFaults
  /\ faults' = 0 => /\ faults = 0 /\ failures' = failures
                    /\ \/ w \in cancelled
                       \/ ~Live /\ ~Applied(w)
                       \/ /\ pc[w] \in {"invalid", "exhaust", "ready"}
                          /\ Draining \/ (Applied(w) /\ UnitStatus(job[w].id.unit) # "pending")

\* ... or has queued its unit for another attempt.
Requeued(w) ==
  LET u == job[w].id.unit
  IN /\ pc[w] \in {"invalid", "exhaust", "ready"} /\ job[w] # None
     /\ Applied(w) /\ ~Draining /\ UnitStatus(u) = "pending"
     /\ pc[w] = "invalid" => ~BudgetSpent(u)
     /\ Moves(w, "get", None, None)
     /\ queue' = Append(queue, NextJob(u))
     /\ Plain /\ UNCHANGED unfinished /\ cancelled' = cancelled \ {w}

\* It stops the round after a fatal error, or is cancelled as it waits.
Stopped(w) ==
  /\ pc[w] = "fail" /\ job[w] # None /\ Applied(w)
  /\ Moves(w, "done", None, None)
  /\ UNCHANGED <<failures, faults>>
  /\ StopForFatal(w)

Withdrawn(w) ==
  /\ pc[w] = "get" /\ w \in cancelled
  /\ Moves(w, "done", None, None)
  /\ Plain /\ UNCHANGED <<queue, unfinished>> /\ cancelled' = cancelled \ {w}

\* One of these is what a step of a worker does.
Worked(w) ==
  \/ Taken(w) \/ Skipped(w) \/ Continued(w) \/ Dropped(w)
  \/ Requeued(w) \/ Stopped(w) \/ Withdrawn(w)

\* A queued job of a round that is not draining is current, so it is taken.
LEMMA TakesForm ==
  ASSUME IInv, NEW w \in Workers, WorkerTakes(w)
  PROVE  Taken(w) \/ Skipped(w)
<1> DEFINE j == Head(queue)
<1>0. /\ pc[w] = "get" /\ w \notin cancelled /\ queue # <<>> /\ queue' = Tail(queue) /\ call[w] = None /\ w \in Tasks
      /\ UNCHANGED <<snapshot, tx, faults, cancelled, aborting, fatal, todo, cancels>>
      /\ j \in Jobs \cup {None} /\ j = queue[1] /\ 1 \in DOMAIN queue
      /\ job[w] = None /\ job \in [Workers -> Jobs \cup {None}]
  <2>1. WorkerCall(w) /\ queue \in Seq(Jobs \cup {None})
    BY DEF IInv, WorkerCalls, TypeOK
  <2>2. pc[w] = "get" /\ queue # <<>>
    BY DEF WorkerTakes
  <2>3. j \in Jobs \cup {None} /\ j = queue[1] /\ 1 \in DOMAIN queue
    BY <2>1, <2>2, HeadOf
  <2>4. w \in Tasks /\ job \in [Workers -> Jobs \cup {None}]
    BY DEF Tasks, IInv, TypeOK
  <2> QED BY <2>1, <2>2, <2>3, <2>4 DEF WorkerTakes, WorkerCall
<1>1. ASSUME j # None, ~Draining
      PROVE  pc[Main] = "join" /\ JobCurrent(j) /\ j \in Jobs
  <2>1. pc[Main] = "join"
    BY <1>0, <1>1 DEF IInv, Pool
  <2> QED BY <1>0, <1>1, <2>1 DEF IInv, QueuedJobsCurrent
<1>2. CASE j = None \/ Draining
  <2>1. (Quits(w) \/ Idles(w)) /\ UNCHANGED <<lockQ, call, failures>>
    BY <1>2 DEF WorkerTakes
  <2>2. Turn(w, None)
    BY <1>0, <2>1, Turns
  <2> QED BY <1>0, <1>2, <2>1, <2>2 DEF Skipped, Moves, Plain, Quits, Idles
<1>3. CASE j # None /\ ~Draining
  <2>1. JobCurrent(j) /\ pc[Main] = "join" /\ j \in Jobs
    BY <1>1, <1>3
  <2>2. /\ Submits(w, Event("UnitAttemptStarted", j.id))
        /\ pc' = [pc EXCEPT ![w] = "start"]
        /\ job' = [job EXCEPT ![w] = j]
        /\ UNCHANGED <<unfinished, failures>>
    BY <1>3, <2>1 DEF WorkerTakes
  <2>3. Event("UnitAttemptStarted", j.id) # None
    BY <2>1, EventIsSome DEF Jobs, Events, AttemptEvents, Arguments
  <2>4. Turn(w, Event("UnitAttemptStarted", j.id))
    BY <1>0, <2>2, <2>3, Turns
  <2> QED BY <1>0, <1>3, <2>1, <2>2, <2>4 DEF Taken, Moves, Plain
<1> QED BY <1>2, <1>3

\* A worker that applies an event has a job of its own.
LEMMA AtWork ==
  ASSUME IInv, NEW w \in Workers
  PROVE  /\ w \in Tasks /\ job \in [Workers -> Jobs \cup {None}]
         /\ pc[w] \notin {"get", "done"} => /\ job[w] # None /\ job[w] \in Jobs
                                            /\ job[w].id \in R!Identity
                                            /\ job[w].id.unit \in Units
         /\ pc[w] \in {"get", "generate", "done"} <=> call[w] = None
         /\ failures \in BOOLEAN /\ faults \in 0..MaxFaults
<1>1. WorkerCall(w) /\ w \in Tasks /\ job \in [Workers -> Jobs \cup {None}]
      /\ failures \in BOOLEAN /\ faults \in 0..MaxFaults
  BY DEF IInv, WorkerCalls, TypeOK, Tasks
<1>2. ASSUME pc[w] \notin {"get", "done"}
      PROVE  job[w] # None /\ job[w] \in Jobs
  BY <1>1, <1>2 DEF WorkerCall
<1>3. \A j \in Jobs : j.id \in R!Identity /\ j.id.unit \in Units
  BY DEF Jobs, R!Identity
<1> QED BY <1>1, <1>2, <1>3 DEF WorkerCall

\* The events of a worker are events.
LEMMA WorkerEvents ==
  ASSUME NEW i \in R!Identity, i.unit \in Units
  PROVE  /\ \A type \in AttemptEvents : Event(type, i) # None
         /\ Event("RoundExhausted", i.unit) # None
         /\ Event("RunFailed", None) # None
<1>1. ASSUME NEW type \in AttemptEvents PROVE Event(type, i) # None
  BY <1>1, EventIsSome DEF Events, Arguments
<1>2. Event("RoundExhausted", i.unit) # None
  BY EventIsSome DEF Events, UnitEvents, Arguments
<1>3. Event("RunFailed", None) # None
  <2>1. "RunFailed" \in Events
    BY DEF Events
  <2>2. None \in Arguments
    BY DEF Arguments
  <2> QED BY <2>1, <2>2, EventIsSome
<1> QED BY <1>1, <1>2, <1>3

\* An apply that raised ends the job.
LEMMA RaisesForm ==
  ASSUME IInv, NEW w \in Workers, pc[w] \notin {"get", "generate", "done"},
         NEW r \in {"illegal", "persistence", "projection", "cancelled"},
         Returns(w, r), WorkerRaises(w, r), Resumed(w)
  PROVE  Dropped(w)
<1>1. w \in Tasks /\ job[w] # None
  BY AtWork
<1>2. Turn(w, None)
  BY <1>1, Turns DEF WorkerRaises
<1>3. /\ UNCHANGED snapshot
      /\ faults' \in 0..MaxFaults /\ (faults' = 0 => faults = 0)
      /\ r = "illegal" => ~Live /\ ~Applied(w) /\ faults' = faults
      /\ r = "cancelled" => w \in cancelled /\ faults' = faults
      /\ r \in {"persistence", "projection"} => faults' # 0
  BY <1>1, Returned
<1>4. \/ Quits(w) /\ UNCHANGED failures /\ (r = "cancelled" \/ ~Live)
      \/ Idles(w) /\ failures' = TRUE /\ r # "cancelled" /\ Live
  BY DEF WorkerRaises, Live
<1>5. \E at \in {"get", "done"} : Moves(w, at, None, None)
  BY <1>2, <1>4 DEF Moves, Quits, Idles, Resumed
<1>6. UNCHANGED <<queue, aborting, fatal>> /\ unfinished' = unfinished - 1
      /\ cancelled' = cancelled \ {w} /\ failures' \in BOOLEAN
  BY <1>4, AtWork DEF WorkerRaises, Quits, Idles, Resumed
<1>7. ASSUME faults' = 0
      PROVE  faults = 0 /\ failures' = failures /\ (w \in cancelled \/ (~Live /\ ~Applied(w)))
  BY <1>3, <1>4, <1>7
<1> QED BY <1>1, <1>3, <1>5, <1>6, <1>7 DEF Dropped

\* A committed attempt ends the job or queues the next one.
LEMMA EndsForm ==
  ASSUME IInv, NEW w \in Workers, pc[w] \in {"invalid", "exhaust", "ready"},
         pc[w] = "invalid" => ~BudgetSpent(job[w].id.unit),
         Returns(w, "ok"), AttemptEnds(w), Resumed(w)
  PROVE  Dropped(w) \/ Requeued(w)
<1> DEFINE u == job[w].id.unit
<1>1. w \in Tasks /\ job[w] # None
  BY AtWork
<1>2. Turn(w, None)
  BY <1>1, Turns DEF AttemptEnds
<1>3. UNCHANGED <<snapshot, faults>> /\ (Applied(w) \/ ~Live)
  BY <1>1, Returned
<1>4. UNCHANGED <<aborting, fatal, failures, todo, cancels>> /\ cancelled' = cancelled \ {w}
      /\ failures' \in BOOLEAN /\ faults' \in 0..MaxFaults
  BY <1>3, AtWork DEF AttemptEnds, Resumed
<1>5. \/ Draining /\ Quits(w) /\ UNCHANGED queue
      \/ /\ ~Draining /\ UnitStatus(u) = "pending"
         /\ queue' = Append(queue, NextJob(u))
         /\ pc' = [pc EXCEPT ![w] = "get"] /\ job' = [job EXCEPT ![w] = None]
         /\ UNCHANGED unfinished
      \/ ~Draining /\ UnitStatus(u) # "pending" /\ Idles(w) /\ UNCHANGED queue
  BY DEF AttemptEnds
<1>6. ~Draining => Applied(w)
  BY <1>3 DEF Draining, Live
<1>7. CASE ~Draining /\ UnitStatus(u) = "pending"
  BY <1>1, <1>2, <1>3, <1>4, <1>5, <1>6, <1>7 DEF Requeued, Moves, Plain
<1>8. CASE Draining \/ UnitStatus(u) # "pending"
  <2>1. \E at \in {"get", "done"} : Moves(w, at, None, None)
    BY <1>2, <1>4, <1>5, <1>8 DEF Moves, Quits, Idles
  <2>2. UNCHANGED queue /\ unfinished' = unfinished - 1
    BY <1>5, <1>8 DEF Quits, Idles
  <2>3. Draining \/ (Applied(w) /\ UnitStatus(u) # "pending")
    BY <1>6, <1>8
  <2> QED BY <1>1, <1>3, <1>4, <2>1, <2>2, <2>3 DEF Dropped
<1> QED BY <1>7, <1>8

\* w goes on to its next await with the same job.
LEMMA GoesOn ==
  ASSUME IInv, NEW w \in Workers, pc[w] \notin {"get", "done"}, Resumed(w),
         \/ Returns(w, "ok")
         \/ pc[w] = "generate" /\ UNCHANGED <<snapshot, tx, faults>>
  PROVE  /\ UNCHANGED faults /\ cancelled' = cancelled \ {w}
         /\ pc[w] # "generate" => Applied(w) \/ ~Live
         /\ \A next, e : (Goes(w, next, e) /\ e # None) =>
              Moves(w, next, e, job[w]) /\ Plain /\ UNCHANGED <<queue, unfinished>>
         /\ \A next : (/\ Leaves(w) /\ pc' = [pc EXCEPT ![w] = next]
                       /\ UNCHANGED <<job, round>>) =>
              Moves(w, next, None, job[w]) /\ Plain /\ UNCHANGED <<queue, unfinished>>
<1>1. w \in Tasks /\ job \in [Workers -> Jobs \cup {None}]
  BY AtWork
<1>2. job = [job EXCEPT ![w] = job[w]]
  BY <1>1
<1>3. UNCHANGED faults /\ (pc[w] # "generate" => Applied(w) \/ ~Live)
  BY <1>1, Returned
<1>4. \A e : (Submits(w, e) /\ e # None) => Turn(w, e)
  <2>1. CASE Returns(w, "ok")
    BY <1>1, <2>1, Turns
  <2>2. CASE pc[w] = "generate" /\ UNCHANGED <<snapshot, tx, faults>>
    <3>1. call[w] = None
      BY <2>2, AtWork
    <3> QED BY <1>1, <2>2, <3>1, Turns
  <2> QED BY <2>1, <2>2
<1>5. Leaves(w) => Turn(w, None)
  <2>1. CASE Returns(w, "ok")
    BY <1>1, <2>1, Turns
  <2>2. CASE pc[w] = "generate" /\ UNCHANGED <<snapshot, tx, faults>>
    <3>1. call[w] = None
      BY <2>2, AtWork
    <3> QED BY <1>1, <2>2, <3>1, Turns
  <2> QED BY <2>1, <2>2
<1>6. UNCHANGED <<todo, cancels>> /\ cancelled' = cancelled \ {w}
  BY DEF Resumed
<1>7. ASSUME NEW next, NEW e, Goes(w, next, e), e # None
      PROVE  Moves(w, next, e, job[w]) /\ Plain /\ UNCHANGED <<queue, unfinished>>
  <2>1. Turn(w, e) /\ pc' = [pc EXCEPT ![w] = next] /\ job' = job /\ UNCHANGED round
    BY <1>4, <1>7 DEF Goes
  <2> QED BY <1>2, <1>3, <1>6, <2>1 DEF Moves, Plain, round
<1>8. ASSUME NEW next, Leaves(w), pc' = [pc EXCEPT ![w] = next], UNCHANGED <<job, round>>
      PROVE  Moves(w, next, None, job[w]) /\ Plain /\ UNCHANGED <<queue, unfinished>>
  BY <1>2, <1>3, <1>5, <1>6, <1>8 DEF Moves, Plain, round
<1> QED BY <1>3, <1>6, <1>7, <1>8

\* Each step of a worker has one of the forms.
LEMMA WorkerForm ==
  ASSUME IInv, NEW w \in Workers, WorkerStep(w)
  PROVE  Worked(w)
<1> DEFINE i == job[w].id
           Raised == \E r \in {"illegal", "persistence", "projection", "cancelled"} :
                       Returns(w, r) /\ WorkerRaises(w, r)
<1>1. ASSUME Raised, Resumed(w), pc[w] \notin {"get", "generate", "done"}
      PROVE  Worked(w)
  BY <1>1, RaisesForm DEF Worked
<1>2. ASSUME pc[w] \notin {"get", "done"}
      PROVE  /\ job[w] # None
             /\ \A type \in AttemptEvents : Event(type, i) # None
             /\ Event("RoundExhausted", i.unit) # None /\ Event("RunFailed", None) # None
  BY <1>2, AtWork, WorkerEvents
<1>3. CASE WorkerTakes(w)
  BY <1>3, TakesForm DEF Worked
<1>4. CASE WorkerStarted(w)
  <2>1. pc[w] = "start" /\ Resumed(w)
    BY <1>4 DEF WorkerStarted
  <2>2. \/ /\ Returns(w, "ok") /\ Leaves(w)
           /\ pc' = [pc EXCEPT ![w] = "generate"] /\ UNCHANGED <<job, round>>
        \/ Raised
    BY <1>4 DEF WorkerStarted
  <2>3. CASE /\ Returns(w, "ok") /\ Leaves(w)
             /\ pc' = [pc EXCEPT ![w] = "generate"] /\ UNCHANGED <<job, round>>
    <3>1. Continued(w)
      BY <1>2, <2>1, <2>3, GoesOn DEF Continued
    <3> QED BY <3>1 DEF Worked
  <2> QED BY <1>1, <2>1, <2>2, <2>3
<1>5. CASE WorkerGenerated(w)
  <2>1. pc[w] = "generate" /\ Resumed(w) /\ UNCHANGED <<snapshot, tx>>
    BY <1>5 DEF WorkerGenerated
  <2>2. \/ /\ UNCHANGED faults
           /\ \/ Goes(w, "validate", Event("UnitValidationStarted", i))
              \/ Goes(w, "invalid", Event("CandidateInvalid", i))
              \/ Goes(w, "fail", Event("RunFailed", None))
        \/ WorkerRaises(w, "error") /\ faults < MaxFaults /\ faults' = faults + 1
    BY <1>5 DEF WorkerGenerated
  <2>3. CASE UNCHANGED faults
    <3>1. Continued(w)
      BY <1>2, <2>1, <2>2, <2>3, GoesOn, AtWork DEF Continued, AttemptEvents
    <3> QED BY <3>1 DEF Worked
  <2>4. CASE WorkerRaises(w, "error") /\ faults < MaxFaults /\ faults' = faults + 1
    <3>1. call[w] = None /\ w \in Tasks /\ job[w] # None /\ faults \in 0..MaxFaults
      BY <2>1, AtWork
    <3>2. Turn(w, None)
      BY <2>1, <2>4, <3>1, Turns DEF WorkerRaises
    <3>3. faults' \in 0..MaxFaults /\ faults' # 0
      BY <2>4, <3>1, SchedulerAssumption
    <3>4. (Quits(w) /\ UNCHANGED failures) \/ (Idles(w) /\ failures' = TRUE)
      BY <2>4 DEF WorkerRaises
    <3>5. \E at \in {"get", "done"} : Moves(w, at, None, None)
      BY <2>1, <3>2, <3>4 DEF Moves, Quits, Idles, Resumed
    <3>6. UNCHANGED <<queue, aborting, fatal>> /\ unfinished' = unfinished - 1
          /\ cancelled' = cancelled \ {w} /\ failures' \in BOOLEAN
      BY <2>1, <2>4, <3>4, AtWork DEF WorkerRaises, Quits, Idles, Resumed
    <3>7. Dropped(w) BY <2>1, <3>1, <3>3, <3>5, <3>6 DEF Dropped
    <3> QED BY <3>7 DEF Worked
  <2> QED BY <2>2, <2>3, <2>4
<1>6. CASE WorkerValidated(w)
  <2>1. pc[w] = "validate" /\ Resumed(w)
    BY <1>6 DEF WorkerValidated
  <2>2. \/ Raised
        \/ /\ Returns(w, "ok")
           /\ \/ Goes(w, "ready", Event("CandidateReady", i))
              \/ Goes(w, "invalid", Event("CandidateInvalid", i))
              \/ Goes(w, "fail", Event("RunFailed", None))
    BY <1>6 DEF WorkerValidated
  <2>3. ASSUME Returns(w, "ok"),
               \/ Goes(w, "ready", Event("CandidateReady", i))
               \/ Goes(w, "invalid", Event("CandidateInvalid", i))
               \/ Goes(w, "fail", Event("RunFailed", None))
        PROVE  Continued(w)
    BY <1>2, <2>1, <2>3, GoesOn DEF Continued, AttemptEvents
  <2> QED BY <1>1, <2>1, <2>2, <2>3 DEF Worked
<1>7. CASE WorkerInvalid(w)
  <2>1. pc[w] = "invalid" /\ Resumed(w)
    BY <1>7 DEF WorkerInvalid
  <2>2. \/ Raised
        \/ /\ Returns(w, "ok") /\ BudgetSpent(i.unit)
           /\ Goes(w, "exhaust", Event("RoundExhausted", i.unit))
        \/ Returns(w, "ok") /\ ~BudgetSpent(i.unit) /\ AttemptEnds(w)
    BY <1>7 DEF WorkerInvalid
  <2>3. ASSUME Returns(w, "ok"), BudgetSpent(i.unit),
               Goes(w, "exhaust", Event("RoundExhausted", i.unit))
        PROVE  Continued(w)
    BY <1>2, <2>1, <2>3, GoesOn DEF Continued
  <2>4. ASSUME Returns(w, "ok"), ~BudgetSpent(i.unit), AttemptEnds(w)
        PROVE  Dropped(w) \/ Requeued(w)
    BY <2>1, <2>4, EndsForm
  <2> QED BY <1>1, <2>1, <2>2, <2>3, <2>4 DEF Worked
<1>8. CASE WorkerCommitted(w)
  <2>1. pc[w] \in {"exhaust", "ready"} /\ Resumed(w)
    BY <1>8 DEF WorkerCommitted
  <2>2. Raised \/ (Returns(w, "ok") /\ AttemptEnds(w))
    BY <1>8 DEF WorkerCommitted
  <2>3. ASSUME Returns(w, "ok"), AttemptEnds(w)
        PROVE  Dropped(w) \/ Requeued(w)
    BY <2>1, <2>3, EndsForm
  <2> QED BY <1>1, <2>1, <2>2, <2>3 DEF Worked
<1>9. CASE WorkerFatal(w)
  <2>1. /\ pc[w] = "fail" /\ Returns(w, "ok") /\ Leaves(w) /\ StopForFatal(w)
        /\ pc' = [pc EXCEPT ![w] = "done"] /\ job' = [job EXCEPT ![w] = None]
        /\ UNCHANGED <<failures, todo, cancels>>
    BY <1>9 DEF WorkerFatal
  <2>2. w \in Tasks
    BY AtWork
  <2>3. Turn(w, None)
    BY <2>1, <2>2, Turns
  <2>4. UNCHANGED faults /\ (Applied(w) \/ Ignored(call[w]))
    BY <2>1, <2>2, Returned
  <2>5. call[w] = Event("RunFailed", None)
    BY <2>1 DEF IInv, WorkerCalls, WorkerCall
  <2>6. call[w].type = "RunFailed"
    BY <2>5 DEF Event
  <2>7. Applied(w)
    BY <2>4, <2>6 DEF Ignored
  <2>8. Stopped(w)
    BY <1>2, <2>1, <2>3, <2>4, <2>7 DEF Stopped, Moves
  <2> QED BY <2>8 DEF Worked
<1>10. CASE WorkerFailRejected(w)
  <2>1. pc[w] = "fail" /\ Resumed(w) /\ Raised
    BY <1>10 DEF WorkerFailRejected
  <2> QED BY <1>1, <2>1
<1>11. CASE WorkerCancelled(w)
  <2>1. /\ w \in cancelled /\ pc[w] \in {"get", "generate"} /\ cancelled' = cancelled \ {w}
        /\ pc' = [pc EXCEPT ![w] = "done"] /\ job' = [job EXCEPT ![w] = None]
        /\ unfinished' = IF pc[w] = "generate" THEN unfinished - 1 ELSE unfinished
        /\ UNCHANGED <<snapshot, lockQ, call, tx, faults, queue, aborting, fatal, failures, todo>>
        /\ UNCHANGED cancels
    BY <1>11 DEF WorkerCancelled, ctrl
  <2>2. w \in Tasks /\ call[w] = None /\ failures \in BOOLEAN /\ faults \in 0..MaxFaults
    BY <2>1, AtWork
  <2>3. Turn(w, None)
    BY <2>1, <2>2, Turns
  <2>4. Moves(w, "done", None, None)
    BY <2>1, <2>3 DEF Moves
  <2>5. CASE pc[w] = "get"
    <3>1. Withdrawn(w)
      BY <2>1, <2>4, <2>5 DEF Withdrawn, Plain
    <3> QED BY <3>1 DEF Worked
  <2>6. CASE pc[w] = "generate"
    <3>1. Dropped(w)
      BY <1>2, <2>1, <2>2, <2>4, <2>6 DEF Dropped
    <3> QED BY <3>1 DEF Worked
  <2> QED BY <2>1, <2>5, <2>6
<1> QED BY <1>3, <1>4, <1>5, <1>6, <1>7, <1>8, <1>9, <1>10, <1>11 DEF WorkerStep

------------------------------------------------------------------------------
(* A step of a worker keeps the invariant *)

\* What all forms have in common.
LEMMA Working ==
  ASSUME IInv, NEW w \in Workers, Worked(w)
  PROVE  /\ UNCHANGED <<snapshot, todo, cancels>> /\ w \in Tasks \ {Main} /\ w \in Alive
         /\ \E e : Turn(w, e) /\ (e = None \/ EventOk(e))
         /\ pc' \in [Tasks -> MainPcs \cup WorkerPcs] /\ pc'[w] \in WorkerPcs
         /\ job' \in [Workers -> Jobs \cup {None}]
         /\ pc'[Main] = pc[Main] /\ call'[Main] = call[Main] /\ tx'[Main] = tx[Main]
         /\ \A v \in Workers \ {w} : /\ pc'[v] = pc[v] /\ job'[v] = job[v] /\ call'[v] = call[v]
                                     /\ Applied(v)' <=> Applied(v)
         /\ ~Applied(w)' /\ (Applied(Main)' <=> Applied(Main))
         /\ WorkerCall(w)' /\ Alive' \subseteq Alive
         /\ job'[w] = None \/ job'[w] = job[w] \/ (Taken(w) /\ job'[w] = Head(queue))
<1>1. /\ w \in Tasks \ {Main} /\ pc \in [Tasks -> MainPcs \cup WorkerPcs]
      /\ job \in [Workers -> Jobs \cup {None}]
  BY SchedulerAssumption DEF IInv, TypeOK, Tasks
<1>2. ASSUME pc[w] \notin {"get", "done"}
      PROVE  job[w] # None /\ job[w] \in Jobs /\ job[w].id \in R!Identity /\ job[w].id.unit \in Units
  BY <1>2, AtWork
<1>3. pc[w] \notin {"done"}
  <2>1. WorkerCall(w)
    BY DEF IInv, WorkerCalls
  <2> QED BY <2>1 DEF Worked, Taken, Skipped, Continued, Dropped, Requeued, Stopped, Withdrawn, WorkerCall
<1>4. ASSUME NEW i \in R!Identity
      PROVE  /\ \A type \in AttemptEvents : EventOk(Event(type, i)) /\ Event(type, i) # None
             /\ i.unit \in R!Planning =>
                  EventOk(Event("RoundExhausted", i.unit)) /\ Event("RoundExhausted", i.unit) # None
             /\ EventOk(Event("RunFailed", None)) /\ Event("RunFailed", None) # None
  <2>1. ASSUME NEW type \in AttemptEvents PROVE EventOk(Event(type, i)) /\ Event(type, i) # None
    <3>1. type \in Events /\ i \in Arguments /\ type \notin UnitEvents /\ type # "GlobalRepairStarted"
      BY <1>4, <2>1 DEF Events, Arguments, AttemptEvents, UnitEvents
    <3> QED BY <1>4, <3>1, EventIsSome
  <2>2. ASSUME i.unit \in R!Planning
        PROVE  EventOk(Event("RoundExhausted", i.unit)) /\ Event("RoundExhausted", i.unit) # None
    <3>1. "RoundExhausted" \in Events \ AttemptEvents /\ i.unit \in Arguments
      BY <2>2 DEF Events, Arguments, UnitEvents, AttemptEvents, R!Planning
    <3> QED BY <2>2, <3>1, EventIsSome
  <2>3. EventOk(Event("RunFailed", None)) /\ Event("RunFailed", None) # None
    <3>1. "RunFailed" \in Events \ (AttemptEvents \cup UnitEvents)
      BY DEF Events, AttemptEvents, UnitEvents
    <3>2. None \in Arguments
      BY DEF Arguments
    <3> QED BY <3>1, <3>2, EventIsSome
  <2> QED BY <2>1, <2>2, <2>3
<1>5. PICK at, e, j :
        /\ Moves(w, at, e, j) /\ at \in WorkerPcs /\ j \in Jobs \cup {None}
        /\ e = None \/ EventOk(e)
        /\ j = None \/ j = job[w] \/ (Taken(w) /\ j = Head(queue))
        /\ at \in {"get", "done"} <=> j = None
        /\ at \in {"get", "generate", "done"} <=> e = None
        /\ at = "start" => e = Event("UnitAttemptStarted", j.id)
        /\ at = "validate" => e = Event("UnitValidationStarted", j.id)
        /\ at = "invalid" => e = Event("CandidateInvalid", j.id)
        /\ at = "ready" => e = Event("CandidateReady", j.id)
        /\ at = "exhaust" => e = Event("RoundExhausted", j.id.unit)
        /\ at = "fail" => e = Event("RunFailed", None)
  <2>1. CASE Taken(w)
    <3> DEFINE j == Head(queue)
               e == Event("UnitAttemptStarted", j.id)
    <3>1. Moves(w, "start", e, j) /\ j \in Jobs /\ pc[Main] = "join" /\ ~Draining /\ queue # <<>>
      BY <2>1 DEF Taken
    <3>2. j.id \in R!Identity /\ j # None
      BY <3>1, SchedulerAssumption DEF Jobs
    <3>4. EventOk(e) /\ e # None
      BY <1>4, <3>2 DEF AttemptEvents
    <3>5. "start" \in WorkerPcs
      BY DEF WorkerPcs
    <3> HIDE DEF e, j
    <3>6. /\ Moves(w, "start", e, j) /\ "start" \in WorkerPcs /\ j \in Jobs \cup {None}
          /\ e # None /\ EventOk(e) /\ j # None /\ Taken(w) /\ j = Head(queue)
          /\ e = Event("UnitAttemptStarted", j.id)
      BY <2>1, <3>1, <3>2, <3>4, <3>5 DEF e, j
    <3> QED BY <3>6
  <2>2. CASE \E at \in {"get", "done"} : Moves(w, at, None, None)
    BY <2>2 DEF WorkerPcs
  <2>3. CASE Continued(w)
    <3> DEFINE i == job[w].id
    <3>1. /\ job[w] # None /\ pc[w] # "get"
          /\ \/ pc[w] = "start" /\ Moves(w, "generate", None, job[w])
             \/ pc[w] = "generate" /\ Moves(w, "validate", Event("UnitValidationStarted", i), job[w])
             \/ Moves(w, "invalid", Event("CandidateInvalid", i), job[w])
             \/ pc[w] = "validate" /\ Moves(w, "ready", Event("CandidateReady", i), job[w])
             \/ BudgetSpent(i.unit) /\ Moves(w, "exhaust", Event("RoundExhausted", i.unit), job[w])
             \/ Moves(w, "fail", Event("RunFailed", None), job[w])
      BY <2>3 DEF Continued
    <3>2. job[w] \in Jobs /\ i \in R!Identity
      BY <1>2, <1>3, <3>1
    <3>3. ASSUME BudgetSpent(i.unit) PROVE i.unit \in R!Planning
      <4>1. i.unit \in Units /\ R!UnitLifecycle(i.unit, Unit(i.unit))
        BY <3>2, Contract DEF IInv, R!LifecycleValid, R!Identity, Unit
      <4>2. Unit(i.unit).attempt # 0
        BY <3>3, SchedulerAssumption DEF BudgetSpent, Unit
      <4> QED BY <4>1, <4>2 DEF R!UnitLifecycle, R!Planning
    <3>4. /\ EventOk(Event("UnitValidationStarted", i)) /\ Event("UnitValidationStarted", i) # None
          /\ EventOk(Event("CandidateInvalid", i)) /\ Event("CandidateInvalid", i) # None
          /\ EventOk(Event("CandidateReady", i)) /\ Event("CandidateReady", i) # None
          /\ BudgetSpent(i.unit) => EventOk(Event("RoundExhausted", i.unit))
          /\ BudgetSpent(i.unit) => Event("RoundExhausted", i.unit) # None
          /\ EventOk(Event("RunFailed", None)) /\ Event("RunFailed", None) # None
      BY <1>4, <3>2, <3>3 DEF AttemptEvents
    <3> QED BY <3>1, <3>2, <3>4 DEF WorkerPcs
  <2>4. CASE Moves(w, "get", None, None) \/ Moves(w, "done", None, None)
    BY <2>4 DEF WorkerPcs
  <2> QED BY <2>1, <2>2, <2>3, <2>4 DEF Worked, Skipped, Dropped, Requeued, Stopped, Withdrawn
<1>6. /\ pc' = [pc EXCEPT ![w] = at] /\ job' = [job EXCEPT ![w] = j] /\ Turn(w, e)
      /\ UNCHANGED <<todo, cancels>>
  BY <1>5 DEF Moves
<1>7. /\ pc'[w] = at /\ job'[w] = j /\ pc'[Main] = pc[Main]
      /\ \A v \in Workers \ {w} : pc'[v] = pc[v] /\ job'[v] = job[v]
      /\ pc' \in [Tasks -> MainPcs \cup WorkerPcs] /\ job' \in [Workers -> Jobs \cup {None}]
  BY <1>1, <1>5, <1>6 DEF Tasks
<1>8. /\ UNCHANGED snapshot /\ call'[w] = e /\ ~Applied(w)'
      /\ \A s \in Tasks \ {w} : call'[s] = call[s] /\ tx'[s] = tx[s] /\ (Applied(s)' <=> Applied(s))
  BY <1>1, <1>6, TurnOthers DEF IInv, Turn
<1>9. WorkerCall(w)'
  BY <1>5, <1>7, <1>8 DEF WorkerCall
<1>10. Alive' \subseteq Alive /\ w \in Alive
  BY <1>3, <1>7 DEF Alive
<1>11. Main \in Tasks \ {w} /\ \A v \in Workers \ {w} : v \in Tasks \ {w}
  BY <1>1 DEF Tasks
<1> QED BY <1>1, <1>5, <1>6, <1>7, <1>8, <1>9, <1>10, <1>11

\* The queue after one item is taken from it, or put to it.
LEMMA QueueTail ==
  ASSUME TypeOK, queue # <<>>, queue' = Tail(queue)
  PROVE  /\ queue' \in Seq(Jobs \cup {None}) /\ Len(queue') = Len(queue) - 1 /\ Len(queue) \in Nat
         /\ 1 \in DOMAIN queue /\ Head(queue) = queue[1]
         /\ \A k \in DOMAIN queue' : k + 1 \in DOMAIN queue \ {1} /\ queue'[k] = queue[k + 1]
         /\ \A k \in DOMAIN queue \ {1} : k - 1 \in DOMAIN queue' /\ queue'[k - 1] = queue[k]
<1>1. queue \in Seq(Jobs \cup {None})
  BY DEF TypeOK
<1>2. /\ Head(queue) = queue[1] /\ 1 \in DOMAIN queue
      /\ Len(queue) \in Nat /\ Len(queue) >= 1 /\ DOMAIN queue = 1..Len(queue)
      /\ queue' \in Seq(Jobs \cup {None}) /\ Len(queue') = Len(queue) - 1
      /\ DOMAIN queue' = 1..(Len(queue) - 1)
      /\ \A k \in 1..(Len(queue) - 1) : queue'[k] = queue[k + 1]
  BY <1>1, HeadOf
<1>3. ASSUME NEW k \in DOMAIN queue'
      PROVE  k + 1 \in DOMAIN queue \ {1} /\ queue'[k] = queue[k + 1]
  BY <1>2, <1>3
<1>4. ASSUME NEW k \in DOMAIN queue \ {1}
      PROVE  k - 1 \in DOMAIN queue' /\ queue'[k - 1] = queue[k]
  <2>1. k - 1 \in 1..(Len(queue) - 1) /\ (k - 1) + 1 = k
    BY <1>2, <1>4
  <2> QED BY <1>2, <2>1
<1> QED BY <1>2, <1>3, <1>4

\* A job queued at the tail.
LEMMA QueueAppend ==
  ASSUME TypeOK, NEW j \in Jobs, queue' = Append(queue, j)
  PROVE  /\ queue' \in Seq(Jobs \cup {None}) /\ Len(queue') = Len(queue) + 1 /\ Len(queue) \in Nat
         /\ \A k \in DOMAIN queue : k \in DOMAIN queue' /\ queue'[k] = queue[k]
         /\ \A k \in DOMAIN queue' \ DOMAIN queue : queue'[k] = j /\ k = Len(queue')
         /\ Len(queue') \in DOMAIN queue' \ DOMAIN queue
<1>1. queue \in Seq(Jobs \cup {None})
  BY DEF TypeOK
<1>2. /\ queue' \in Seq(Jobs \cup {None}) /\ Len(queue) \in Nat /\ DOMAIN queue = 1..Len(queue)
      /\ DOMAIN queue' = 1..(Len(queue) + 1) /\ Len(queue') = Len(queue) + 1
      /\ \A k \in 1..Len(queue) : queue'[k] = queue[k]
      /\ queue'[Len(queue) + 1] = j
  BY <1>1
<1> QED BY <1>2

\* What a worker puts back is the next attempt of its unit.
LEMMA Requeues ==
  ASSUME IInv, NEW w \in Workers, Requeued(w)
  PROVE  LET u == job[w].id.unit
         IN /\ JobCurrent(NextJob(u)) /\ NextJob(u) \in Jobs /\ NextJob(u) # None
            /\ NextJob(u).id.unit = u /\ u \in Units
            /\ pc[Main] = "join" /\ ~Draining /\ Live
<1> DEFINE u == job[w].id.unit
           n == NextJob(u)
<1>1. /\ pc[w] \in {"invalid", "exhaust", "ready"} /\ Applied(w) /\ ~Draining /\ UnitStatus(u) = "pending"
      /\ pc[w] = "invalid" => ~BudgetSpent(u)
  BY DEF Requeued
<1>2. u \in Units /\ job[w] # None
  BY <1>1, AtWork
<1>3. Live /\ ~aborting
  BY <1>1 DEF Draining, Live
<1>4. WorkerProgress(w)
  BY <1>2, <1>3 DEF IInv, WorkersProgress
<1>5. Strategy[u] = "model" /\ Phase = "generating_units" /\ pc[w] = "invalid"
  BY <1>1, <1>4 DEF WorkerProgress, UnitStatus, Unit
<1>6. /\ Unit(u).attempt \in 0..LocalMax /\ Unit(u).attempt # LocalMax
      /\ Unit(u).round \in 1..(GlobalLimit + 1)
  <2>1. snapshot.units[u] \in R!UnitState
    BY <1>2, Contract DEF IInv, R!Run
  <2> QED BY <1>1, <1>5, <2>1 DEF BudgetSpent, Unit, R!UnitState
<1>7. Unit(u).attempt + 1 \in 1..LocalMax /\ Unit(u).attempt < LocalMax
  BY <1>6, SchedulerAssumption
<1>8. n.id = [unit |-> u, round |-> Unit(u).round, attempt |-> Unit(u).attempt + 1]
      /\ n = [id |-> n.id, local |-> n.local] /\ n.local \in BOOLEAN
  BY DEF NextJob, Unit
<1>9. n.id \in R!Identity /\ n.id.unit = u
  BY <1>2, <1>6, <1>7, <1>8 DEF R!Identity
<1>10. n \in Jobs
  BY <1>8, <1>9 DEF Jobs
<1>11. JobCurrent(n)
  BY <1>1, <1>3, <1>5, <1>7, <1>9 DEF JobCurrent, R!Active, Live, Phase, UnitStatus, Unit
<1>12. pc[Main] = "join"
  <2>1. w \in Alive /\ pc[w] \notin {"get", "done"}
    BY <1>1 DEF Alive
  <2> QED BY <1>3, <2>1 DEF IInv, Pool
<1> QED BY <1>1, <1>2, <1>3, <1>9, <1>10, <1>11, <1>12, SchedulerAssumption

\* The counter of the join follows the queue and the busy workers.
LEMMA WorkedCounter ==
  ASSUME IInv, NEW w \in Workers, Worked(w)
  PROVE  /\ queue' \in Seq(Jobs \cup {None}) /\ unfinished' \in Nat
         /\ JoinCounter'
<1>1. queue \in Seq(Jobs \cup {None}) /\ Len(queue) \in Nat /\ TypeOK
  BY DEF IInv, TypeOK
<1>2. unfinished = Len(queue) + Cardinality(Busy)
  BY DEF IInv, JoinCounter, Busy
<1>3. IsFiniteSet(Busy) /\ Cardinality(Busy) \in Nat
  BY Workforce DEF Busy
<1>4. /\ pc'[w] \notin {"get", "done"} <=> w \in Busy'
      /\ pc[w] \notin {"get", "done"} <=> w \in Busy
      /\ Busy' \ {w} = Busy \ {w}
  BY Working DEF Busy
<1>5. pc \in [Tasks -> MainPcs \cup WorkerPcs] /\ w \in Tasks
  BY Working DEF IInv, TypeOK
<1>6. w \notin Busy => Cardinality(Busy \cup {w}) = Cardinality(Busy) + 1
  BY <1>3, FS_AddElement
<1>7. w \in Busy => Cardinality(Busy \ {w}) = Cardinality(Busy) - 1
  BY <1>3, FS_RemoveElement
<1>8. Cardinality(Busy') \in Nat
  BY Workforce DEF Busy
<1>9. \A at, e, j : Moves(w, at, e, j) => pc'[w] = at
  BY <1>5 DEF Moves
<1>10. queue' \in Seq(Jobs \cup {None}) /\ unfinished' = Len(queue') + Cardinality(Busy')
  <2>1. CASE Taken(w)
    <3>1. pc[w] = "get" /\ pc'[w] = "start" /\ queue # <<>> /\ queue' = Tail(queue)
          /\ unfinished' = unfinished
      BY <1>9, <2>1 DEF Taken
    <3>2. queue' \in Seq(Jobs \cup {None}) /\ Len(queue') = Len(queue) - 1
      BY <1>1, <3>1, QueueTail
    <3>3. Busy' = Busy \cup {w} /\ w \notin Busy
      BY <1>4, <3>1
    <3> QED BY <1>1, <1>2, <1>3, <1>6, <3>1, <3>2, <3>3
  <2>2. CASE Skipped(w)
    <3>1. pc[w] = "get" /\ pc'[w] \in {"get", "done"} /\ queue # <<>> /\ queue' = Tail(queue)
          /\ unfinished' = unfinished - 1
      BY <1>9, <2>2 DEF Skipped
    <3>2. queue' \in Seq(Jobs \cup {None}) /\ Len(queue') = Len(queue) - 1
      BY <1>1, <3>1, QueueTail
    <3>3. w \notin Busy /\ w \notin Busy'
      BY <1>4, <3>1
    <3>4. Busy' = Busy
      BY <1>4, <3>3
    <3> QED BY <1>1, <1>2, <1>3, <3>1, <3>2, <3>4
  <2>3. CASE Continued(w)
    <3>0. queue' = queue /\ unfinished' = unfinished /\ job[w] # None
          /\ \/ Moves(w, "generate", None, job[w])
             \/ Moves(w, "validate", Event("UnitValidationStarted", job[w].id), job[w])
             \/ Moves(w, "invalid", Event("CandidateInvalid", job[w].id), job[w])
             \/ Moves(w, "ready", Event("CandidateReady", job[w].id), job[w])
             \/ Moves(w, "exhaust", Event("RoundExhausted", job[w].id.unit), job[w])
             \/ Moves(w, "fail", Event("RunFailed", None), job[w])
      BY <2>3 DEF Continued, Plain
    <3>1. queue' = queue /\ unfinished' = unfinished /\ job[w] # None
          /\ pc'[w] \in {"generate", "validate", "invalid", "ready", "exhaust", "fail"}
      BY <1>9, <3>0
    <3>2. pc[w] \notin {"get", "done"}
      BY <3>1 DEF IInv, WorkerCalls, WorkerCall
    <3>3. Busy' = Busy
      BY <1>4, <3>1, <3>2
    <3> QED BY <1>1, <1>2, <3>1, <3>3
  <2>4. CASE Dropped(w)
    <3>1. pc[w] \notin {"get", "done"} /\ pc'[w] \in {"get", "done"} /\ queue' = queue
          /\ unfinished' = unfinished - 1
      BY <1>9, <2>4 DEF Dropped
    <3>2. Busy' = Busy \ {w} /\ w \in Busy
      BY <1>4, <3>1
    <3> QED BY <1>1, <1>2, <1>3, <1>7, <3>1, <3>2
  <2>5. CASE Requeued(w)
    <3>1. pc[w] \notin {"get", "done"} /\ pc'[w] \in {"get", "done"}
          /\ queue' = Append(queue, NextJob(job[w].id.unit)) /\ unfinished' = unfinished
      BY <1>9, <2>5 DEF Requeued
    <3>2. NextJob(job[w].id.unit) \in Jobs
      BY <2>5, Requeues
    <3>3. queue' \in Seq(Jobs \cup {None}) /\ Len(queue') = Len(queue) + 1
      BY <1>1, <3>1, <3>2, QueueAppend
    <3>4. Busy' = Busy \ {w} /\ w \in Busy
      BY <1>4, <3>1
    <3> QED BY <1>1, <1>2, <1>3, <1>7, <3>1, <3>3, <3>4
  <2>6. CASE Stopped(w)
    <3>1. pc[w] \notin {"get", "done"} /\ pc'[w] \in {"get", "done"}
          /\ \/ queue' = queue /\ unfinished' = unfinished - 1
             \/ queue' = <<>> /\ unfinished' = unfinished - Len(queue) - 1
      BY <1>9, <2>6 DEF Stopped, StopForFatal
    <3>2. Busy' = Busy \ {w} /\ w \in Busy
      BY <1>4, <3>1
    <3>3. <<>> \in Seq(Jobs \cup {None}) /\ Len(<<>>) = 0
      OBVIOUS
    <3>4. CASE queue' = queue /\ unfinished' = unfinished - 1
      BY <1>1, <1>2, <1>3, <1>7, <3>2, <3>4
    <3>5. CASE queue' = <<>> /\ unfinished' = unfinished - Len(queue) - 1
      <4>1. unfinished' = Cardinality(Busy) - 1
        BY <1>1, <1>2, <1>3, <3>5
      <4>2. Cardinality(Busy') = Cardinality(Busy) - 1
        BY <1>7, <3>2
      <4> QED BY <1>3, <3>3, <3>5, <4>1, <4>2
    <3> QED BY <3>1, <3>4, <3>5
  <2>7. CASE Withdrawn(w)
    <3>1. pc[w] = "get" /\ pc'[w] = "done" /\ queue' = queue /\ unfinished' = unfinished
      BY <1>9, <2>7 DEF Withdrawn
    <3>2. w \notin Busy /\ w \notin Busy'
      BY <1>4, <3>1
    <3>3. Busy' = Busy
      BY <1>4, <3>2
    <3> QED BY <1>1, <1>2, <3>1, <3>3
  <2> QED BY <2>1, <2>2, <2>3, <2>4, <2>5, <2>6, <2>7 DEF Worked
<1>11. Len(queue') \in Nat
  BY <1>10
<1> QED BY <1>8, <1>10, <1>11 DEF JoinCounter, Busy

\* What the forms do to the flags of the round and to the cancellations.
LEMMA WorkedFlags ==
  ASSUME IInv, NEW w \in Workers, Worked(w)
  PROVE  /\ aborting' \in BOOLEAN /\ fatal' \in BOOLEAN /\ failures' \in BOOLEAN
         /\ faults' \in 0..MaxFaults /\ (faults' = 0 => faults = 0 /\ failures' = failures)
         /\ cancelled' \subseteq Tasks /\ (Main \in cancelled' <=> Main \in cancelled)
         /\ \/ aborting' = aborting /\ fatal' = fatal
            \/ Stopped(w) /\ ~fatal /\ fatal' /\ aborting'
         /\ fatal' = fatal => cancelled' \subseteq cancelled
         /\ w \in cancelled' => w \in cancelled /\ pc[w] = "get" /\ ~Taken(w)
<1>1. /\ aborting \in BOOLEAN /\ fatal \in BOOLEAN /\ failures \in BOOLEAN
      /\ faults \in 0..MaxFaults /\ cancelled \subseteq Tasks
      /\ w \in Tasks \ {Main} /\ Alive \subseteq Tasks \ {Main}
  BY Working, SchedulerAssumption DEF IInv, TypeOK, Alive, Tasks
<1>2. CASE Taken(w) \/ Skipped(w)
  <2>1. Plain /\ UNCHANGED cancelled /\ pc[w] = "get" /\ (Taken(w) => w \notin cancelled)
    BY <1>2 DEF Taken, Skipped
  <2> QED BY <1>1, <2>1 DEF Plain
<1>3. CASE Continued(w) \/ Requeued(w) \/ Withdrawn(w)
  <2>1. Plain /\ cancelled' = cancelled \ {w}
    BY <1>3 DEF Continued, Requeued, Withdrawn
  <2> QED BY <1>1, <2>1 DEF Plain
<1>4. CASE Dropped(w)
  BY <1>1, <1>4 DEF Dropped
<1>5. CASE Stopped(w)
  <2>1. UNCHANGED <<failures, faults>>
        /\ IF fatal THEN cancelled' = cancelled \ {w} /\ UNCHANGED <<fatal, aborting>>
           ELSE fatal' = TRUE /\ aborting' = TRUE /\ cancelled' = (cancelled \cup Alive) \ {w}
    BY <1>5 DEF Stopped, StopForFatal
  <2>2. fatal => cancelled' = cancelled \ {w} /\ UNCHANGED <<fatal, aborting>>
    BY <2>1
  <2>3. ~fatal => fatal' = TRUE /\ aborting' = TRUE /\ cancelled' = (cancelled \cup Alive) \ {w}
    BY <2>1
  <2>4. CASE fatal
    BY <1>1, <2>1, <2>2, <2>4
  <2>5. CASE ~fatal
    <3>1. fatal' # fatal /\ fatal' /\ aborting'
      BY <2>3, <2>5
    <3> QED BY <1>1, <1>5, <2>1, <2>3, <2>5, <3>1
  <2> QED BY <2>4, <2>5
<1> QED BY <1>2, <1>3, <1>4, <1>5 DEF Worked

\* A step of a worker keeps the types and the lock.
LEMMA WorkedTypes ==
  ASSUME IInv, NEW w \in Workers, Worked(w)
  PROVE  TypeOK' /\ Locking'
<1>1. Controller' /\ Locking'
  BY Working, TurnLocking DEF IInv
<1>2. Scheduling'
  <2>1. /\ pc' \in [Tasks -> MainPcs \cup WorkerPcs] /\ pc'[Main] \in MainPcs
        /\ job' \in [Workers -> Jobs \cup {None}]
        /\ \A v \in Workers : pc'[v] \in WorkerPcs
    BY Working DEF IInv, TypeOK
  <2>2. queue' \in Seq(Jobs \cup {None}) /\ unfinished' \in Nat
    BY WorkedCounter
  <2>3. todo' \in Seq(R!Planning) /\ cancels' \in 0..MaxCancels
    BY Working DEF IInv, TypeOK
  <2> QED BY <2>1, <2>2, <2>3, WorkedFlags DEF Scheduling
<1>3. TypeOK'
  BY <1>1, <1>2 DEF TypeOK, Controller, Scheduling
<1> QED BY <1>1, <1>3

\* The job at the head of a dispatching queue is the worker's alone.
LEMMA TakenJob ==
  ASSUME IInv, NEW w \in Workers, Taken(w)
  PROVE  LET j == Head(queue)
         IN /\ JobCurrent(j) /\ j # None /\ Live
            /\ \A v \in Workers : job[v] # None => job[v].id.unit # j.id.unit
            /\ \A k \in DOMAIN queue : queue[k].id.unit = j.id.unit => k = 1
<1>1. pc[Main] = "join" /\ ~Draining /\ queue # <<>> /\ Head(queue) \in Jobs
  BY DEF Taken
<1>2. 1 \in DOMAIN queue /\ queue[1] = Head(queue)
  BY <1>1, HeadOf DEF IInv, TypeOK
<1> QED BY <1>1, <1>2, SchedulerAssumption DEF IInv, QueuedJobsCurrent, Draining, Live

\* Every task still applies the event of its place.
LEMMA WorkedCalls ==
  ASSUME IInv, NEW w \in Workers, Worked(w)
  PROVE  WorkerCalls' /\ MainCall'
<1>1. \A v \in Workers : WorkerCall(v)'
  <2> SUFFICES ASSUME NEW v \in Workers \ {w} PROVE WorkerCall(v)'
    BY Working
  <2>1. WorkerCall(v)
    BY DEF IInv, WorkerCalls
  <2> QED BY <2>1, Working DEF WorkerCall
<1>2. ASSUME NEW u \in Workers, NEW v \in Workers, job'[u] # None, job'[v] # None,
             job'[u].id.unit = job'[v].id.unit
      PROVE  u = v
  <2>1. \A s \in Workers \ {w} : job'[s] = job[s]
    BY Working
  <2>2. job'[w] = None \/ job'[w] = job[w] \/ (Taken(w) /\ job'[w] = Head(queue))
    BY Working
  <2>3. CASE job'[w] = None \/ job'[w] = job[w]
    BY <1>2, <2>1, <2>3 DEF IInv, WorkerCalls
  <2>4. CASE Taken(w) /\ job'[w] = Head(queue)
    <3>1. \A s \in Workers : job[s] # None => job[s].id.unit # job'[w].id.unit
      BY <2>4, TakenJob
    <3> QED BY <1>2, <2>1, <3>1 DEF IInv, WorkerCalls
  <2> QED BY <2>2, <2>3, <2>4
<1>3. MainCall'
  <2>1. pc'[Main] = pc[Main] /\ call'[Main] = call[Main] /\ todo' = todo
    BY Working
  <2> QED BY <2>1 DEF IInv, MainCall
<1>4. WorkerCalls'
  BY <1>1, <1>2 DEF WorkerCalls
<1> QED BY <1>3, <1>4

\* A worker that steps was alive.
LEMMA WorkedPool ==
  ASSUME IInv, NEW w \in Workers, Worked(w)
  PROVE  Pool'
<1>1. /\ pc'[Main] = pc[Main] /\ snapshot' = snapshot /\ Alive' \subseteq Alive /\ w \in Alive
      /\ \A v \in Workers \ {w} : pc'[v] = pc[v]
  BY Working
<1>2. pc[w] \in WorkerPcs /\ queue \in Seq(Jobs \cup {None})
  BY DEF IInv, TypeOK
<1>3. (Alive' # {} /\ pc[Main] \in Winding) => aborting'
  BY <1>1, WorkedFlags DEF IInv, Pool
<1>4. ASSUME pc[Main] = "gather"
      PROVE  pc'[w] \in {"get", "done"}
  <2>1. pc[w] \in {"get", "done"}
    BY <1>4 DEF IInv, Pool
  <2>2. job[w] = None
    BY <2>1 DEF IInv, WorkerCalls, WorkerCall
  <2>3. Skipped(w) \/ Withdrawn(w)
    BY <1>4, <2>1, <2>2 DEF Worked, Taken, Continued, Dropped, Requeued, Stopped
  <2>4. pc \in [Tasks -> MainPcs \cup WorkerPcs] /\ w \in Tasks
    BY Working DEF IInv, TypeOK
  <2> QED BY <2>3, <2>4 DEF Skipped, Withdrawn, Moves
<1>5. ASSUME NEW k \in DOMAIN queue'
      PROVE  queue'[k] # None <=> pc[Main] = "join"
  <2>1. \A l \in DOMAIN queue : queue[l] # None <=> pc[Main] = "join"
    BY DEF IInv, Pool
  <2>2. CASE queue' = queue
    BY <1>5, <2>1, <2>2
  <2>3. CASE queue # <<>> /\ queue' = Tail(queue)
    BY <1>5, <2>1, <2>3, QueueTail DEF IInv
  <2>4. CASE Requeued(w)
    <3> DEFINE n == NextJob(job[w].id.unit)
    <3>1. n \in Jobs /\ n # None /\ pc[Main] = "join"
      BY <2>4, Requeues
    <3>2. queue' = Append(queue, n)
      BY <2>4 DEF Requeued
    <3> HIDE DEF n
    <3>3. /\ \A l \in DOMAIN queue : l \in DOMAIN queue' /\ queue'[l] = queue[l]
          /\ \A l \in DOMAIN queue' \ DOMAIN queue : queue'[l] = n
      BY <3>1, <3>2, QueueAppend DEF IInv
    <3> QED BY <1>5, <2>1, <3>1, <3>3
  <2>5. CASE queue' = <<>>
    BY <1>5, <2>5
  <2> QED BY <2>2, <2>3, <2>4, <2>5 DEF Worked, Taken, Skipped, Continued, Dropped, Requeued, Stopped,
             StopForFatal, Withdrawn
<1>6. ASSUME fatal' PROVE snapshot'.status = "failed"
  <2>1. CASE fatal
    BY <1>1, <2>1 DEF IInv, Pool
  <2>2. CASE ~fatal
    <3>1. Stopped(w)
      BY <1>6, <2>2, WorkedFlags
    <3>2. pc[w] = "fail" /\ Applied(w) /\ w \in Tasks
      BY <3>1, Working DEF Stopped
    <3>3. call[w] = Event("RunFailed", None) /\ snapshot.status = Leaving(call[w])
      BY <3>2 DEF IInv, WorkerCalls, WorkerCall, Locking
    <3>4. call[w].type = "RunFailed"
      BY <3>3 DEF Event
    <3>5. snapshot.status = "failed"
      BY <3>3, <3>4 DEF Leaving
    <3> QED BY <1>1, <3>5
  <2> QED BY <2>1, <2>2
<1>7. Alive' # {} => pc'[Main] \in {"join", "gather"} \cup Winding
  BY <1>1 DEF IInv, Pool
<1>8. pc'[Main] = "gather" => \A v \in Workers : pc'[v] \in {"get", "done"}
  BY <1>1, <1>4 DEF IInv, Pool
<1>9. pc'[Main] = "cancel_gather" => ~Live'
  BY <1>1 DEF IInv, Pool, Live
<1> QED BY <1>1, <1>3, <1>5, <1>6, <1>7, <1>8, <1>9 DEF Pool, Winding

\* The queued jobs stay current, the job queued again among them.
LEMMA WorkedQueue ==
  ASSUME IInv, NEW w \in Workers, Worked(w)
  PROVE  QueuedJobsCurrent'
<1>1. /\ pc'[Main] = pc[Main] /\ snapshot' = snapshot /\ \A v \in Workers \ {w} : job'[v] = job[v]
      /\ job'[w] = None \/ job'[w] = job[w] \/ (Taken(w) /\ job'[w] = Head(queue))
  BY Working
<1> SUFFICES ASSUME pc[Main] = "join", ~aborting', snapshot'.status = "active",
                    NEW k \in DOMAIN queue'
             PROVE  /\ JobCurrent(queue'[k])
                    /\ \A l \in DOMAIN queue' : queue'[l].id.unit = queue'[k].id.unit => l = k
                    /\ \A v \in Workers : job'[v] # None => job'[v].id.unit # queue'[k].id.unit
  <2>3. ASSUME NEW l PROVE JobCurrent(queue[l])' <=> JobCurrent(queue'[l])
    BY <1>1 DEF JobCurrent, NextJob, UnitStatus, R!Active
  <2> QED BY <1>1, <2>3 DEF QueuedJobsCurrent, Draining
<1>2. Live /\ ~aborting /\ ~Draining /\ ~fatal /\ aborting' = aborting /\ fatal' = fatal
  BY <1>1, WorkedFlags DEF IInv, Pool, Live, Draining
<1>3. ~Stopped(w) \/ queue' = queue
  BY <1>2 DEF Stopped, StopForFatal
<1>4. \A l \in DOMAIN queue :
        /\ JobCurrent(queue[l])
        /\ \A m \in DOMAIN queue : queue[m].id.unit = queue[l].id.unit => m = l
        /\ \A v \in Workers : job[v] # None => job[v].id.unit # queue[l].id.unit
  BY <1>2 DEF IInv, QueuedJobsCurrent
<1>5. CASE Taken(w)
  <2>1. /\ \A l \in DOMAIN queue' : l + 1 \in DOMAIN queue \ {1} /\ queue'[l] = queue[l + 1]
        /\ Head(queue) = queue[1] /\ 1 \in DOMAIN queue
        /\ queue' \in Seq(Jobs \cup {None})
    BY <1>5, QueueTail DEF IInv, Taken
  <2>2. \A l \in DOMAIN queue' : l \in Nat
    BY <2>1
  <2>3. job'[w] = Head(queue) \/ job'[w] = None \/ job'[w] = job[w]
    BY <1>1
  <2>4. \A v \in Workers : job'[v] # None => job'[v] = job[v] \/ job'[v] = queue[1]
    BY <1>1, <2>1, <2>3
  <2>5. queue[1].id.unit # queue[k + 1].id.unit
    BY <1>4, <2>1, <2>2
  <2>6. ASSUME NEW v \in Workers, job'[v] # None
        PROVE  job'[v].id.unit # queue'[k].id.unit
    <3>1. job'[v] = job[v] \/ job'[v] = queue[1]
      BY <2>4, <2>6
    <3>2. queue'[k] = queue[k + 1] /\ k + 1 \in DOMAIN queue
      BY <2>1
    <3>3. CASE job'[v] = job[v]
      BY <1>4, <2>6, <3>2, <3>3
    <3>4. CASE job'[v] = queue[1]
      BY <2>5, <3>2, <3>4
    <3> QED BY <3>1, <3>3, <3>4
  <2>7. ASSUME NEW l \in DOMAIN queue', queue'[l].id.unit = queue'[k].id.unit PROVE l = k
    <3>1. l + 1 = k + 1
      BY <1>4, <2>1, <2>7
    <3> QED BY <2>2, <3>1
  <2> QED BY <1>4, <2>1, <2>6, <2>7
<1>6. CASE Skipped(w)
  <2>1. /\ \A l \in DOMAIN queue' : l + 1 \in DOMAIN queue \ {1} /\ queue'[l] = queue[l + 1]
        /\ queue' \in Seq(Jobs \cup {None})
    BY <1>6, QueueTail DEF IInv, Skipped
  <2>2. \A l \in DOMAIN queue' : l \in Nat
    BY <2>1
  <2>3. \A v \in Workers : job'[v] # None => job'[v] = job[v]
    <3>1. ~Taken(w) \/ job'[w] = None
      <4>1. \E at : Moves(w, at, None, None)
        BY <1>6 DEF Skipped
      <4>2. job'[w] = None
        BY <4>1 DEF Moves, IInv, TypeOK
      <4> QED BY <4>2
    <3> QED BY <1>1, <3>1
  <2>4. ASSUME NEW l \in DOMAIN queue', queue'[l].id.unit = queue'[k].id.unit PROVE l = k
    <3>1. l + 1 = k + 1
      BY <1>4, <2>1, <2>4
    <3> QED BY <2>2, <3>1
  <2> QED BY <1>4, <2>1, <2>3, <2>4
<1>7. CASE Requeued(w)
  <2> DEFINE u == job[w].id.unit
             n == NextJob(job[w].id.unit)
  <2>1. JobCurrent(n) /\ n \in Jobs /\ n.id.unit = u /\ job[w] # None
    BY <1>7, Requeues DEF Requeued
  <2>2. queue' = Append(queue, n) /\ job'[w] = None
    BY <1>7 DEF Requeued, Moves, IInv, TypeOK
  <2> HIDE DEF n
  <2>3. /\ \A l \in DOMAIN queue : l \in DOMAIN queue' /\ queue'[l] = queue[l]
        /\ \A l \in DOMAIN queue' \ DOMAIN queue : queue'[l] = n /\ l = Len(queue')
    BY <2>1, <2>2, QueueAppend DEF IInv
  <2>4. \A v \in Workers : job'[v] # None => v # w /\ job'[v] = job[v]
    BY <1>1, <2>2
  <2>5. \A l \in DOMAIN queue : queue[l].id.unit # u
    BY <1>4, <2>1
  <2>6. \A v \in Workers : job'[v] # None => job'[v].id.unit # u
    <3> SUFFICES ASSUME NEW v \in Workers, job'[v] # None, job'[v].id.unit = u PROVE FALSE
      OBVIOUS
    <3>1. v # w /\ job[v] # None /\ job[v].id.unit = u
      BY <2>4
    <3> QED BY <2>1, <3>1 DEF IInv, WorkerCalls
  <2> HIDE DEF u
  <2>7. CASE k \in DOMAIN queue
    BY <1>4, <2>1, <2>3, <2>4, <2>5, <2>7
  <2>8. CASE k \notin DOMAIN queue
    BY <2>1, <2>3, <2>5, <2>6, <2>8
  <2> QED BY <2>7, <2>8
<1>8. CASE Continued(w) \/ Dropped(w) \/ Stopped(w) \/ Withdrawn(w)
  <2>1. queue' = queue
    BY <1>3, <1>8 DEF Continued, Dropped, Withdrawn
  <2>2. ~Taken(w)
    <3>1. CASE Continued(w) \/ Dropped(w) \/ Stopped(w)
      <4>1. job[w] # None
        BY <3>1 DEF Continued, Dropped, Stopped
      <4> QED BY <4>1 DEF Taken, IInv, WorkerCalls, WorkerCall
    <3>2. CASE Withdrawn(w)
      BY <3>2 DEF Withdrawn, Taken
    <3> QED BY <1>8, <3>1, <3>2
  <2>3. \A v \in Workers : job'[v] # None => job'[v] = job[v]
    BY <1>1, <2>2
  <2> QED BY <1>4, <2>1, <2>3
<1> QED BY <1>5, <1>6, <1>7, <1>8 DEF Worked

\* The progress of the workers, the one that stepped included.
LEMMA WorkedProgress ==
  ASSUME IInv, NEW w \in Workers, Worked(w)
  PROVE  WorkersProgress'
<1>1. /\ snapshot' = snapshot /\ ~Applied(w)' /\ w \in Tasks
      /\ \A v \in Workers \ {w} : /\ pc'[v] = pc[v] /\ job'[v] = job[v]
                                  /\ Applied(v)' <=> Applied(v)
  BY Working
<1>2. \A j : JobCurrent(j) => Strategy[j.id.unit] = "model" /\ Phase = "generating_units"
  BY DEF JobCurrent, R!Active, Phase
<1> SUFFICES ASSUME Live, NEW v \in Workers, job'[v] # None
             PROVE  WorkerProgress(v)'
  BY <1>1 DEF WorkersProgress, Live
<1>3. \A j : JobCurrent(j)' <=> JobCurrent(j)
  BY <1>1 DEF JobCurrent, NextJob, UnitStatus, R!Active
<1>4. CASE v # w
  <2>1. WorkerProgress(v) /\ pc'[v] = pc[v] /\ job'[v] = job[v] /\ (Applied(v)' <=> Applied(v))
    BY <1>1, <1>4 DEF IInv, WorkersProgress
  <2>2. JobCurrent(job[v])' <=> JobCurrent(job[v])
    BY <1>1, <2>1 DEF JobCurrent, NextJob, UnitStatus, R!Active
  <2> QED BY <1>1, <2>1, <2>2 DEF WorkerProgress, Phase, Unit, R!InFlight
<1>5. CASE v = w /\ Taken(w)
  <2> DEFINE j == Head(queue)
  <2>1. JobCurrent(j)
    BY <1>5, TakenJob
  <2>2. pc'[w] = "start" /\ job'[w] = j
    BY <1>1, <1>5 DEF Taken, Moves, IInv, TypeOK
  <2>3. JobCurrent(job[w])'
    BY <1>1, <2>1, <2>2 DEF JobCurrent, NextJob, UnitStatus, R!Active
  <2>4. Strategy[job'[w].id.unit] = "model" /\ Phase' = "generating_units"
    BY <1>1, <1>2, <2>1, <2>2 DEF Phase
  <2> QED BY <1>1, <1>5, <2>2, <2>3, <2>4 DEF WorkerProgress
<1>6. CASE v = w /\ ~Taken(w)
  <2>1. Continued(w)
    <3>1. \A at, e : Moves(w, at, e, None) => job'[w] = None
      BY <1>1 DEF Moves, IInv, TypeOK
    <3> QED BY <1>6, <3>1 DEF Worked, Skipped, Dropped, Requeued, Stopped, Withdrawn
  <2>2. /\ job[w] # None /\ (pc[w] # "generate" => Applied(w))
        /\ \/ pc[w] = "start" /\ Moves(w, "generate", None, job[w])
           \/ /\ pc[w] = "generate"
              /\ Moves(w, "validate", Event("UnitValidationStarted", job[w].id), job[w])
           \/ /\ pc[w] \in {"generate", "validate"}
              /\ Moves(w, "invalid", Event("CandidateInvalid", job[w].id), job[w])
           \/ /\ pc[w] = "validate"
              /\ Moves(w, "ready", Event("CandidateReady", job[w].id), job[w])
           \/ /\ pc[w] = "invalid" /\ BudgetSpent(job[w].id.unit)
              /\ Moves(w, "exhaust", Event("RoundExhausted", job[w].id.unit), job[w])
           \/ /\ pc[w] \in {"generate", "validate"}
              /\ Moves(w, "fail", Event("RunFailed", None), job[w])
    BY <2>1 DEF Continued
  <2>3. \A at, e : Moves(w, at, e, job[w]) => pc'[w] = at /\ job'[w] = job[w]
    BY <1>1 DEF Moves, IInv, TypeOK
  <2>4. /\ job'[w] = job[w]
        /\ \/ pc[w] = "start" /\ pc'[w] = "generate"
           \/ pc[w] = "generate" /\ pc'[w] = "validate"
           \/ pc[w] \in {"generate", "validate"} /\ pc'[w] = "invalid"
           \/ pc[w] = "validate" /\ pc'[w] = "ready"
           \/ pc[w] = "invalid" /\ pc'[w] = "exhaust" /\ BudgetSpent(job[w].id.unit)
           \/ pc[w] \in {"generate", "validate"} /\ pc'[w] = "fail"
    BY <2>2, <2>3
  <2>5. WorkerProgress(w)
    BY <2>2 DEF IInv, WorkersProgress
  <2> DEFINE u == Unit(job[w].id.unit)
  <2>6. /\ Strategy[job[w].id.unit] = "model" /\ Phase = "generating_units"
        /\ pc[w] = "start" => u.status = "generating" /\ u.expected = job[w].id
        /\ pc[w] = "generate" => u.status = "generating" /\ u.expected = job[w].id
        /\ pc[w] = "validate" => u.status = "validating" /\ u.expected = job[w].id
        /\ pc[w] = "invalid" => u.status = "pending" /\ u.issues = "local"
    BY <2>2, <2>5 DEF WorkerProgress
  <2>7. u' = u /\ Phase' = Phase
    BY <1>1, <2>4 DEF Unit, Phase
  <2>8. BudgetSpent(job[w].id.unit) => u.attempt = LocalMax
    BY DEF BudgetSpent, Unit
  <2> HIDE DEF u
  <2>9. Unit(job[w].id.unit)' = u
    BY <1>1, <2>4 DEF Unit, u
  <2> QED BY <1>1, <1>6, <2>4, <2>6, <2>7, <2>8, <2>9 DEF WorkerProgress, R!InFlight
<1> QED BY <1>4, <1>5, <1>6

\* The orchestrator does not move.
LEMMA WorkedMain ==
  ASSUME IInv, NEW w \in Workers, Worked(w)
  PROVE  MainProgress' /\ Ends' /\ Orphans'
<1>1. /\ pc'[Main] = pc[Main] /\ snapshot' = snapshot /\ todo' = todo /\ call'[Main] = call[Main]
      /\ (Applied(Main)' <=> Applied(Main)) /\ Alive' \subseteq Alive
  BY Working
<1>2. MainProgress'
  BY <1>1 DEF IInv, MainProgress, Live, Phase, Recovering, Determined, Listed, Repairing, Between,
     Untouched, Unit, DeterministicId, R!Planning, R!RoundEnded, R!AllIn, R!NewRun, R!NewUnit,
     R!BeginGeneration, R!CanBeginGlobalRepair, R!Active
<1>3. Ends' /\ Orphans'
  BY <1>1 DEF IInv, Ends, Orphans, Ended, R!Active
<1> QED BY <1>2, <1>3

\* Its cancellation does not move either.
LEMMA WorkedRecording ==
  ASSUME IInv, NEW w \in Workers, Worked(w)
  PROVE  Recording'
<1>1. /\ pc'[Main] = pc[Main] /\ snapshot' = snapshot /\ call'[Main] = call[Main]
      /\ tx'[Main] = tx[Main] /\ Alive' \subseteq Alive /\ cancels' = cancels
  BY Working
<1>2. Main \in cancelled' <=> Main \in cancelled
  BY WorkedFlags
<1> QED BY <1>1, <1>2 DEF IInv, Recording, CancelBeforeLastAwaitIsRecorded, Live

\* The unit of the job is queued, held, or ended its round.
LEMMA WorkedFaultless ==
  ASSUME IInv, NEW w \in Workers, Worked(w)
  PROVE  Faultless'
<1>1. /\ pc'[Main] = pc[Main] /\ snapshot' = snapshot /\ w \in Tasks
      /\ (Applied(Main)' <=> Applied(Main))
      /\ \A v \in Workers \ {w} : /\ pc'[v] = pc[v] /\ job'[v] = job[v]
                                  /\ Applied(v)' <=> Applied(v)
  BY Working
<1> SUFFICES ASSUME faults' = 0 PROVE Faultless'
  BY DEF Faultless
<1>2. faults = 0 /\ failures' = failures
  BY WorkedFlags
<1>3. /\ ~failures' /\ pc'[Main] # "error"
      /\ pc'[Main] \in Leading => Live' \/ (pc'[Main] \in {"det_fail", "fail_run"} /\ Applied(Main)')
  BY <1>1, <1>2 DEF IInv, Faultless, Live
<1>4. ASSUME pc[Main] \in {"join", "gather"}, ~fatal'
      PROVE  /\ ~aborting'
             /\ Live' \/ \E v \in Workers : pc'[v] = "fail" /\ Applied(v)'
             /\ \A v \in cancelled' \cap Workers : pc'[v] \in {"get", "done"}
             /\ Live' => \A u \in R!Planning : Unit(u)'.status \in R!RoundEnded \/ Held(u)'
  <2>1. aborting' = aborting /\ fatal' = fatal /\ ~fatal
    BY <1>4, WorkedFlags DEF IInv, TypeOK
  <2>2. /\ ~aborting /\ (Live \/ \E v \in Workers : pc[v] = "fail" /\ Applied(v))
        /\ \A v \in cancelled \cap Workers : pc[v] \in {"get", "done"}
        /\ Live => \A u \in R!Planning : Unit(u).status \in R!RoundEnded \/ Held(u)
    BY <1>2, <1>4, <2>1 DEF IInv, Faultless
  <2>3. ~Stopped(w)
    <3>1. CASE Stopped(w)
      <4>1. pc[w] = "fail" /\ Applied(w)
        BY <3>1 DEF Stopped
      <4>2. fatal'
        BY <2>1, <3>1 DEF Stopped, StopForFatal
      <4> QED BY <1>4, <4>2
    <3> QED BY <3>1
  <2>4. ASSUME Dropped(w)
        PROVE  \/ ~Live /\ ~Applied(w)
               \/ /\ Live /\ pc[w] \in {"invalid", "exhaust", "ready"}
                  /\ Applied(w) /\ UnitStatus(job[w].id.unit) # "pending"
               \/ ~Live /\ pc[w] # "fail"
    <3>1. w \notin cancelled
      BY <2>2, <2>4 DEF Dropped
    <3> QED BY <1>2, <2>2, <2>4, <3>1, WorkedFlags DEF Dropped, Draining, Live
  <2>5. Live' \/ \E v \in Workers : pc'[v] = "fail" /\ Applied(v)'
    <3>1. CASE Live
      BY <1>1, <3>1 DEF Live
    <3>2. CASE ~Live
      <4>1. PICK v \in Workers : pc[v] = "fail" /\ Applied(v)
        BY <2>2, <3>2
      <4>2. v # w
        <5>1. ASSUME pc[w] = "fail", Applied(w) PROVE FALSE
          <6>1. ~Dropped(w)
            BY <2>4, <3>2, <5>1
          <6>2. ~Taken(w) /\ ~Skipped(w) /\ ~Continued(w) /\ ~Requeued(w) /\ ~Withdrawn(w)
            BY <5>1 DEF Taken, Skipped, Continued, Requeued, Withdrawn
          <6> QED BY <2>3, <6>1, <6>2 DEF Worked
        <5> QED BY <4>1, <5>1
      <4> QED BY <1>1, <4>1, <4>2
    <3> QED BY <3>1, <3>2
  <2>6. ASSUME NEW v \in cancelled' \cap Workers
        PROVE  pc'[v] \in {"get", "done"}
    <3>1. v \in cancelled
      BY <2>1, WorkedFlags
    <3>2. CASE v # w
      BY <1>1, <2>2, <3>1, <3>2
    <3>3. CASE v = w
      <4>1. pc[w] = "get" /\ ~Taken(w)
        BY <2>6, <3>3, WorkedFlags
      <4>2. job[w] = None
        BY <4>1 DEF IInv, WorkerCalls, WorkerCall
      <4>3. Skipped(w) \/ Withdrawn(w)
        BY <4>1, <4>2 DEF Worked, Continued, Dropped, Requeued, Stopped
      <4>4. pc \in [Tasks -> MainPcs \cup WorkerPcs]
        BY DEF IInv, TypeOK
      <4> QED BY <1>1, <3>3, <4>3, <4>4 DEF Skipped, Withdrawn, Moves
    <3> QED BY <3>2, <3>3
  <2>7. ASSUME Live, NEW u \in R!Planning
        PROVE  Unit(u).status \in R!RoundEnded \/ Held(u)'
    <3>1. Unit(u).status \in R!RoundEnded \/ Held(u)
      BY <2>2, <2>7
    <3> SUFFICES ASSUME Held(u), Unit(u).status \notin R!RoundEnded PROVE Held(u)'
      BY <3>1
    <3>2. \/ \E k \in DOMAIN queue : queue[k] # None /\ queue[k].id.unit = u
          \/ \E v \in Workers : job[v] # None /\ job[v].id.unit = u
      BY DEF Held
    <3>3. ~Draining
      BY <2>2, <2>7 DEF Draining, Live
    <3>4. \A at, e, j : Moves(w, at, e, j) => job'[w] = j
      BY <1>1 DEF Moves, IInv, TypeOK
    <3>5. CASE Taken(w) \/ Skipped(w)
      <4>1. /\ \A l \in DOMAIN queue \ {1} : l - 1 \in DOMAIN queue' /\ queue'[l - 1] = queue[l]
            /\ Head(queue) = queue[1]
        BY <3>5, QueueTail DEF IInv, Taken, Skipped
      <4>2. job[w] = None
        BY <3>5 DEF Taken, Skipped, IInv, WorkerCalls, WorkerCall
      <4>3. CASE \E v \in Workers : job[v] # None /\ job[v].id.unit = u
        BY <1>1, <4>2, <4>3 DEF Held
      <4>4. CASE \E k \in DOMAIN queue : queue[k] # None /\ queue[k].id.unit = u
        <5>1. PICK k \in DOMAIN queue : queue[k] # None /\ queue[k].id.unit = u
          BY <4>4
        <5>2. CASE k # 1
          BY <4>1, <5>1, <5>2 DEF Held
        <5>3. CASE k = 1
          <6>1. Taken(w)
            BY <3>3, <3>5, <4>1, <5>1, <5>3 DEF Skipped
          <6>2. job'[w] = queue[1]
            BY <3>4, <4>1, <6>1 DEF Taken
          <6> QED BY <5>1, <5>3, <6>2 DEF Held
        <5> QED BY <5>2, <5>3
      <4> QED BY <3>2, <4>3, <4>4
    <3>6. CASE Continued(w) \/ Withdrawn(w)
      <4>1. queue' = queue
        BY <3>6 DEF Continued, Withdrawn
      <4>2. job'[w] = job[w]
        <5>1. CASE Continued(w)
          <6>1. \E at, e : Moves(w, at, e, job[w])
            BY <5>1 DEF Continued
          <6> QED BY <3>4, <6>1
        <5>2. CASE Withdrawn(w)
          <6>1. Moves(w, "done", None, None) /\ pc[w] = "get"
            BY <5>2 DEF Withdrawn
          <6>2. job[w] = None
            BY <6>1 DEF IInv, WorkerCalls, WorkerCall
          <6> QED BY <3>4, <6>1, <6>2
        <5> QED BY <3>6, <5>1, <5>2
      <4>3. \A v \in Workers : job'[v] = job[v]
        BY <1>1, <4>2
      <4> QED BY <3>2, <4>1, <4>3 DEF Held
    <3>7. CASE Dropped(w)
      <4>1. /\ pc[w] \in {"invalid", "exhaust", "ready"} /\ Applied(w) /\ job[w] # None
            /\ UnitStatus(job[w].id.unit) # "pending" /\ queue' = queue
        BY <2>4, <2>7, <3>7 DEF Dropped
      <4>2. WorkerProgress(w)
        BY <2>7, <4>1 DEF IInv, WorkersProgress
      <4>3. Unit(job[w].id.unit).status \in R!RoundEnded
        BY <4>1, <4>2 DEF WorkerProgress, UnitStatus, Unit, R!RoundEnded
      <4>4. job[w].id.unit # u
        BY <4>3
      <4> QED BY <1>1, <3>2, <4>1, <4>4 DEF Held
    <3>8. CASE Requeued(w)
      <4> DEFINE n == NextJob(job[w].id.unit)
      <4>1. n \in Jobs /\ n # None /\ n.id.unit = job[w].id.unit
        BY <3>8, Requeues
      <4>2. queue' = Append(queue, n)
        BY <3>8 DEF Requeued
      <4> HIDE DEF n
      <4>3. /\ \A l \in DOMAIN queue : l \in DOMAIN queue' /\ queue'[l] = queue[l]
            /\ \A l \in DOMAIN queue' \ DOMAIN queue : queue'[l] = n
            /\ Len(queue') \in DOMAIN queue' \ DOMAIN queue
        BY <4>1, <4>2, QueueAppend DEF IInv
      <4>4. CASE job[w].id.unit = u
        BY <4>1, <4>3, <4>4 DEF Held
      <4>5. CASE job[w].id.unit # u
        BY <1>1, <3>2, <4>3, <4>5 DEF Held
      <4> QED BY <4>4, <4>5
    <3> QED BY <2>3, <3>5, <3>6, <3>7, <3>8 DEF Worked
  <2>8. ASSUME Live', NEW u \in R!Planning
        PROVE  Unit(u)'.status \in R!RoundEnded \/ Held(u)'
    <3>1. Live /\ Unit(u)' = Unit(u)
      BY <1>1, <2>8 DEF Live, Unit
    <3> QED BY <2>7, <3>1
  <2> QED BY <2>1, <2>2, <2>5, <2>6, <2>8
<1>5. (R!RoundEnded)' = R!RoundEnded /\ (R!Planning)' = R!Planning
  BY DEF R!RoundEnded, R!Planning
<1> QED BY <1>1, <1>3, <1>4, <1>5 DEF Faultless

\* Every step of a worker keeps the invariant.
LEMMA WorkerStepKeeps ==
  ASSUME IInv, NEW w \in Workers, WorkerStep(w)
  PROVE  IInv'
<1>1. Worked(w)
  BY WorkerForm
<1>2. Snapshots'
  BY <1>1, Working, SnapshotsStep DEF IInv
<1>3. TypeOK' /\ Locking' /\ WorkerCalls' /\ MainCall' /\ Pool' /\ QueuedJobsCurrent' /\ JoinCounter'
  BY <1>1, WorkedTypes, WorkedCalls, WorkedPool, WorkedQueue, WorkedCounter
<1>4. WorkersProgress' /\ MainProgress' /\ Ends' /\ Orphans' /\ Recording' /\ Faultless'
  BY <1>1, WorkedProgress, WorkedMain, WorkedRecording, WorkedFaultless
<1> QED BY <1>2, <1>3, <1>4 DEF IInv

==============================================================================

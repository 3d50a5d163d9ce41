-------------------------- MODULE RunLifecycleProofs --------------------------
(***************************************************************************)
(* Proofs about RunLifecycle for any set of run ids and any number of      *)
(* plans, requests and faults.                                             *)
(*                                                                         *)
(* Each view of a run is kept by other code, so the properties hold        *)
(* because of what the views say of each other: how far the stream is      *)
(* bounds what its workers may do (Stages); an execution that the document *)
(* lists is one of a plan, and every plan that is not closed has one       *)
(* (Entries); a retried run's child remembers whose entry it took over     *)
(* (Children); and the lock and the answer to a stop agree with both       *)
(* (Releases).  The lemmas ...Step keep one of these parts each, with one  *)
(* step per handler or group of handlers.                                  *)
(***************************************************************************)
EXTENDS RunLifecycle, FiniteSetTheorems, TLAPS

------------------------------------------------------------------------------
(* The inductive invariant *)

\* Active or archived: an entry of its plan in the lifecycle document.
Entry(r) == Listed(r) \/ r \in archive

\* How far a run is says what its workers may do, and how its graph ended.
Stages ==
  \A r \in Runs :
    /\ task[r] = "idle" <=> plan[r] = None
    /\ task[r] \in {"idle", "handed", "prepared"} => work[r] = "idle"
    /\ task[r] \in {"draining", "closing", "owing"} => r \in fence
    /\ task[r] = "owing" => work[r] # "busy"
    /\ control[r] \in {"stopping", "settling", "releasing"} =>
         r \in fence /\ task[r] \notin {"idle", "handed", "prepared"}
    /\ control[r] \in {"settling", "releasing"} => ~Live(r)
    /\ task[r] \in {"idle", "handed", "prepared", "running", "finishing", "cancelling"} =>
         outcome[r] # "failed"

\* A child that waits to be registered knows the run it retries, and what
\* status to give back.
Children ==
  \A c \in Runs :
    task[c] \in {"handed", "prepared"} =>
      /\ from[c].source \in Runs \ {c} /\ plan[from[c].source] = plan[c]
      /\ from[c].was \in {"failed", "stopped"}

\* The fence outlives the stop, so no worker of a stopped run begins later.
Releases ==
  /\ LockHeldByListed
  /\ \A r \in Runs : outcome[r] = "failed" /\ task[r] = "gone" => lock # r
  /\ \A r \in Runs : control[r] \in {"settling", "releasing"} => pending # r
  /\ \A r \in stopped : /\ task[r] \in {"owing", "gone", "dead"}
                        /\ work[r] # "busy" /\ (work[r] = "queued" => r \in fence)
                        /\ lock # r /\ pending # r

\* A plan is named after its first run, and has an entry until it is closed.
Entries ==
  /\ \A r \in Runs : /\ Entry(r) => plan[r] # None
                     /\ ~(Listed(r) /\ r \in archive)
                     /\ plan[r] # None => plan[plan[r]] = plan[r]
  /\ \A r, s \in Runs : Entry(r) /\ Entry(s) /\ plan[r] = plan[s] => r = s
  /\ \A p \in closed : plan[p] = p /\ \A r \in Runs : Entry(r) => plan[r] # p
  /\ \A p \in Runs : plan[p] = p /\ p \notin closed =>
       \E r \in Runs : Entry(r) /\ plan[r] = p

IInv == TypeOK /\ Stages /\ Children /\ Releases /\ Entries

------------------------------------------------------------------------------
(* The steps keep it *)

\* The types.  Only a plan that was begun is closed, and a child gives a status back.
LEMMA TypedStep ==
  ASSUME IInv, [Next]_vars
  PROVE  TypeOK'
<1>0. /\ TypeOK /\ Children /\ Entries /\ None \notin Runs
      /\ MaxRequests \in Nat /\ MaxFaults \in Nat
  BY RunLifecycleAssumption DEF IInv
<1>1. ASSUME NEW r \in Runs, Begin(r)
      PROVE  TypeOK'
  BY <1>0, <1>1 DEF Begin, Start, Goto, AtBest, Fault, history, TypeOK, Controls, Tasks, Streaming
<1>2. ASSUME NEW r \in Runs, Schedule(r) \/ WorkerBegin(r) \/ WorkerRejected(r) \/
            WorkerEnd(r)
      PROVE  TypeOK'
  BY <1>0, <1>2 DEF Schedule, WorkerBegin, WorkerRejected, WorkerEnd, Working, history,
     bounds, document, TypeOK, Controls, Tasks, Streaming
<1>3. ASSUME NEW r \in Runs, NodeBoundary(r) \/ GraphRaises(r) \/ Finish(r)
      PROVE  TypeOK'
  BY <1>0, <1>3 DEF NodeBoundary, GraphRaises, Finish, Mark, memory, history, bounds, Goto,
     document, AtBest, Finished, Fault, TypeOK, Controls, Tasks, Streaming
<1>4. ASSUME NEW r \in Runs, FailReport(r) \/ Close(r) \/ PayOwed(r)
      PROVE  TypeOK'
  BY <1>0, <1>4 DEF FailReport, Close, PayOwed, Mark, Listed, WithoutLock, AtBest, Finished,
     Fault, Goto, history, FinalWrites, TypeOK, Controls, Tasks, Streaming
<1>5. ASSUME NEW r \in Runs, Disconnect(r) \/ Cancelled(r)
      PROVE  TypeOK'
  BY <1>0, <1>5 DEF Disconnect, Cancelled, Fault, AfterCancel, Goto, document, history,
     AtBest, Finished, Mark, TypeOK, Controls, Tasks, Streaming
<1>6. ASSUME NEW r \in Runs, StopRequest(r) \/ EndRequest(r)
      PROVE  TypeOK'
  BY <1>0, <1>6 DEF StopRequest, EndRequest, Request, AfterCancel, Goto, document, history,
     Live, TypeOK, Controls, Tasks, Streaming
<1>7. ASSUME NEW r \in Runs, StopEnd(r) \/ StopRecords(r) \/ StopReleases(r)
      PROVE  TypeOK'
  BY <1>0, <1>7 DEF StopEnd, StopRecords, StopReleases, Live, Listed, Mark, WithoutLock,
     Reported, Controlled, document, bounds, TypeOK, Controls, Tasks, Streaming
<1>8. ASSUME NEW r \in Runs, StopTimeout(r) \/ EndTimeout(r) \/ PlanStop(r)
      PROVE  TypeOK'
  BY <1>0, <1>8 DEF StopTimeout, EndTimeout, PlanStop, document, history, bounds,
     Controlled, Mark, memory, Live, TypeOK, Controls, Tasks, Streaming
<1>9. ASSUME NEW r \in Runs, EndDone(r)
      PROVE  TypeOK'
  BY <1>0, <1>9 DEF EndDone, Live, Remove, WithoutLock, Listed, Controlled, document,
     bounds, TypeOK, Controls, Tasks, Streaming
<1>10. ASSUME NEW r \in Runs, Project(r) \/ RetryRequest(r) \/ RetryGiveUp(r)
      PROVE  TypeOK'
  BY <1>0, <1>10 DEF Project, RetryRequest, RetryGiveUp, Listed, Reconciled, WithoutLock,
     history, bounds, Live, Broken, document, RetryOf, TypeOK, Controls, Tasks, Streaming
<1>11. ASSUME NEW r \in Runs, RetryDismiss(r)
      PROVE  TypeOK'
  BY <1>0, <1>11 DEF RetryDismiss, RetryOf, Remove, WithoutLock, Listed, bounds, TypeOK,
     Controls, Tasks, Streaming, Entries, Entry
<1>12. ASSUME NEW r \in Runs, RetryInsert(r) \/ ChildRegister(r)
       PROVE  TypeOK'
  <2>1. NoSource \in [source : Runs \cup {None}, was : {"none", "failed", "stopped"}]
    BY DEF NoSource
  <2>2. CASE RetryInsert(r)
    BY <1>0, <2>2 DEF RetryInsert, Goto, document, history, bounds, TypeOK, Controls, Tasks
  <2>3. CASE ChildRegister(r)
    BY <1>0, <2>1, <2>3 DEF ChildRegister, Goto, document, bounds, TypeOK, Controls, Tasks, Streaming
  <2> QED BY <1>12, <2>2, <2>3
<1>13. ASSUME NEW r \in Runs, RetryAbandon(r)
      PROVE  TypeOK'
  BY <1>0, <1>13 DEF RetryAbandon, Goto, Listed, WithoutLock, Finished, bounds, TypeOK,
     Controls, Tasks, Streaming, NoSource, Children
<1>14. ASSUME NEW r \in Runs, Interrupt(r)
      PROVE  TypeOK'
  BY <1>0, <1>14 DEF Interrupt, Finished, memory, document, history, bounds, TypeOK, Controls, Tasks,
     Streaming
<1>15. ASSUME NEW r \in Runs, NEW end \in {"completed", "awaiting", "failed"}, GraphEnds(r,
            end)
      PROVE  TypeOK'
  BY <1>0, <1>15 DEF GraphEnds, Goto, Listed, Mark, Remove, WithoutLock, bounds, TypeOK,
     Controls, Tasks, Streaming, Entries, Entry
<1>16. ASSUME NEW r \in Runs, NEW p \in Runs, Resume(r, p)
      PROVE  TypeOK'
  BY <1>0, <1>16 DEF Resume, Start, Goto, AtBest, Fault, TypeOK, Controls, Tasks, Streaming
<1>17. ASSUME NEW c \in Runs, NEW s \in Runs, RetryHandoff(s, c)
      PROVE  TypeOK'
  BY <1>0, <1>17 DEF RetryHandoff, RetryOf, Reconciled, Listed, WithoutLock, Live, Goto,
     bounds, TypeOK, Controls, Tasks, Streaming
<1>18. ASSUME Crash \/ UNCHANGED vars
      PROVE  TypeOK'
  BY <1>0, <1>18 DEF Crash, Fault, vars, memory, document, history, bounds, TypeOK, Controls, Tasks,
     Streaming, NoSource
<1> QED
  BY <1>1, <1>2, <1>3, <1>4, <1>5, <1>6, <1>7, <1>8, <1>9, <1>10, <1>11, <1>12, <1>13,
     <1>14, <1>15, <1>16, <1>17, <1>18 DEF Next

\* A run goes through its stages once, and the fence is only taken down before
\* it starts.
LEMMA StagesStep ==
  ASSUME IInv, [Next]_vars
  PROVE  Stages'
<1>0. TypeOK /\ Stages /\ Entries /\ None \notin Runs
  BY RunLifecycleAssumption DEF IInv
<1>1. ASSUME NEW r \in Runs, Begin(r)
      PROVE  Stages'
  BY <1>0, <1>1 DEF Begin, Start, Goto, AtBest, Fault, history, TypeOK, Stages, Live, Streaming,
     memory, document
<1>2. ASSUME NEW r \in Runs, Schedule(r) \/ WorkerBegin(r) \/ WorkerRejected(r) \/
            WorkerEnd(r)
      PROVE  Stages'
  BY <1>0, <1>2 DEF Schedule, WorkerBegin, WorkerRejected, WorkerEnd, Working, history,
     bounds, document, TypeOK, Stages, Live, Streaming, memory
<1>3. ASSUME NEW r \in Runs, NodeBoundary(r) \/ GraphRaises(r) \/ Finish(r)
      PROVE  Stages'
  BY <1>0, <1>3 DEF NodeBoundary, GraphRaises, Finish, Mark, memory, history, bounds, Goto,
     document, AtBest, Finished, Fault, TypeOK, Stages, Live, Streaming
<1>4. ASSUME NEW r \in Runs, FailReport(r) \/ Close(r) \/ PayOwed(r)
      PROVE  Stages'
  BY <1>0, <1>4 DEF FailReport, Close, PayOwed, Mark, Listed, WithoutLock, AtBest, Finished,
     Fault, Goto, history, FinalWrites, TypeOK, Stages, Live, Streaming, memory, document
<1>5. ASSUME NEW r \in Runs, Disconnect(r) \/ Cancelled(r)
      PROVE  Stages'
  BY <1>0, <1>5 DEF Disconnect, Cancelled, Fault, AfterCancel, Goto, document, history,
     AtBest, Finished, Mark, TypeOK, Stages, Live, Streaming, memory
<1>6. ASSUME NEW r \in Runs, StopRequest(r) \/ EndRequest(r)
      PROVE  Stages'
  BY <1>0, <1>6 DEF StopRequest, EndRequest, Request, AfterCancel, Goto, document, history,
     Live, TypeOK, Stages, Streaming, memory
<1>7. ASSUME NEW r \in Runs, StopEnd(r) \/ StopRecords(r) \/ StopReleases(r)
      PROVE  Stages'
  BY <1>0, <1>7 DEF StopEnd, StopRecords, StopReleases, Live, Listed, Mark, WithoutLock,
     Reported, Controlled, document, bounds, TypeOK, Stages, Streaming, memory
<1>8. ASSUME NEW r \in Runs, StopTimeout(r) \/ EndTimeout(r) \/ PlanStop(r)
      PROVE  Stages'
  BY <1>0, <1>8 DEF StopTimeout, EndTimeout, PlanStop, document, history, bounds,
     Controlled, Mark, memory, TypeOK, Stages, Live, Streaming
<1>9. ASSUME NEW r \in Runs, EndDone(r)
      PROVE  Stages'
  BY <1>0, <1>9 DEF EndDone, Live, Remove, WithoutLock, Listed, Controlled, document,
     bounds, TypeOK, Stages, Streaming, memory
<1>10. ASSUME NEW r \in Runs, Project(r) \/ RetryRequest(r) \/ RetryGiveUp(r)
      PROVE  Stages'
  BY <1>0, <1>10 DEF Project, RetryRequest, RetryGiveUp, Listed, Reconciled, WithoutLock,
     history, bounds, Live, Broken, document, RetryOf, TypeOK, Stages, Streaming, memory
<1>11. ASSUME NEW r \in Runs, RetryDismiss(r)
      PROVE  Stages'
  BY <1>0, <1>11 DEF RetryDismiss, RetryOf, Remove, WithoutLock, Listed, bounds, TypeOK,
     Stages, Live, Streaming, memory, document
<1>12. ASSUME NEW r \in Runs, RetryInsert(r) \/ ChildRegister(r)
      PROVE  Stages'
  BY <1>0, <1>12 DEF RetryInsert, ChildRegister, Goto, document, history, bounds, TypeOK,
     Stages, Live, Streaming, memory
<1>13. ASSUME NEW r \in Runs, RetryAbandon(r)
      PROVE  Stages'
  BY <1>0, <1>13 DEF RetryAbandon, Goto, Listed, WithoutLock, Finished, bounds, TypeOK,
     Stages, Live, Streaming, memory, document
<1>14. ASSUME NEW r \in Runs, Interrupt(r)
      PROVE  Stages'
  BY <1>0, <1>14 DEF Interrupt, Finished, memory, document, history, bounds, TypeOK, Stages, Live,
     Streaming
<1>15. ASSUME NEW r \in Runs, NEW end \in {"completed", "awaiting", "failed"}, GraphEnds(r,
            end)
      PROVE  Stages'
  BY <1>0, <1>15 DEF GraphEnds, Goto, Listed, Mark, Remove, WithoutLock, bounds, TypeOK,
     Stages, Live, Streaming, memory, document
<1>16. ASSUME NEW r \in Runs, NEW p \in Runs, Resume(r, p)
      PROVE  Stages'
  BY <1>0, <1>16 DEF Resume, Start, Goto, AtBest, Fault, TypeOK, Stages, Live, Streaming, memory,
     document, Entries, Entry, Listed
<1>17. ASSUME NEW c \in Runs, NEW s \in Runs, RetryHandoff(s, c)
      PROVE  Stages'
  BY <1>0, <1>17 DEF RetryHandoff, RetryOf, Reconciled, Listed, WithoutLock, Live, Goto,
     bounds, TypeOK, Stages, Streaming, memory, document, Entries, Entry
<1>18. ASSUME Crash \/ UNCHANGED vars
      PROVE  Stages'
  BY <1>0, <1>18 DEF Crash, Fault, vars, memory, document, history, bounds, TypeOK, Stages, Live,
     Streaming
<1> QED
  BY <1>1, <1>2, <1>3, <1>4, <1>5, <1>6, <1>7, <1>8, <1>9, <1>10, <1>11, <1>12, <1>13,
     <1>14, <1>15, <1>16, <1>17, <1>18 DEF Next

\* What a child knows of its source does not change until it is registered.
LEMMA ChildrenStep ==
  ASSUME IInv, [Next]_vars
  PROVE  Children'
<1>0. TypeOK /\ Stages /\ Children /\ None \notin Runs
  BY RunLifecycleAssumption DEF IInv
<1>1. ASSUME NEW r \in Runs, Begin(r)
      PROVE  Children'
  BY <1>0, <1>1 DEF Begin, Start, Goto, AtBest, Fault, history, TypeOK, Stages, Children,
     Streaming, memory, document
<1>2. ASSUME NEW r \in Runs, Schedule(r) \/ WorkerBegin(r) \/ WorkerRejected(r) \/
            WorkerEnd(r)
      PROVE  Children'
  BY <1>0, <1>2 DEF Schedule, WorkerBegin, WorkerRejected, WorkerEnd, Working, history,
     bounds, document, TypeOK, Stages, Children, Streaming, memory
<1>3. ASSUME NEW r \in Runs, NodeBoundary(r) \/ GraphRaises(r) \/ Finish(r)
      PROVE  Children'
  BY <1>0, <1>3 DEF NodeBoundary, GraphRaises, Finish, Mark, memory, history, bounds, Goto,
     document, AtBest, Finished, Fault, TypeOK, Stages, Children, Streaming
<1>4. ASSUME NEW r \in Runs, FailReport(r) \/ Close(r) \/ PayOwed(r)
      PROVE  Children'
  BY <1>0, <1>4 DEF FailReport, Close, PayOwed, Mark, Listed, WithoutLock, AtBest, Finished,
     Fault, Goto, history, FinalWrites, TypeOK, Stages, Children, Streaming, memory,
     document
<1>5. ASSUME NEW r \in Runs, Disconnect(r) \/ Cancelled(r)
      PROVE  Children'
  BY <1>0, <1>5 DEF Disconnect, Cancelled, Fault, AfterCancel, Goto, document, history,
     AtBest, Finished, Mark, TypeOK, Stages, Children, Streaming, memory
<1>6. ASSUME NEW r \in Runs, StopRequest(r) \/ EndRequest(r)
      PROVE  Children'
  BY <1>0, <1>6 DEF StopRequest, EndRequest, Request, AfterCancel, Goto, document, history,
     Live, TypeOK, Stages, Children, Streaming, memory
<1>7. ASSUME NEW r \in Runs, StopEnd(r) \/ StopRecords(r) \/ StopReleases(r)
      PROVE  Children'
  BY <1>0, <1>7 DEF StopEnd, StopRecords, StopReleases, Live, Listed, Mark, WithoutLock,
     Reported, Controlled, document, bounds, TypeOK, Stages, Children, Streaming, memory
<1>8. ASSUME NEW r \in Runs, StopTimeout(r) \/ EndTimeout(r) \/ PlanStop(r)
      PROVE  Children'
  BY <1>0, <1>8 DEF StopTimeout, EndTimeout, PlanStop, document, history, bounds,
     Controlled, Mark, memory, TypeOK, Stages, Children, Streaming
<1>9. ASSUME NEW r \in Runs, EndDone(r)
      PROVE  Children'
  BY <1>0, <1>9 DEF EndDone, Live, Remove, WithoutLock, Listed, Controlled, document,
     bounds, TypeOK, Stages, Children, Streaming, memory
<1>10. ASSUME NEW r \in Runs, Project(r) \/ RetryRequest(r) \/ RetryGiveUp(r)
      PROVE  Children'
  BY <1>0, <1>10 DEF Project, RetryRequest, RetryGiveUp, Listed, Reconciled, WithoutLock,
     history, bounds, Live, Broken, document, RetryOf, TypeOK, Stages, Children, Streaming,
     memory
<1>11. ASSUME NEW r \in Runs, RetryDismiss(r)
      PROVE  Children'
  BY <1>0, <1>11 DEF RetryDismiss, RetryOf, Remove, WithoutLock, Listed, bounds, TypeOK,
     Stages, Children, Streaming, memory, document
<1>12. ASSUME NEW r \in Runs, RetryInsert(r) \/ ChildRegister(r)
      PROVE  Children'
  BY <1>0, <1>12 DEF RetryInsert, ChildRegister, Goto, document, history, bounds, TypeOK,
     Stages, Children, Streaming, memory
<1>13. ASSUME NEW r \in Runs, RetryAbandon(r)
      PROVE  Children'
  BY <1>0, <1>13 DEF RetryAbandon, Goto, Listed, WithoutLock, Finished, bounds, TypeOK,
     Stages, Children, Streaming, memory, document
<1>14. ASSUME NEW r \in Runs, Interrupt(r)
      PROVE  Children'
  BY <1>0, <1>14 DEF Interrupt, Finished, memory, document, history, bounds, TypeOK, Stages,
     Children, Streaming
<1>15. ASSUME NEW r \in Runs, NEW end \in {"completed", "awaiting", "failed"}, GraphEnds(r,
            end)
      PROVE  Children'
  BY <1>0, <1>15 DEF GraphEnds, Goto, Listed, Mark, Remove, WithoutLock, bounds, TypeOK,
     Stages, Children, Streaming, memory, document
<1>16. ASSUME NEW r \in Runs, NEW p \in Runs, Resume(r, p)
      PROVE  Children'
  BY <1>0, <1>16 DEF Resume, Start, Goto, AtBest, Fault, TypeOK, Stages, Children,
     Streaming, memory, document
<1>17. ASSUME NEW c \in Runs, NEW s \in Runs, RetryHandoff(s, c)
      PROVE  Children'
  BY <1>0, <1>17 DEF RetryHandoff, RetryOf, Reconciled, Listed, WithoutLock, Live, Goto,
     bounds, TypeOK, Stages, Children, Streaming, memory, document
<1>18. ASSUME Crash \/ UNCHANGED vars
      PROVE  Children'
  BY <1>0, <1>18 DEF Crash, Fault, vars, memory, document, history, bounds, TypeOK, Stages,
     Children, Streaming
<1> QED
  BY <1>1, <1>2, <1>3, <1>4, <1>5, <1>6, <1>7, <1>8, <1>9, <1>10, <1>11, <1>12, <1>13,
     <1>14, <1>15, <1>16, <1>17, <1>18 DEF Next

\* Whoever takes an entry out of the document takes its lock too, unless the
\* lock goes to the run that replaces it; a stopped run takes none again.
LEMMA ReleasesStep ==
  ASSUME IInv, [Next]_vars
  PROVE  Releases'
<1>0. TypeOK /\ Stages /\ Releases /\ None \notin Runs
  BY RunLifecycleAssumption DEF IInv
<1>1. ASSUME NEW r \in Runs, Begin(r)
      PROVE  Releases'
  BY <1>0, <1>1 DEF Begin, Start, Goto, AtBest, Fault, history, TypeOK, Stages, Releases,
     LockHeldByListed, Listed, Streaming, memory, document
<1>2. ASSUME NEW r \in Runs, Schedule(r) \/ WorkerBegin(r) \/ WorkerRejected(r) \/
            WorkerEnd(r)
      PROVE  Releases'
  BY <1>0, <1>2 DEF Schedule, WorkerBegin, WorkerRejected, WorkerEnd, Working, history,
     bounds, document, TypeOK, Stages, Live, Releases, LockHeldByListed, Listed, Streaming,
     memory
<1>3. ASSUME NEW r \in Runs, NodeBoundary(r) \/ GraphRaises(r) \/ Finish(r)
      PROVE  Releases'
  <2>1. CASE NodeBoundary(r)
    BY <1>0, <2>1 DEF NodeBoundary, Mark, memory, history, bounds, TypeOK, Releases,
       LockHeldByListed, Listed
  <2>2. CASE GraphRaises(r)
    BY <1>0, <2>2 DEF GraphRaises, Goto, document, history, bounds, TypeOK, Releases,
       LockHeldByListed, Listed
  <2>3. CASE Finish(r)
    BY <1>0, <2>3 DEF Finish, Goto, document, history, TypeOK, Stages, Releases,
       LockHeldByListed, Listed
  <2> QED BY <1>3, <2>1, <2>2, <2>3
<1>4. ASSUME NEW r \in Runs, FailReport(r) \/ Close(r) \/ PayOwed(r)
      PROVE  Releases'
  BY <1>0, <1>4, SMTT(30) DEF FailReport, Close, PayOwed, Mark, Listed, WithoutLock, AtBest, Finished,
     Fault, Goto, history, FinalWrites, TypeOK, Stages, Releases, LockHeldByListed,
     Streaming, memory, document
<1>5. ASSUME NEW r \in Runs, Disconnect(r) \/ Cancelled(r)
      PROVE  Releases'
  BY <1>0, <1>5 DEF Disconnect, Cancelled, Fault, AfterCancel, Goto, document, history,
     AtBest, Finished, Mark, TypeOK, Stages, Releases, LockHeldByListed, Listed, Streaming,
     memory
<1>6. ASSUME NEW r \in Runs, StopRequest(r) \/ EndRequest(r)
      PROVE  Releases'
  BY <1>0, <1>6 DEF StopRequest, EndRequest, Request, AfterCancel, Goto, document, history,
     Live, TypeOK, Stages, Releases, LockHeldByListed, Listed, Streaming, memory
<1>7. ASSUME NEW r \in Runs, StopEnd(r) \/ StopRecords(r) \/ StopReleases(r)
      PROVE  Releases'
  <2>1. /\ UNCHANGED <<task, work, fence, outcome, pending>>
        /\ \A s \in Runs : exec'[s] = "absent" <=> exec[s] = "absent"
        /\ lock' \in {lock, WithoutLock(r)}
        /\ \A s \in Runs \ {r} : control'[s] = control[s]
    BY <1>0, <1>7
    DEF StopEnd, StopRecords, StopReleases, Mark, Controlled, document, TypeOK, Listed
  <2>2. LockHeldByListed'
    BY <1>0, <2>1 DEF Releases, LockHeldByListed, Listed, WithoutLock, TypeOK
  <2>3. \A s \in Runs : control'[s] \in {"settling", "releasing"} => pending' # s
    BY <1>0, <1>7, <2>1 DEF StopEnd, StopRecords, StopReleases, Controlled, Releases, TypeOK
  <2>4. CASE UNCHANGED stopped
    BY <1>0, <2>1, <2>2, <2>3, <2>4 DEF Releases, WithoutLock, TypeOK
  <2>5. CASE stopped' = stopped \cup {r} /\ control[r] \in {"settling", "releasing"}
    <3>1. /\ task[r] \in {"owing", "gone", "dead"} /\ work[r] # "busy" /\ r \in fence
          /\ pending # r
      BY <1>0, <2>5 DEF Stages, Releases, Live, Streaming, TypeOK, Tasks
    <3>2. lock' # r
      <4>1. CASE StopReleases(r) /\ Listed(r)
        BY <1>0, <3>1, <4>1 DEF StopReleases, WithoutLock
      <4>2. CASE ~Listed(r)
        BY <1>0, <2>1, <4>2 DEF Releases, LockHeldByListed, Listed, WithoutLock
      <4>3. CASE ~StopReleases(r) /\ Listed(r)
        <5>1. UNCHANGED <<stopped, document>> BY <1>7, <4>3 DEF StopEnd, StopRecords
        <5> QED BY <1>0, <2>5, <5>1 DEF document, Releases
      <4> QED BY <4>1, <4>2, <4>3
    <3> QED BY <1>0, <2>1, <2>2, <2>3, <2>5, <3>1, <3>2
      DEF Releases, WithoutLock, TypeOK
  <2> QED BY <1>7, <2>4, <2>5 DEF StopEnd, StopRecords, StopReleases, Reported
<1>8. ASSUME NEW r \in Runs, StopTimeout(r) \/ EndTimeout(r) \/ PlanStop(r)
      PROVE  Releases'
  BY <1>0, <1>8 DEF StopTimeout, EndTimeout, PlanStop, document, history, bounds,
     Controlled, Mark, memory, TypeOK, Stages, Releases, LockHeldByListed, Listed, Streaming
<1>9. ASSUME NEW r \in Runs, EndDone(r)
      PROVE  Releases'
  BY <1>0, <1>9 DEF EndDone, Live, Remove, WithoutLock, Listed, Controlled, document,
     bounds, TypeOK, Stages, Releases, LockHeldByListed, Streaming, memory
<1>10. ASSUME NEW r \in Runs, Project(r) \/ RetryRequest(r) \/ RetryGiveUp(r)
      PROVE  Releases'
  BY <1>0, <1>10 DEF Project, RetryRequest, RetryGiveUp, Listed, Reconciled, WithoutLock,
     history, bounds, Live, Broken, document, RetryOf, TypeOK, Stages, Releases,
     LockHeldByListed, Streaming, memory
<1>11. ASSUME NEW r \in Runs, RetryDismiss(r)
      PROVE  Releases'
  BY <1>0, <1>11 DEF RetryDismiss, RetryOf, Remove, WithoutLock, Listed, bounds, TypeOK,
     Stages, Releases, LockHeldByListed, Streaming, memory, document
<1>12. ASSUME NEW r \in Runs, RetryInsert(r) \/ ChildRegister(r)
      PROVE  Releases'
  BY <1>0, <1>12 DEF RetryInsert, ChildRegister, Goto, document, history, bounds, TypeOK,
     Stages, Releases, LockHeldByListed, Listed, Streaming, memory
<1>13. ASSUME NEW r \in Runs, RetryAbandon(r)
      PROVE  Releases'
  BY <1>0, <1>13 DEF RetryAbandon, Goto, Listed, WithoutLock, Finished, bounds, TypeOK,
     Stages, Releases, LockHeldByListed, Streaming, memory, document
<1>14. ASSUME NEW r \in Runs, Interrupt(r)
      PROVE  Releases'
  BY <1>0, <1>14 DEF Interrupt, Finished, memory, document, history, bounds, TypeOK, Stages,
     Releases, LockHeldByListed, Listed, Streaming
<1>15. ASSUME NEW r \in Runs, NEW end \in {"completed", "awaiting", "failed"}, GraphEnds(r,
            end)
      PROVE  Releases'
  BY <1>0, <1>15 DEF GraphEnds, Goto, Listed, Mark, Remove, WithoutLock, bounds, TypeOK,
     Stages, Releases, LockHeldByListed, Streaming, memory, document
<1>16. ASSUME NEW r \in Runs, NEW p \in Runs, Resume(r, p)
      PROVE  Releases'
  BY <1>0, <1>16 DEF Resume, Start, Goto, AtBest, Fault, TypeOK, Stages, Releases,
     LockHeldByListed, Listed, Streaming, memory, document
<1>17. ASSUME NEW c \in Runs, NEW s \in Runs, RetryHandoff(s, c)
      PROVE  Releases'
  BY <1>0, <1>17 DEF RetryHandoff, RetryOf, Reconciled, Listed, WithoutLock, Live, Goto,
     bounds, TypeOK, Stages, Releases, LockHeldByListed, Streaming, memory, document
<1>18. ASSUME Crash \/ UNCHANGED vars
      PROVE  Releases'
  BY <1>0, <1>18 DEF Crash, Fault, vars, memory, document, history, bounds, TypeOK, Stages,
     Releases, LockHeldByListed, Listed, Streaming
<1> QED
  BY <1>1, <1>2, <1>3, <1>4, <1>5, <1>6, <1>7, <1>8, <1>9, <1>10, <1>11, <1>12, <1>13,
     <1>14, <1>15, <1>16, <1>17, <1>18 DEF Next

\* An entry moves from run to run, or into the archive, or goes with its plan.
LEMMA EntriesStep ==
  ASSUME IInv, [Next]_vars
  PROVE  Entries'
<1>0. TypeOK /\ Stages /\ Children /\ Entries /\ None \notin Runs
  BY RunLifecycleAssumption DEF IInv
<1>1. ASSUME NEW r \in Runs, Begin(r)
      PROVE  Entries'
  BY <1>0, <1>1 DEF Begin, Start, Goto, AtBest, Fault, history, TypeOK, Stages, Entries,
     Entry, Listed, Streaming, memory, document
<1>2. ASSUME NEW r \in Runs, Schedule(r) \/ WorkerBegin(r) \/ WorkerRejected(r) \/
            WorkerEnd(r)
      PROVE  Entries'
  BY <1>0, <1>2 DEF Schedule, WorkerBegin, WorkerRejected, WorkerEnd, Working, history,
     bounds, document, TypeOK, Stages, Entries, Entry, Listed, Streaming, memory
<1>3. ASSUME NEW r \in Runs, NodeBoundary(r) \/ GraphRaises(r) \/ Finish(r)
      PROVE  Entries'
  BY <1>0, <1>3 DEF NodeBoundary, GraphRaises, Finish, Mark, memory, history, bounds, Goto,
     document, AtBest, Finished, Fault, TypeOK, Stages, Entries, Entry, Listed, Streaming
<1>4. ASSUME NEW r \in Runs, FailReport(r) \/ Close(r) \/ PayOwed(r)
      PROVE  Entries'
  <2>1. /\ UNCHANGED <<archive, plan, closed>>
        /\ \A s \in Runs : exec'[s] = "absent" <=> exec[s] = "absent"
    BY <1>0, <1>4 DEF FailReport, Close, PayOwed, FinalWrites, Mark, TypeOK, history
  <2> QED BY <1>0, <2>1 DEF Entries, Entry, Listed
<1>5. ASSUME NEW r \in Runs, Disconnect(r) \/ Cancelled(r)
      PROVE  Entries'
  BY <1>0, <1>5 DEF Disconnect, Cancelled, Fault, AfterCancel, Goto, document, history,
     AtBest, Finished, Mark, TypeOK, Stages, Entries, Entry, Listed, Streaming, memory
<1>6. ASSUME NEW r \in Runs, StopRequest(r) \/ EndRequest(r)
      PROVE  Entries'
  BY <1>0, <1>6 DEF StopRequest, EndRequest, Request, AfterCancel, Goto, document, history,
     Live, TypeOK, Stages, Entries, Entry, Listed, Streaming, memory
<1>7. ASSUME NEW r \in Runs, StopEnd(r) \/ StopRecords(r) \/ StopReleases(r)
      PROVE  Entries'
  BY <1>0, <1>7, SMTT(30) DEF StopEnd, StopRecords, StopReleases, Live, Listed, Mark, WithoutLock,
     Reported, Controlled, document, bounds, TypeOK, Stages, Entries, Entry, Streaming,
     memory
<1>8. ASSUME NEW r \in Runs, StopTimeout(r) \/ EndTimeout(r) \/ PlanStop(r)
      PROVE  Entries'
  BY <1>0, <1>8 DEF StopTimeout, EndTimeout, PlanStop, document, history, bounds,
     Controlled, Mark, memory, TypeOK, Stages, Entries, Entry, Listed, Streaming
<1>9. ASSUME NEW r \in Runs, EndDone(r)
      PROVE  Entries'
  BY <1>0, <1>9 DEF EndDone, Live, Remove, WithoutLock, Listed, Controlled, document,
     bounds, TypeOK, Stages, Entries, Entry, Streaming, memory
<1>10. ASSUME NEW r \in Runs, Project(r) \/ RetryRequest(r) \/ RetryGiveUp(r)
      PROVE  Entries'
  BY <1>0, <1>10 DEF Project, RetryRequest, RetryGiveUp, Listed, Reconciled, WithoutLock,
     history, bounds, Live, Broken, document, RetryOf, TypeOK, Stages, Entries, Entry,
     Streaming, memory
<1>11. ASSUME NEW r \in Runs, RetryDismiss(r)
      PROVE  Entries'
  BY <1>0, <1>11 DEF RetryDismiss, RetryOf, Remove, WithoutLock, Listed, bounds, TypeOK,
     Stages, Entries, Entry, Streaming, memory, document
<1>12. ASSUME NEW r \in Runs, RetryInsert(r) \/ ChildRegister(r)
      PROVE  Entries'
  BY <1>0, <1>12 DEF RetryInsert, ChildRegister, Goto, document, history, bounds, TypeOK,
     Stages, Entries, Entry, Listed, Streaming, memory
<1>13. ASSUME NEW c \in Runs, RetryAbandon(c)
       PROVE  Entries'
  <2> SUFFICES ASSUME NEW s \in Runs, s = from[c].source PROVE Entries'
    BY <1>0, <1>13 DEF RetryAbandon, Children
  <2>1. /\ s # c /\ plan[s] = plan[c] /\ from[c].was \in {"failed", "stopped"}
    BY <1>0, <1>13 DEF RetryAbandon, Children
  <2>2. UNCHANGED <<archive, plan, closed>> BY <1>13 DEF RetryAbandon
  <2>3. CASE ~Listed(c)
    BY <1>0, <1>13, <2>2, <2>3 DEF RetryAbandon, Entries, Entry, Listed
  <2>4. CASE Listed(c)
    <3>1. ~Entry(s) /\ ~(c \in archive) /\ plan[c] # None
      BY <1>0, <2>1, <2>4 DEF Entries, Entry
    <3>2. exec' = [exec EXCEPT ![c] = "absent", ![s] = from[c].was]
      BY <1>0, <1>13, <2>1, <2>4, <3>1 DEF RetryAbandon, Entry, Listed, TypeOK
    <3>3. /\ exec'[c] = "absent" /\ exec'[s] # "absent"
          /\ \A q \in Runs \ {c, s} : exec'[q] = exec[q]
      BY <1>0, <2>1, <3>2 DEF TypeOK
    <3>4. /\ ~Entry(c)' /\ Entry(s)' /\ s \notin archive
          /\ \A q \in Runs \ {c, s} : (Entry(q)' <=> Entry(q)) /\ (Listed(q)' <=> Listed(q))
      BY <2>2, <3>1, <3>3 DEF Entry, Listed
    <3> QED BY <1>0, <2>1, <2>2, <2>4, <3>1, <3>3, <3>4 DEF Entries, Entry, Listed
  <2> QED BY <2>3, <2>4
<1>14. ASSUME NEW r \in Runs, Interrupt(r)
      PROVE  Entries'
  BY <1>0, <1>14 DEF Interrupt, Finished, memory, document, history, bounds, TypeOK, Stages,
     Entries, Entry, Listed, Streaming
<1>15. ASSUME NEW r \in Runs, NEW end \in {"completed", "awaiting", "failed"}, GraphEnds(r,
            end)
      PROVE  Entries'
  BY <1>0, <1>15 DEF GraphEnds, Goto, Listed, Mark, Remove, WithoutLock, bounds, TypeOK,
     Stages, Entries, Entry, Streaming, memory, document
<1>16. ASSUME NEW r \in Runs, NEW p \in Runs, Resume(r, p)
      PROVE  Entries'
  BY <1>0, <1>16, SMTT(30) DEF Resume, Start, Goto, AtBest, Fault, TypeOK, Stages, Entries, Entry,
     Listed, Streaming, memory, document
<1>17. ASSUME NEW c \in Runs, NEW s \in Runs, RetryHandoff(s, c)
      PROVE  Entries'
  BY <1>0, <1>17, SMTT(30) DEF RetryHandoff, RetryOf, Reconciled, Listed, WithoutLock, Live, Goto,
     bounds, TypeOK, Stages, Entries, Entry, Streaming, memory, document
<1>18. ASSUME Crash \/ UNCHANGED vars
      PROVE  Entries'
  BY <1>0, <1>18 DEF Crash, Fault, vars, memory, document, history, bounds, TypeOK, Stages,
     Entries, Entry, Listed, Streaming
<1> QED
  BY <1>1, <1>2, <1>3, <1>4, <1>5, <1>6, <1>7, <1>8, <1>9, <1>10, <1>11, <1>12, <1>13,
     <1>14, <1>15, <1>16, <1>17, <1>18 DEF Next

------------------------------------------------------------------------------
(* The theorems *)

\* Nothing was started yet.
LEMMA IInvInit ==
  ASSUME Init PROVE IInv
<1>0. None \notin Runs /\ 0 \in 0..MaxRequests /\ 0 \in 0..MaxFaults
  BY RunLifecycleAssumption
<1>1. TypeOK BY <1>0 DEF Init, TypeOK, Controls, Tasks, Streaming, NoSource
<1>2. Stages /\ Children /\ Releases
  BY <1>0 DEF Init, Stages, Children, Releases, LockHeldByListed
<1>3. Entries BY <1>0 DEF Init, Entries, Entry, Listed
<1> QED BY <1>1, <1>2, <1>3 DEF IInv

\* The inductive invariant holds in every state.
LEMMA IInvAlways == Spec => []IInv
<1>1. IInv /\ [Next]_vars => IInv'
  BY TypedStep, StagesStep, ChildrenStep, ReleasesStep, EntriesStep DEF IInv
<1> QED BY <1>1, IInvInit, PTL DEF Spec

\* Every variable keeps its type.
THEOREM Typing == Spec => []TypeOK
<1>1. IInv => TypeOK BY DEF IInv
<1> QED BY <1>1, IInvAlways, PTL

\* For any runs and bounds: the resource lock is held by an execution that the
\* document lists, whatever is resumed, handed off, abandoned, ended or repeated.
THEOREM NoLockLeftBehind == Spec => []LockHeldByListed
<1>1. IInv => LockHeldByListed BY DEF IInv, Releases
<1> QED BY <1>1, IInvAlways, PTL

\* For any runs and bounds: when a stop has answered that a run was cancelled, its
\* workers do not run any more, and it has neither the lock nor a draft to confirm.
THEOREM StopIsFinal == Spec => []CancelledIsFinal
<1>1. IInv => CancelledIsFinal BY DEF IInv, Releases, CancelledIsFinal
<1> QED BY <1>1, IInvAlways, PTL

\* For any runs and bounds: a failed run that left the registry with its writes
\* done, at once or when they were repeated, has no lock.
THEOREM FailureReleases == Spec => []FailedIsReleased
<1>1. IInv => FailedIsReleased BY DEF IInv, Releases, FailedIsReleased
<1> QED BY <1>1, IInvAlways, PTL

\* For any number of runs and plans: a plan has one entry, active or archived,
\* until it is completed or dismissed.
THEOREM PlansKeepTheirEntry == Spec => []OnePlanEntry
<1>1. ASSUME IInv, NEW p \in Runs, plan[p] = p
      PROVE  Cardinality({r \in Runs : plan[r] = p /\ (Listed(r) \/ r \in archive)})
               = IF p \in closed THEN 0 ELSE 1
  <2>1. CASE p \in closed
    <3>1. {r \in Runs : plan[r] = p /\ (Listed(r) \/ r \in archive)} = {}
      BY <1>1, <2>1 DEF IInv, Entries, Entry
    <3> QED BY <2>1, <3>1, FS_EmptySet
  <2>2. CASE p \notin closed
    <3>1. PICK e \in Runs : Entry(e) /\ plan[e] = p
      BY <1>1, <2>2 DEF IInv, Entries
    <3>2. {r \in Runs : plan[r] = p /\ (Listed(r) \/ r \in archive)} = {e}
      BY <1>1, <3>1 DEF IInv, Entries, Entry
    <3> QED BY <2>2, <3>2, FS_Singleton
  <2> QED BY <2>1, <2>2
<1>2. IInv => OnePlanEntry BY <1>1 DEF OnePlanEntry
<1> QED BY <1>2, IInvAlways, PTL

\* For any runs and bounds: the lock of a run is not released while one of its
\* workers is at work, by whichever of the handlers that release it.
THEOREM WorkersKeepTheLock == Spec => ReleasedAfterExit
<1> DEFINE Kept(r) == lock = r /\ lock' = None => work[r] # "busy"
<1>1. ASSUME IInv, [Next]_vars, NEW q \in Runs, lock = q, lock' = None
      PROVE  work[q] # "busy"
  <2>0. TypeOK /\ Stages /\ None \notin Runs
    BY <1>1, RunLifecycleAssumption DEF IInv
  <2>1. ASSUME NEW r \in Runs, Begin(r) PROVE work[q] # "busy"
    BY <1>1, <2>0, <2>1 DEF Begin, Start
  <2>2. ASSUME NEW r \in Runs,
               \/ Schedule(r) \/ WorkerBegin(r) \/ WorkerRejected(r) \/ WorkerEnd(r)
               \/ NodeBoundary(r) \/ GraphRaises(r) \/ Finish(r) \/ Disconnect(r) \/ Cancelled(r)
               \/ StopRequest(r) \/ EndRequest(r) \/ StopTimeout(r) \/ EndTimeout(r) \/ PlanStop(r)
               \/ RetryRequest(r) \/ RetryInsert(r) \/ ChildRegister(r) \/ Interrupt(r)
        PROVE  work[q] # "busy"
    BY <1>1, <2>0, <2>2
    DEF Schedule, WorkerBegin, WorkerRejected, WorkerEnd, Working, NodeBoundary, GraphRaises,
        Finish, Disconnect, Cancelled, StopRequest, EndRequest, Request, StopTimeout, EndTimeout,
        PlanStop, RetryRequest, RetryInsert, ChildRegister, Interrupt, document
  <2>3. ASSUME NEW r \in Runs, FailReport(r) \/ Close(r) \/ PayOwed(r) PROVE work[q] # "busy"
    BY <1>1, <2>0, <2>3 DEF FailReport, Close, PayOwed, FinalWrites, WithoutLock, Stages
  <2>4. ASSUME NEW r \in Runs, StopEnd(r) \/ StopRecords(r) \/ StopReleases(r) \/ EndDone(r)
        PROVE  work[q] # "busy"
    BY <1>1, <2>0, <2>4
    DEF StopEnd, StopRecords, StopReleases, EndDone, Remove, WithoutLock, Live, document
  <2>5. ASSUME NEW r \in Runs, Project(r) \/ RetryGiveUp(r) \/ RetryDismiss(r)
        PROVE  work[q] # "busy"
    BY <1>1, <2>0, <2>5
    DEF Project, RetryGiveUp, RetryDismiss, Reconciled, Remove, WithoutLock, Live, document
  <2>6. ASSUME NEW r \in Runs, RetryAbandon(r) PROVE work[q] # "busy"
    BY <1>1, <2>0, <2>6 DEF RetryAbandon, WithoutLock, Stages
  <2>7. ASSUME NEW r \in Runs, NEW end \in {"completed", "awaiting", "failed"}, GraphEnds(r, end)
        PROVE  work[q] # "busy"
    BY <1>1, <2>0, <2>7 DEF GraphEnds, Remove, WithoutLock
  <2>8. ASSUME NEW r \in Runs, NEW p \in Runs, Resume(r, p) \/ RetryHandoff(p, r)
        PROVE  work[q] # "busy"
    BY <1>1, <2>0, <2>8 DEF Resume, Start, RetryHandoff
  <2>9. CASE Crash \/ UNCHANGED vars
    BY <1>1, <2>0, <2>9 DEF Crash, vars, document
  <2> QED BY <1>1, <2>1, <2>2, <2>3, <2>4, <2>5, <2>6, <2>7, <2>8, <2>9 DEF Next
<1>2. IInv /\ [Next]_vars => [\A r \in Runs : Kept(r)]_vars
  BY <1>1
<1> QED BY <1>2, IInvAlways, PTL DEF Spec, ReleasedAfterExit
==============================================================================

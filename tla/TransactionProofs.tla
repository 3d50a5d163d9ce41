--------------------------- MODULE TransactionProofs ---------------------------
(***************************************************************************)
(* Proofs about TemplateTransaction for every number of files, any set of  *)
(* updates and of edits, and any number of failures and crashes.           *)
(*                                                                         *)
(* Types hold for any set of threads.  The rest is about one request at a  *)
(* time, and rests on what the journal on disk and the request in memory   *)
(* say of each other at each step (JInv): the images are those of the      *)
(* request, no file and no before image has the content of an update that  *)
(* was not written yet, and what is being cleared has been rolled back.    *)
(* The lemmas ...Moves say what an action does to every variable, the      *)
(* lemmas ...Step that it keeps a part of the invariant.                   *)
(***************************************************************************)
EXTENDS TemplateTransaction, TLAPS

------------------------------------------------------------------------------
(* The inductive invariant *)

\* The steps, what one step keeps of a thread, and the threads it leaves alone.
Steps == {"idle", "recover", "sweep", "restore", "clear", "read", "check", "mkdir",
          "image", "prepare", "replace", "commit", "catch"}

Same(t) ==
  /\ thread'[t].update = thread[t].update /\ thread'[t].read = thread[t].read
  /\ thread'[t].record = thread[t].record

Others(t) == \A r \in Threads \ {t} : thread'[r] = thread[r]

\* Where the counters and the continuation of a thread are, step by step.
Placed(th) ==
  /\ th.at \in {"image", "catch"} => th.i \in Slots
  /\ th.at \in {"replace", "restore"} => th.i \in Files
  /\ th.at = "clear" => th.i \in 1..(th.last + 2)
  /\ th.at = "read" => th.then = "read"
  /\ th.at \in {"check", "mkdir", "image", "prepare", "replace", "commit"} => th.then = "check"
  /\ th.at \in {"recover", "sweep", "restore"} => th.then \in {"read", "check", "end"}
  /\ th.at = "catch" => th.then \in {"check", "done"}

Typed == TypeOK /\ \A t \in Threads : Placed(thread[t])

\* Every content came from somewhere: a request's update is new when it starts.
Known == started \cup edited \cup {Old, Absent}

Provenance(t) ==
  /\ \A f \in Files : disk[f] \in Known /\ thread[t].read[f] \in Known
  /\ \A s \in Slots : images[s] \in Known
  /\ thread[t].update \in started \cup {Old}

\* Up to the first file replaced, the update is in no file and no before image.
Unwritten(t) ==
  /\ thread[t].then \in {"read", "check"}
  /\ thread[t].at \notin {"idle", "replace", "commit", "catch"}

Fresh(t) ==
  /\ thread[t].at = "idle" \/ thread[t].then = "end" \/ thread[t].update \in Updates
  /\ Unwritten(t) =>
       \A f \in Files :
         /\ disk[f] # thread[t].update /\ images[Before(f)] # thread[t].update
         /\ thread[t].then = "check" => thread[t].read[f] # thread[t].update

\* What the journal says of a file: an after image is told from the before
\* image, and where the before image is gone the file has not the update.
Journal ==
  /\ ~dir => manifest.phase = "none" /\ \A s \in Slots : images[s] = Absent
  /\ \A f \in Files : images[After(f)] \in Updates \cup {Absent}
  /\ manifest.phase = "PREPARED" =>
       \A f \in Files : images[After(f)] # Absent =>
         /\ images[Before(f)] # images[After(f)]
         /\ f \in manifest.existed /\ images[Before(f)] = Absent => disk[f] # images[After(f)]

\* The file does not have the content of the update that is rolled back.
RolledBack(f) == images[After(f)] = Absent \/ disk[f] # images[After(f)]

Recovering(t) ==
  LET th == thread[t] IN
  /\ th.at = "sweep" => manifest.phase = "none" /\ dir
  /\ th.at = "restore" =>
       /\ manifest.phase = "PREPARED" /\ th.record = manifest
       /\ \A f \in Files : f > th.i => RolledBack(f)
  /\ th.at = "clear" =>
       /\ th.then = "done" => manifest.phase # "PREPARED"
       /\ manifest.phase = "PREPARED" => \A f \in Files : RolledBack(f)
       /\ th.i = th.last + 2 => manifest.phase = "none"

\* The image a slot is to have.
Image(t, s) ==
  IF s = After(FileOf(s)) THEN thread[t].update ELSE thread[t].read[FileOf(s)]

Full(t) ==
  \A f \in Files :
    images[After(f)] = thread[t].update /\ images[Before(f)] = thread[t].read[f]

Writing(t) ==
  LET th == thread[t] IN
  /\ th.at \in {"mkdir", "image", "prepare"} => disk = th.read
  /\ th.at \in {"image", "prepare"} => dir /\ manifest.phase = "none"
  /\ th.at = "image" =>
       \A s \in Slots : images[s] = IF s < th.i THEN Image(t, s) ELSE Absent
  /\ th.at \in {"prepare", "replace", "commit"} => Full(t)
  /\ th.at \in {"replace", "commit"} =>
       /\ manifest.phase = "PREPARED"
       /\ manifest.existed = {f \in Files : th.read[f] # Absent}
       /\ \A f \in Files : th.read[f] # th.update
  /\ th.at = "replace" =>
       \A f \in Files : disk[f] = IF f < th.i THEN th.update ELSE th.read[f]
  /\ th.at = "commit" => \A f \in Files : disk[f] = th.update

\* A file of a prepared journal which the recovery can account for.
Saved(f) ==
  images[After(f)] # Absent /\ (f \in manifest.existed => images[Before(f)] # Absent)

Accounted(f) ==
  disk[f] \in {images[After(f)], IF f \in manifest.existed THEN images[Before(f)] ELSE Absent}

EditedOrAccounted ==
  /\ ConflictMeansEdit
  /\ edited = {} /\ manifest.phase = "PREPARED" =>
       \A f \in Files : Saved(f) => Accounted(f)

\* What a request leaves in order for the next one.
Tidy(t) ==
  LET th == thread[t] IN
  /\ strays = {}
  /\ th.at \in {"idle", "read", "check", "mkdir"} => ~dir
  /\ th.at = "recover" =>
       IF th.then \in {"read", "check"} THEN ~dir
       ELSE manifest.phase # "none"
  /\ th.at \notin {"idle", "read", "check", "mkdir", "recover"} => dir
  /\ th.at # "sweep"
  /\ th.at \in {"restore", "clear"} => th.then \in {"done", "end"}
  /\ \/ th.at = "catch"
     \/ th.at \notin {"idle", "read", "check", "mkdir"} /\ th.then = "end"
     => errors = 1
  /\ /\ \/ th.at = "recover" /\ th.then = "end"
        \/ th.at \in {"catch", "restore"}
     /\ manifest.phase = "PREPARED"
     => \A f \in Files : Saved(f) /\ Accounted(f)
  /\ th.at = "clear" =>
       \A s \in Slots : (s < th.i \/ s > th.last) => images[s] = Absent
  /\ th.at = "catch" /\ manifest.phase = "none" =>
       \A s \in Slots : s > 2 * FileOf(th.i) => images[s] = Absent

\* It does, if nothing but one operation failed.
Clean(t) == crashes = 0 /\ errors <= 1 => Tidy(t)

\* The journal and the request agree: what the refinement of AtomicUpdate rests on.
JInv(t) == Typed /\ Provenance(t) /\ Fresh(t) /\ Journal /\ Recovering(t) /\ Writing(t)

IInv == \A t \in Threads : JInv(t) /\ EditedOrAccounted /\ Clean(t)

------------------------------------------------------------------------------
(* The type invariant *)

\* Every slot has the before or the after image of one file.
LEMMA SlotFacts ==
  /\ \A f \in Files : /\ Before(f) \in Slots /\ After(f) \in Slots /\ Before(f) # After(f)
                      /\ FileOf(Before(f)) = f /\ FileOf(After(f)) = f
  /\ \A s \in Slots : FileOf(s) \in Files /\ s \in {Before(FileOf(s)), After(FileOf(s))}
<1> USE TransactionAssumption DEF Files, Slots, Before, After, FileOf
<1>1. ASSUME NEW f \in Files
      PROVE  /\ Before(f) \in Slots /\ After(f) \in Slots /\ Before(f) # After(f)
             /\ FileOf(Before(f)) = f /\ FileOf(After(f)) = f
  <2>1. Before(f) \in Slots OBVIOUS
  <2>2. After(f) \in Slots OBVIOUS
  <2>3. Before(f) # After(f) OBVIOUS
  <2>4. FileOf(Before(f)) = f OBVIOUS
  <2>5. FileOf(After(f)) = f OBVIOUS
  <2> QED BY <2>1, <2>2, <2>3, <2>4, <2>5
<1>2. ASSUME NEW s \in Slots
      PROVE  FileOf(s) \in Files /\ s \in {Before(FileOf(s)), After(FileOf(s))}
  <2>1. FileOf(s) \in Files OBVIOUS
  <2>2. s = Before(FileOf(s)) \/ s = After(FileOf(s)) OBVIOUS
  <2> QED BY <2>1, <2>2
<1> QED BY <1>1, <1>2

\* The idle thread, and no manifest, have their types.
LEMMA IdleTyped == Idle \in Thread /\ NoManifest \in Manifest
BY TransactionAssumption DEF Idle, Thread, Manifest, NoManifest, Content, Files

\* The continuations of a thread, field by field; the other threads stay.
LEMMA GotoEffect ==
  ASSUME thread \in [Threads -> Thread], NEW t \in Threads, NEW at \in Steps,
         NEW i \in 0..(2 * N + 2), Goto(t, at, i)
  PROVE  /\ thread' \in [Threads -> Thread] /\ Others(t)
         /\ thread'[t].at = at /\ thread'[t].i = i /\ thread'[t].then = thread[t].then
         /\ thread'[t].last = thread[t].last /\ Same(t)
BY DEF Goto, Thread, Steps, Others, Same

\* The request is over.
LEMMA StopEffect ==
  ASSUME thread \in [Threads -> Thread], NEW t \in Threads, Stop(t)
  PROVE  thread' \in [Threads -> Thread] /\ Others(t) /\ thread'[t] = Idle
BY IdleTyped DEF Stop, Others

\* A recovery begins.
LEMMA RecoverEffect ==
  ASSUME thread \in [Threads -> Thread], NEW t \in Threads,
         NEW then \in {"read", "check", "done", "end"}, Recover(t, then)
  PROVE  /\ thread' \in [Threads -> Thread] /\ Others(t)
         /\ thread'[t].at = "recover" /\ thread'[t].then = then
         /\ thread'[t].i = thread[t].i /\ thread'[t].last = thread[t].last /\ Same(t)
BY DEF Recover, Thread, Others, Same

\* A clearing begins.
LEMMA ClearEffect ==
  ASSUME thread \in [Threads -> Thread], NEW t \in Threads, NEW last \in 0..(2 * N),
         NEW then \in {"read", "check", "done", "end"}, Clear(t, then, last)
  PROVE  /\ thread' \in [Threads -> Thread] /\ Others(t)
         /\ thread'[t].at = "clear" /\ thread'[t].then = then
         /\ thread'[t].i = 1 /\ thread'[t].last = last /\ Same(t)
<1>1. 1 \in 0..(2 * N + 2) BY TransactionAssumption
<1> DEFINE x == [thread[t] EXCEPT !.at = "clear", !.i = 1, !.then = then, !.last = last]
<1>2. thread[t] \in Thread OBVIOUS
<1>3. /\ x \in Thread /\ x.at = "clear" /\ x.i = 1 /\ x.then = then /\ x.last = last
      /\ x.update = thread[t].update /\ x.read = thread[t].read /\ x.record = thread[t].record
  BY <1>1, <1>2 DEF Thread
<1>4. thread' = [thread EXCEPT ![t] = x]
  BY DEF Clear
<1> HIDE DEF x
<1> QED BY <1>3, <1>4 DEF Others, Same

\* A request begins with the recovery.
LEMMA RequestEffect ==
  ASSUME thread \in [Threads -> Thread], NEW t \in Threads, NEW u \in Updates, Request(t, u)
  PROVE  /\ thread' \in [Threads -> Thread] /\ Others(t)
         /\ thread'[t].at = "recover" /\ thread'[t].then = "read" /\ thread'[t].update = u
         /\ thread'[t].i = thread[t].i /\ thread'[t].last = thread[t].last
         /\ thread'[t].read = thread[t].read /\ thread'[t].record = thread[t].record
BY DEF Request, Thread, Others

\* The files are read, and the journal looked for again.
LEMMA ReadEffect ==
  ASSUME thread \in [Threads -> Thread], disk \in [Files -> Content], NEW t \in Threads,
         ReadFiles(t)
  PROVE  /\ thread' \in [Threads -> Thread] /\ Others(t)
         /\ thread'[t].at = "recover" /\ thread'[t].then = "check" /\ thread'[t].read = disk
         /\ thread'[t].i = thread[t].i /\ thread'[t].last = thread[t].last
         /\ thread'[t].update = thread[t].update /\ thread'[t].record = thread[t].record
BY DEF ReadFiles, Thread, Others

\* A recovery starts to restore the files of a prepared manifest.
LEMMA RestoreEffect ==
  ASSUME thread \in [Threads -> Thread], manifest \in Manifest, NEW t \in Threads,
         thread' = [thread EXCEPT ![t].at = "restore", ![t].i = N, ![t].record = manifest]
  PROVE  /\ thread' \in [Threads -> Thread] /\ Others(t)
         /\ thread'[t].at = "restore" /\ thread'[t].then = thread[t].then
         /\ thread'[t].i = N /\ thread'[t].last = thread[t].last
         /\ thread'[t].update = thread[t].update /\ thread'[t].read = thread[t].read
         /\ thread'[t].record = manifest
<1>1. N \in 0..(2 * N + 2) BY TransactionAssumption
<1> QED BY <1>1 DEF Thread, Others

\* A recovery or a clearing that is over ends the request or goes on with it.
LEMMA ReturnEffect ==
  ASSUME thread \in [Threads -> Thread], NEW t \in Threads, Return(t)
  PROVE  /\ thread' \in [Threads -> Thread] /\ Others(t)
         /\ \/ thread[t].then \in {"done", "end"} /\ thread'[t] = Idle
            \/ /\ thread[t].then \in {"read", "check"}
               /\ thread'[t].at = thread[t].then /\ thread'[t].i = 0
               /\ thread'[t].then = thread[t].then
               /\ thread'[t].last = thread[t].last /\ Same(t)
<1>1. CASE thread[t].then \in {"done", "end"}
  BY <1>1, StopEffect DEF Return
<1>2. CASE thread[t].then \in {"read", "check"}
  <2>1. Goto(t, thread[t].then, 0) BY <1>2 DEF Return
  <2> QED BY <1>2, <2>1, GotoEffect, TransactionAssumption DEF Steps
<1> QED BY <1>1, <1>2 DEF Thread

\* What a step of one thread must show for the type invariant.
LEMMA TypedThreads ==
  ASSUME Typed, NEW t \in Threads, thread' \in [Threads -> Thread], Others(t),
         Placed(thread'[t])
  PROVE  \A r \in Threads : Placed(thread'[r])
BY DEF Typed, Others

\* The type invariant holds at first.
LEMMA TypedInit == Init => Typed
<1> SUFFICES ASSUME Init PROVE Typed
  OBVIOUS
<1>1. Placed(Idle)
  BY DEF Placed, Idle
<1>2. Initial \in [Files -> Content]
  BY DEF Initial, Content
<1> QED
  <2>1. /\ disk \in [Files -> Content] /\ dir \in BOOLEAN /\ images \in [Slots -> Content]
        /\ strays = {} /\ manifest \in Manifest
    BY <1>2, IdleTyped DEF Init, Content
  <2>2. thread \in [Threads -> Thread] /\ \A t \in Threads : Placed(thread[t])
    BY <1>1, IdleTyped DEF Init
  <2>3. errors \in 0..MaxErrors /\ crashes \in 0..MaxCrashes
    BY TransactionAssumption DEF Init
  <2> QED BY <2>1, <2>2, <2>3 DEF Init, Typed, TypeOK

\* Every step of any thread keeps the types and the place of every thread.
LEMMA TypedStep == Typed /\ [Next]_vars => Typed'
<1> SUFFICES ASSUME Typed, [Next]_vars PROVE Typed'
  OBVIOUS
<1> USE TransactionAssumption
<1>0. ASSUME NEW t \in Threads
      PROVE  /\ thread \in [Threads -> Thread] /\ thread[t] \in Thread /\ Placed(thread[t])
             /\ thread[t].at \in Steps /\ thread[t].i \in 0..(2 * N + 2)
             /\ thread[t].last \in 0..(2 * N)
             /\ thread[t].then \in {"read", "check", "done", "end"}
             /\ thread[t].update \in Content /\ thread[t].read \in [Files -> Content]
             /\ thread[t].record \in Manifest
             /\ disk \in [Files -> Content] /\ manifest \in Manifest
             /\ images \in [Slots -> Content]
  BY DEF Typed, TypeOK, Thread, Steps, Content
<1>1. ASSUME NEW t \in Threads, NEW u \in Updates, Request(t, u) PROVE Typed'
  <2>1. Placed(thread'[t]) BY <1>0, <1>1, RequestEffect DEF Placed
  <2> QED BY <1>0, <1>1, <2>1, RequestEffect, TypedThreads DEF Request, Typed, TypeOK, journal
<1>2. ASSUME NEW t \in Threads, RequestNothing(t) PROVE Typed'
  <2>0. Recover(t, "end") BY <1>2 DEF RequestNothing
  <2>1. Placed(thread'[t]) BY <1>0, <2>0, RecoverEffect DEF Placed
  <2> QED
    BY <1>0, <1>2, <2>0, <2>1, RecoverEffect, TypedThreads DEF RequestNothing, Typed, TypeOK, journal
<1>3. ASSUME NEW t \in Threads, ReadFiles(t) PROVE Typed'
  <2>1. Placed(thread'[t]) BY <1>0, <1>3, ReadEffect DEF Placed
  <2> QED BY <1>0, <1>3, <2>1, ReadEffect, TypedThreads DEF ReadFiles, Typed, TypeOK, journal
<1>4. ASSUME NEW t \in Threads, CheckUnchanged(t) PROVE Typed'
  <2>0. thread[t].at = "check" /\ (Goto(t, "mkdir", 0) \/ Stop(t)) BY <1>4 DEF CheckUnchanged
  <2>1. thread' \in [Threads -> Thread] /\ Others(t) /\ Placed(thread'[t])
    BY <1>0, <2>0, GotoEffect, StopEffect DEF Placed, Steps, Idle
  <2> QED BY <1>4, <2>1, TypedThreads DEF CheckUnchanged, Typed, TypeOK, journal
<1>5. ASSUME NEW t \in Threads, MakeJournal(t) PROVE Typed'
  <2>0. thread[t].at = "mkdir" /\ (Goto(t, "image", 1) \/ Stop(t)) BY <1>5 DEF MakeJournal
  <2>1. thread' \in [Threads -> Thread] /\ Others(t) /\ Placed(thread'[t])
    BY <1>0, <2>0, GotoEffect, StopEffect DEF Placed, Steps, Slots, Idle
  <2> QED BY <1>5, <2>1, TypedThreads DEF MakeJournal, Typed, TypeOK
<1>6. ASSUME NEW t \in Threads, WriteImage(t) PROVE Typed'
  <2> DEFINE s == thread[t].i
  <2>0. thread[t].at = "image" /\ s \in Slots /\ FileOf(s) \in Files
    BY <1>0, <1>6, SlotFacts DEF WriteImage, Placed
  <2>1. \/ Goto(t, "prepare", 0)
        \/ s # 2 * N /\ Goto(t, "image", s + 1)
        \/ Goto(t, "catch", s)
    BY <1>6 DEF WriteImage
  <2>2. thread' \in [Threads -> Thread] /\ Others(t) /\ Placed(thread'[t])
    <3>1. CASE Goto(t, "prepare", 0)
      BY <1>0, <2>0, <3>1, GotoEffect DEF Placed, Steps
    <3>2. CASE s # 2 * N /\ Goto(t, "image", s + 1)
      <4>1. s + 1 \in Slots /\ s + 1 \in 0..(2 * N + 2) BY <2>0, <3>2 DEF Slots
      <4> QED BY <1>0, <2>0, <3>2, <4>1, GotoEffect DEF Placed, Steps
    <3>3. CASE Goto(t, "catch", s)
      BY <1>0, <2>0, <3>3, GotoEffect DEF Placed, Steps
    <3> QED BY <2>1, <3>1, <3>2, <3>3
  <2>3. images' \in [Slots -> Content]
    BY <1>0, <1>6, <2>0 DEF WriteImage
  <2> QED BY <1>6, <2>2, <2>3, TypedThreads DEF WriteImage, Typed, TypeOK
<1>7. ASSUME NEW t \in Threads, Prepare(t) PROVE Typed'
  <2>0. thread[t].at = "prepare" /\ Goto(t, "replace", 1) BY <1>7 DEF Prepare
  <2>1. thread' \in [Threads -> Thread] /\ Others(t) /\ Placed(thread'[t])
    BY <1>0, <2>0, GotoEffect DEF Placed, Steps, Files
  <2>2. manifest' \in Manifest BY <1>7 DEF Prepare, WriteManifest, Manifest
  <2> QED BY <1>7, <2>1, <2>2, TypedThreads DEF Prepare, WriteManifest, Typed, TypeOK
<1>8. ASSUME NEW t \in Threads, ReplaceFile(t) PROVE Typed'
  <2> DEFINE f == thread[t].i
  <2>0. thread[t].at = "replace" /\ f \in Files
    BY <1>0, <1>8 DEF ReplaceFile, Placed
  <2>1. \/ Goto(t, "commit", 0)
        \/ f # N /\ Goto(t, "replace", f + 1)
    BY <1>8 DEF ReplaceFile
  <2>2. thread' \in [Threads -> Thread] /\ Others(t) /\ Placed(thread'[t])
    BY <1>0, <2>0, <2>1, GotoEffect DEF Placed, Steps, Files
  <2>3. disk' \in [Files -> Content]
    BY <1>0, <1>8, <2>0 DEF ReplaceFile
  <2> QED BY <1>8, <2>2, <2>3, TypedThreads DEF ReplaceFile, Typed, TypeOK, journal
<1>9. ASSUME NEW t \in Threads, Commit(t) PROVE Typed'
  <2>0. Clear(t, "done", 2 * N) BY <1>9 DEF Commit
  <2>1. thread' \in [Threads -> Thread] /\ Others(t) /\ Placed(thread'[t])
    BY <1>0, <2>0, ClearEffect DEF Placed
  <2>2. manifest' \in Manifest BY <1>9 DEF Commit, WriteManifest, Manifest
  <2> QED BY <1>9, <2>1, <2>2, TypedThreads DEF Commit, WriteManifest, Typed, TypeOK
<1>10. ASSUME NEW t \in Threads, Catch(t) PROVE Typed'
  <2> DEFINE last == 2 * FileOf(thread[t].i)
  <2>0. thread[t].at = "catch" /\ last \in 0..(2 * N)
    BY <1>0, <1>10, SlotFacts DEF Catch, Placed, Files
  <2>1. Recover(t, "end") \/ Clear(t, "end", last)
    BY <1>10 DEF Catch
  <2> HIDE DEF last
  <2>2. thread' \in [Threads -> Thread] /\ Others(t) /\ Placed(thread'[t])
    BY <1>0, <2>0, <2>1, RecoverEffect, ClearEffect DEF Placed
  <2> QED BY <1>10, <2>2, TypedThreads DEF Catch, Typed, TypeOK, journal
<1>11. ASSUME NEW t \in Threads, StartRecovery(t) PROVE Typed'
  <2>0. thread[t].at = "recover" BY <1>11 DEF StartRecovery
  <2>1. \/ Return(t) \/ Stop(t) \/ Goto(t, "sweep", 0) \/ Clear(t, thread[t].then, 2 * N)
        \/ thread' = [thread EXCEPT ![t].at = "restore", ![t].i = N, ![t].record = manifest]
    BY <1>11 DEF StartRecovery, Refuse
  <2>2. thread' \in [Threads -> Thread] /\ Others(t) /\ Placed(thread'[t])
    <3>1. CASE Return(t) \/ Stop(t)
      BY <1>0, <2>0, <3>1, ReturnEffect, StopEffect DEF Placed, Idle
    <3>2. CASE Goto(t, "sweep", 0)
      BY <1>0, <2>0, <3>2, GotoEffect DEF Placed, Steps
    <3>3. CASE Clear(t, thread[t].then, 2 * N)
      BY <1>0, <2>0, <3>3, ClearEffect DEF Placed
    <3>4. CASE thread' = [thread EXCEPT ![t].at = "restore", ![t].i = N, ![t].record = manifest]
      <4>1. N \in Files BY DEF Files
      <4> QED BY <1>0, <2>0, <3>4, <4>1, RestoreEffect DEF Placed
    <3> QED BY <2>1, <3>1, <3>2, <3>3, <3>4
  <2>3. UNCHANGED <<disk, journal, started, edited, errors, crashes>>
        /\ (UNCHANGED refused \/ refused' = refused \cup {"stray"})
    BY <1>11 DEF StartRecovery, Refuse
  <2> QED BY <2>2, <2>3, TypedThreads DEF Typed, TypeOK, journal
<1>12. ASSUME NEW t \in Threads, Sweep(t) PROVE Typed'
  <2>0. thread[t].at = "sweep" /\ (UNCHANGED thread \/ Return(t)) BY <1>12 DEF Sweep
  <2>1. thread' \in [Threads -> Thread] /\ Others(t) /\ Placed(thread'[t])
    BY <1>0, <2>0, ReturnEffect DEF Placed, Idle, Others
  <2>2. images' \in [Slots -> Content] /\ strays' \subseteq strays /\ dir' \in BOOLEAN
    BY <1>0, <1>12 DEF Sweep, Content, Typed, TypeOK
  <2> QED BY <1>12, <2>1, <2>2, TypedThreads DEF Sweep, Typed, TypeOK
<1>13. ASSUME NEW t \in Threads, RestoreFile(t) PROVE Typed'
  <2> DEFINE f == thread[t].i
  <2>0. thread[t].at = "restore" /\ f \in Files
    BY <1>0, <1>13 DEF RestoreFile, Placed
  <2>1. \/ Stop(t) \/ Clear(t, thread[t].then, 2 * N)
        \/ f # 1 /\ Goto(t, "restore", f - 1)
    BY <1>13 DEF RestoreFile, Refuse
  <2>2. thread' \in [Threads -> Thread] /\ Others(t) /\ Placed(thread'[t])
    BY <1>0, <2>0, <2>1, GotoEffect, StopEffect, ClearEffect DEF Placed, Steps, Idle, Files
  <2>3. BeforeContent(t, f) \in Content
    BY <1>0, <2>0, SlotFacts DEF BeforeContent, Content
  <2>4. /\ disk' \in [Files -> Content]
        /\ refused' \subseteq refused \cup {"image", "conflict"}
        /\ UNCHANGED <<journal, started, edited, errors, crashes>>
    BY <1>0, <1>13, <2>0, <2>3 DEF RestoreFile, Refuse
  <2> QED BY <2>2, <2>4, TypedThreads DEF Typed, TypeOK, journal
<1>14. ASSUME NEW t \in Threads, ClearStep(t) PROVE Typed'
  <2> DEFINE s == thread[t].i
  <2>0. thread[t].at = "clear" /\ s \in 1..(thread[t].last + 2)
    BY <1>0, <1>14 DEF ClearStep, Placed
  <2>1. \/ s # thread[t].last + 2 /\ Goto(t, "clear", s + 1)
        \/ Return(t) \/ Stop(t)
        \/ thread[t].then = "done" /\ Goto(t, "catch", 2 * N)
    BY <1>0, <1>14, <2>0 DEF ClearStep
  <2>2. thread' \in [Threads -> Thread] /\ Others(t) /\ Placed(thread'[t])
    <3>1. CASE s # thread[t].last + 2 /\ Goto(t, "clear", s + 1)
      BY <1>0, <2>0, <3>1, GotoEffect DEF Placed, Steps
    <3>2. CASE Return(t) \/ Stop(t)
      BY <1>0, <2>0, <3>2, ReturnEffect, StopEffect DEF Placed, Idle
    <3>3. CASE thread[t].then = "done" /\ Goto(t, "catch", 2 * N)
      BY <1>0, <2>0, <3>3, GotoEffect DEF Placed, Steps, Slots
    <3> QED BY <2>1, <3>1, <3>2, <3>3
  <2>3. /\ images' \in [Slots -> Content] /\ dir' \in BOOLEAN /\ manifest' \in Manifest
        /\ UNCHANGED <<strays, disk, started, edited, refused, errors, crashes>>
    BY <1>0, <1>14, IdleTyped DEF ClearStep, Content, Typed, TypeOK, journal
  <2> QED BY <2>2, <2>3, TypedThreads DEF Typed, TypeOK
<1>15. ASSUME NEW t \in Threads, Fail(t) PROVE Typed'
  <2>0. thread' \in [Threads -> Thread] /\ Others(t) /\ Placed(thread'[t])
    <3>1. CASE InTry(t)
      <4> DEFINE i == IF thread[t].at = "image" THEN thread[t].i ELSE 2 * N
      <4>1. Goto(t, "catch", i) /\ i \in Slots BY <1>0, <1>15, <3>1 DEF Fail, Placed, Slots
      <4>2. thread[t].then \in {"check", "done"} BY <1>0, <3>1 DEF InTry, Placed
      <4> QED BY <1>0, <4>1, <4>2, GotoEffect DEF Placed, Steps, Slots
    <3>2. CASE ~InTry(t)
      BY <1>0, <1>15, <3>2, StopEffect DEF Fail, Placed, Idle
    <3> QED BY <3>1, <3>2
  <2>1. errors' \in 0..MaxErrors
    BY <1>15 DEF Fail, Typed, TypeOK
  <2> QED BY <1>15, <2>0, <2>1, TypedThreads DEF Fail, Typed, TypeOK, journal
<1>16. ASSUME Crash PROVE Typed'
  <2>1. \A t \in Threads : thread'[t] = Idle BY <1>16 DEF Crash
  <2>2. Placed(Idle) BY DEF Placed, Idle
  <2>3. strays' \subseteq {"image", "manifest"} BY <1>16 DEF Crash, Typed, TypeOK
  <2>4. crashes' \in 0..MaxCrashes BY <1>16 DEF Crash, Typed, TypeOK
  <2> QED BY <1>16, <2>1, <2>2, <2>3, <2>4, IdleTyped DEF Crash, Typed, TypeOK
<1>17. ASSUME NEW f \in Files, NEW e \in Edits, Edit(f, e) PROVE Typed'
  BY <1>17 DEF Typed, TypeOK, Edit, journal, Content
<1>18. ASSUME UNCHANGED vars PROVE Typed'
  BY <1>18 DEF Typed, TypeOK, vars, journal
<1> QED
  BY <1>1, <1>2, <1>3, <1>4, <1>5, <1>6, <1>7, <1>8, <1>9, <1>10, <1>11, <1>12, <1>13,
     <1>14, <1>15, <1>16, <1>17, <1>18 DEF Next, Step

\* Every variable has its type whatever the threads do at the same time: a thread is
\* never past the last file, slot or step of the journal it is at.
THEOREM Typing == Spec => []TypeOK
<1>1. Typed => TypeOK BY DEF Typed
<1> QED BY <1>1, TypedInit, TypedStep, PTL DEF Spec

------------------------------------------------------------------------------
\* What the type invariant says of one thread and of the files, for the provers.
LEMMA Types ==
  ASSUME Typed, NEW t \in Threads
  PROVE  /\ thread \in [Threads -> Thread] /\ thread[t] \in Thread /\ Placed(thread[t])
         /\ thread[t].at \in Steps /\ thread[t].i \in 0..(2 * N + 2)
         /\ thread[t].last \in 0..(2 * N)
         /\ thread[t].then \in {"read", "check", "done", "end"}
         /\ thread[t].update \in Content /\ thread[t].read \in [Files -> Content]
         /\ thread[t].record \in Manifest
         /\ disk \in [Files -> Content] /\ manifest \in Manifest
         /\ images \in [Slots -> Content] /\ dir \in BOOLEAN
BY DEF Typed, TypeOK, Thread, Steps, Content

------------------------------------------------------------------------------
(* What the actions of the one thread do, given the invariant of the journal *)

\* The request goes on only if the files are what it read.
LEMMA CheckMoves ==
  ASSUME NEW t \in Threads, JInv(t), CheckUnchanged(t)
  PROVE  /\ \/ /\ thread'[t].at = "mkdir" /\ thread'[t].then = thread[t].then /\ Same(t)
               /\ disk = thread[t].read
            \/ thread'[t] = Idle
         /\ thread[t].at = "check"
         /\ UNCHANGED <<disk, journal, started, edited, refused, errors, crashes>>
BY Types, GotoEffect, StopEffect, TransactionAssumption DEF JInv, CheckUnchanged, Steps

\* The directory is made, or the request ends because there is one.
LEMMA MakeJournalMoves ==
  ASSUME NEW t \in Threads, JInv(t), MakeJournal(t)
  PROVE  /\ \/ /\ thread'[t].at = "image" /\ thread'[t].i = 1
               /\ thread'[t].then = thread[t].then /\ ~dir /\ Same(t)
            \/ dir /\ thread'[t] = Idle
         /\ thread[t].at = "mkdir" /\ dir'
         /\ UNCHANGED <<disk, images, strays, manifest, started, edited, refused, errors, crashes>>
BY Types, GotoEffect, StopEffect, TransactionAssumption DEF JInv, MakeJournal, Steps

\* The directory is there, so an image is written and never the handler run.
LEMMA WriteImageMoves ==
  ASSUME NEW t \in Threads, JInv(t), WriteImage(t), NEW s, s = thread[t].i
  PROVE  /\ thread[t].at = "image" /\ s \in Slots /\ thread[t].then = "check"
         /\ dir /\ manifest.phase = "none"
         /\ images' = [images EXCEPT ![s] = Image(t, s)]
         /\ thread'[t].then = "check" /\ Same(t)
         /\ \/ s = 2 * N /\ thread'[t].at = "prepare"
            \/ s # 2 * N /\ thread'[t].at = "image" /\ thread'[t].i = s + 1
         /\ UNCHANGED <<disk, dir, strays, manifest, started, edited, refused, errors, crashes>>
<1> USE TransactionAssumption
<1>t. /\ thread \in [Threads -> Thread] /\ Placed(thread[t]) /\ images \in [Slots -> Content]
  BY Types DEF JInv
<1>1. thread[t].at = "image" /\ s \in Slots /\ thread[t].then = "check"
  BY <1>t DEF WriteImage, Placed
<1>2. dir /\ manifest.phase = "none" BY <1>1 DEF JInv, Writing
<1>3. \/ s = 2 * N /\ Goto(t, "prepare", 0)
      \/ s # 2 * N /\ Goto(t, "image", s + 1)
  BY <1>2 DEF WriteImage
<1>4. s + 1 \in 0..(2 * N + 2) BY <1>1 DEF Slots
<1> QED BY <1>t, <1>1, <1>2, <1>3, <1>4, GotoEffect DEF WriteImage, Image, Steps

\* The manifest is written when every image is there and no file has changed.
LEMMA PrepareMoves ==
  ASSUME NEW t \in Threads, JInv(t), Prepare(t)
  PROVE  /\ thread[t].at = "prepare" /\ thread[t].then = "check"
         /\ thread'[t].at = "replace" /\ thread'[t].i = 1 /\ thread'[t].then = "check" /\ Same(t)
         /\ dir /\ dir' /\ manifest.phase = "none" /\ manifest'.phase = "PREPARED"
         /\ manifest'.existed = {f \in Files : thread[t].read[f] # Absent}
         /\ Full(t) /\ disk = thread[t].read
         /\ UNCHANGED <<disk, images, strays, started, edited, refused, errors, crashes>>
BY Types, GotoEffect, TransactionAssumption
   DEF JInv, Writing, Prepare, WriteManifest, Steps, Placed

\* The files are replaced one by one; after the last one comes the commit.
LEMMA ReplaceFileMoves ==
  ASSUME NEW t \in Threads, JInv(t), ReplaceFile(t), NEW f, f = thread[t].i
  PROVE  /\ thread[t].at = "replace" /\ f \in Files /\ thread[t].then = "check"
         /\ disk' = [disk EXCEPT ![f] = thread[t].update]
         /\ thread'[t].then = "check" /\ Same(t)
         /\ \/ f = N /\ thread'[t].at = "commit"
            \/ f # N /\ thread'[t].at = "replace" /\ thread'[t].i = f + 1
         /\ UNCHANGED <<dir, images, strays, manifest, started, edited, refused, errors, crashes>>
<1> USE TransactionAssumption
<1>t. thread \in [Threads -> Thread] /\ Placed(thread[t])
  BY Types DEF JInv
<1>1. thread[t].at = "replace" /\ f \in Files /\ thread[t].then = "check"
  BY <1>t DEF ReplaceFile, Placed
<1>2. f + 1 \in 0..(2 * N + 2) BY <1>1 DEF Files
<1>3. \/ f = N /\ Goto(t, "commit", 0)
      \/ f # N /\ Goto(t, "replace", f + 1)
  BY DEF ReplaceFile
<1> QED BY <1>t, <1>1, <1>2, <1>3, GotoEffect DEF ReplaceFile, Steps, journal

\* The second manifest starts the clearing of the journal.
LEMMA CommitMoves ==
  ASSUME NEW t \in Threads, JInv(t), Commit(t)
  PROVE  /\ thread[t].at = "commit"
         /\ thread'[t].at = "clear" /\ thread'[t].i = 1 /\ thread'[t].then = "done"
         /\ thread'[t].last = 2 * N /\ Same(t)
         /\ dir' /\ manifest'.phase = "COMMITTED"
         /\ UNCHANGED <<disk, images, strays, started, edited, refused, errors, crashes>>
BY Types, ClearEffect, TransactionAssumption DEF JInv, Commit, WriteManifest

\* The handler recovers if there is a manifest and clears if there is none.
LEMMA CatchMoves ==
  ASSUME NEW t \in Threads, JInv(t), Catch(t)
  PROVE  /\ thread[t].at = "catch" /\ thread'[t].then = "end" /\ Same(t)
         /\ \/ thread'[t].at = "recover" /\ dir /\ manifest.phase # "none"
            \/ /\ thread'[t].at = "clear" /\ thread'[t].i = 1
               /\ thread'[t].last = 2 * FileOf(thread[t].i) /\ thread'[t].last \in 0..(2 * N)
               /\ dir => manifest.phase = "none"
         /\ UNCHANGED <<disk, journal, started, edited, refused, errors, crashes>>
<1> DEFINE last == 2 * FileOf(thread[t].i)
<1>t. thread \in [Threads -> Thread] /\ Placed(thread[t])
  BY Types DEF JInv
<1>1. thread[t].at = "catch" /\ last \in 0..(2 * N)
  BY <1>t, SlotFacts, TransactionAssumption DEF Catch, Placed, Files
<1>2. \/ Recover(t, "end") /\ dir /\ manifest.phase # "none"
      \/ Clear(t, "end", last) /\ (dir => manifest.phase = "none")
  BY DEF Catch
<1> HIDE DEF last
<1>3. /\ thread'[t].then = "end" /\ Same(t)
      /\ \/ thread'[t].at = "recover" /\ dir /\ manifest.phase # "none"
         \/ /\ thread'[t].at = "clear" /\ thread'[t].i = 1 /\ thread'[t].last = last
            /\ dir => manifest.phase = "none"
  BY <1>t, <1>1, <1>2, RecoverEffect, ClearEffect
<1> QED BY <1>1, <1>3 DEF Catch, last

\* A recovery does what the phase of the manifest says, or is refused.
LEMMA StartRecoveryMoves ==
  ASSUME NEW t \in Threads, JInv(t), StartRecovery(t)
  PROVE  /\ thread[t].at = "recover" /\ thread[t].then \in {"read", "check", "end"}
         /\ \/ thread'[t] = Idle /\ (~dir => thread[t].then = "end")
            \/ /\ thread[t].then \in {"read", "check"} /\ thread'[t].at = thread[t].then
               /\ thread'[t].then = thread[t].then /\ Same(t) /\ ~dir
            \/ /\ thread'[t].at = "sweep" /\ thread'[t].then = thread[t].then /\ Same(t)
               /\ dir /\ manifest.phase = "none"
            \/ /\ thread'[t].at = "restore" /\ thread'[t].i = N
               /\ thread'[t].then = thread[t].then /\ thread'[t].record = manifest
               /\ thread'[t].update = thread[t].update /\ thread'[t].read = thread[t].read
               /\ dir /\ manifest.phase = "PREPARED"
            \/ /\ thread'[t].at = "clear" /\ thread'[t].i = 1
               /\ thread'[t].then = thread[t].then /\ thread'[t].last = 2 * N /\ Same(t)
               /\ dir /\ manifest.phase = "COMMITTED"
         /\ thread'[t] = Idle /\ dir => manifest.phase = "none"
         /\ refused' \subseteq refused \cup {"stray"}
         /\ UNCHANGED <<disk, journal, started, edited, errors, crashes>>
<1> USE TransactionAssumption
<1>t. /\ thread \in [Threads -> Thread] /\ Placed(thread[t]) /\ manifest \in Manifest
      /\ thread[t].then \in {"read", "check", "done", "end"}
  BY Types DEF JInv
<1>0. thread[t].at = "recover" /\ thread[t].then \in {"read", "check", "end"}
  BY <1>t DEF StartRecovery, Placed
<1>a. /\ refused' \subseteq refused \cup {"stray"}
      /\ UNCHANGED <<disk, journal, started, edited, errors, crashes>>
  BY DEF StartRecovery, Refuse
<1>1. CASE ~dir
  <2>1. Return(t) BY <1>1 DEF StartRecovery
  <2> QED BY <1>t, <1>0, <1>a, <1>1, <2>1, ReturnEffect
<1>2. CASE dir /\ manifest.phase = "none"
  <2>1. Stop(t) \/ Goto(t, "sweep", 0) BY <1>2 DEF StartRecovery, Refuse
  <2> QED BY <1>t, <1>0, <1>a, <1>2, <2>1, StopEffect, GotoEffect DEF Steps
<1>3. CASE dir /\ manifest.phase = "PREPARED"
  <2>1. thread' = [thread EXCEPT ![t].at = "restore", ![t].i = N, ![t].record = manifest]
    BY <1>3 DEF StartRecovery
  <2>2. /\ thread'[t].at = "restore" /\ thread'[t].i = N
        /\ thread'[t].then = thread[t].then /\ thread'[t].record = manifest
        /\ thread'[t].update = thread[t].update /\ thread'[t].read = thread[t].read
    BY <1>t, <2>1, RestoreEffect
  <2> QED BY <1>0, <1>a, <1>3, <2>2 DEF Idle
<1>4. CASE dir /\ manifest.phase = "COMMITTED"
  <2>1. Clear(t, thread[t].then, 2 * N) BY <1>4 DEF StartRecovery
  <2>2. thread'[t].at # "idle"
    BY <1>t, <2>1, ClearEffect
  <2> QED BY <1>t, <1>0, <1>a, <1>4, <2>1, <2>2, ClearEffect DEF Idle
<1> QED BY <1>t, <1>1, <1>2, <1>3, <1>4 DEF Manifest

\* A sweep only removes, and the directory last.
LEMMA SweepMoves ==
  ASSUME NEW t \in Threads, JInv(t), Sweep(t)
  PROVE  /\ thread[t].at = "sweep" /\ thread[t].then \in {"read", "check", "end"}
         /\ dir /\ manifest.phase = "none"
         /\ images' \in [Slots -> Content]
         /\ \A s \in Slots : images'[s] \in {images[s], Absent}
         /\ ~dir' => \A s \in Slots : images'[s] = Absent
         /\ \/ thread'[t] = Idle
            \/ /\ thread[t].then \in {"read", "check"} /\ thread'[t].at = thread[t].then
               /\ thread'[t].then = thread[t].then /\ Same(t)
            \/ dir' /\ thread'[t] = thread[t]
         /\ UNCHANGED <<disk, manifest, started, edited, refused, errors, crashes>>
<1>t. /\ thread \in [Threads -> Thread] /\ Placed(thread[t]) /\ images \in [Slots -> Content]
  BY Types DEF JInv
<1>1. /\ thread[t].at = "sweep" /\ thread[t].then \in {"read", "check", "end"}
      /\ dir /\ manifest.phase = "none"
  BY <1>t DEF JInv, Sweep, Placed, Recovering
<1>2. /\ images' \in [Slots -> Content]
      /\ \A s \in Slots : images'[s] \in {images[s], Absent}
      /\ ~dir' => \A s \in Slots : images'[s] = Absent
  BY <1>t, <1>1 DEF Sweep, Content
<1>3. \/ thread'[t] = Idle
      \/ /\ thread[t].then \in {"read", "check"} /\ thread'[t].at = thread[t].then
         /\ thread'[t].then = thread[t].then /\ Same(t)
      \/ dir' /\ thread'[t] = thread[t]
  BY <1>t, <1>1, ReturnEffect DEF Sweep
<1> QED BY <1>1, <1>2, <1>3 DEF Sweep

\* A file is restored, or the recovery refused and nothing changed.
LEMMA RestoreFileMoves ==
  ASSUME NEW t \in Threads, JInv(t), RestoreFile(t), NEW f, f = thread[t].i
  PROVE  /\ thread[t].at = "restore" /\ f \in Files
         /\ thread[t].then \in {"read", "check", "end"}
         /\ manifest.phase = "PREPARED" /\ \A g \in Files : g > f => RolledBack(g)
         /\ \/ /\ thread'[t] = Idle /\ UNCHANGED disk
               /\ \/ ~Saved(f) /\ refused' = refused \cup {"image"}
                  \/ Saved(f) /\ ~Accounted(f) /\ refused' = refused \cup {"conflict"}
            \/ /\ Saved(f) /\ Accounted(f) /\ UNCHANGED refused
               /\ disk' = [disk EXCEPT ![f] = IF f \in manifest.existed THEN images[Before(f)]
                                              ELSE Absent]
               /\ thread'[t].then = thread[t].then /\ Same(t)
               /\ \/ /\ f = 1 /\ thread'[t].at = "clear" /\ thread'[t].i = 1
                     /\ thread'[t].last = 2 * N
                  \/ f # 1 /\ thread'[t].at = "restore" /\ thread'[t].i = f - 1
         /\ UNCHANGED <<journal, started, edited, errors, crashes>>
<1> USE TransactionAssumption
<1>t. /\ thread \in [Threads -> Thread] /\ Placed(thread[t])
      /\ thread[t].then \in {"read", "check", "done", "end"}
  BY Types DEF JInv
<1>0. /\ thread[t].at = "restore" /\ f \in Files /\ thread[t].then \in {"read", "check", "end"}
      /\ manifest.phase = "PREPARED" /\ thread[t].record = manifest
      /\ \A g \in Files : g > f => RolledBack(g)
  BY <1>t DEF JInv, RestoreFile, Placed, Recovering
<1>1. /\ Restorable(t, f) <=> Saved(f)
      /\ disk[f] \in Expected(t, f) <=> Accounted(f)
      /\ BeforeContent(t, f) = IF f \in manifest.existed THEN images[Before(f)] ELSE Absent
  BY <1>0 DEF Restorable, Saved, Expected, Accounted, BeforeContent
<1>2. CASE Saved(f) /\ Accounted(f)
  <2>0. /\ disk' = [disk EXCEPT ![f] = BeforeContent(t, f)]
        /\ \/ f = 1 /\ Clear(t, thread[t].then, 2 * N)
           \/ f # 1 /\ Goto(t, "restore", f - 1)
        /\ UNCHANGED <<journal, started, edited, refused, errors, crashes>>
    BY <1>1, <1>2 DEF RestoreFile
  <2>1. CASE f = 1 /\ Clear(t, thread[t].then, 2 * N)
    BY <1>t, <1>0, <1>1, <1>2, <2>0, <2>1, ClearEffect
  <2>2. CASE f # 1 /\ Goto(t, "restore", f - 1)
    <3>1. f - 1 \in 0..(2 * N + 2) BY <1>0, <2>2 DEF Files
    <3> QED BY <1>t, <1>0, <1>1, <1>2, <2>0, <2>2, <3>1, GotoEffect DEF Steps
  <2> QED BY <2>0, <2>1, <2>2
<1>3. CASE ~(Saved(f) /\ Accounted(f))
  BY <1>t, <1>0, <1>1, <1>3, StopEffect DEF RestoreFile, Refuse
<1> QED BY <1>2, <1>3

\* A clearing removes an image, then the manifest, then the directory if it is empty.
LEMMA ClearMoves ==
  ASSUME NEW t \in Threads, JInv(t), ClearStep(t), NEW s, s = thread[t].i
  PROVE  /\ thread[t].at = "clear" /\ s \in 1..(thread[t].last + 2)
         /\ \/ /\ s <= thread[t].last /\ s \in Slots
               /\ images' = [images EXCEPT ![s] = Absent] /\ UNCHANGED <<dir, manifest>>
               /\ thread'[t].at = "clear" /\ thread'[t].i = s + 1 /\ s + 1 # thread[t].last + 2
               /\ thread'[t].then = thread[t].then /\ thread'[t].last = thread[t].last /\ Same(t)
            \/ /\ s = thread[t].last + 1
               /\ manifest' = NoManifest /\ UNCHANGED <<dir, images>>
               /\ thread'[t].at = "clear" /\ thread'[t].i = s + 1
               /\ thread'[t].then = thread[t].then /\ thread'[t].last = thread[t].last /\ Same(t)
            \/ /\ s = thread[t].last + 2 /\ manifest.phase = "none"
               /\ dir /\ strays = {} /\ \A k \in Slots : images[k] = Absent
               /\ ~dir' /\ UNCHANGED <<images, manifest>>
               /\ \/ thread[t].then \in {"done", "end"} /\ thread'[t] = Idle
                  \/ /\ thread[t].then \in {"read", "check"} /\ thread'[t].at = thread[t].then
                     /\ thread'[t].then = thread[t].then /\ Same(t)
            \/ /\ s = thread[t].last + 2 /\ manifest.phase = "none" /\ UNCHANGED journal
               /\ ~(dir /\ strays = {} /\ \A k \in Slots : images[k] = Absent)
               /\ \/ thread'[t] = Idle
                  \/ /\ thread[t].then = "done" /\ thread'[t].at = "catch"
                     /\ thread'[t].i = 2 * N /\ thread'[t].then = "done" /\ Same(t)
         /\ UNCHANGED <<disk, strays, started, edited, refused, errors, crashes>>
<1> USE TransactionAssumption
<1>t. /\ thread \in [Threads -> Thread] /\ Placed(thread[t]) /\ images \in [Slots -> Content]
      /\ thread[t].last \in 0..(2 * N)
  BY Types DEF JInv
<1>0. /\ thread[t].at = "clear" /\ s \in 1..(thread[t].last + 2)
      /\ UNCHANGED <<disk, strays, started, edited, refused, errors, crashes>>
  BY <1>t DEF ClearStep, Placed, journal
<1>1. CASE s <= thread[t].last
  <2>0. /\ images' = [images EXCEPT ![s] = Absent] /\ UNCHANGED <<dir, manifest>>
        /\ Goto(t, "clear", s + 1) /\ s + 1 \in 0..(2 * N + 2) /\ s + 1 # thread[t].last + 2
        /\ s \in Slots
    BY <1>t, <1>0, <1>1 DEF ClearStep, Slots
  <2> QED BY <1>t, <1>0, <1>1, <2>0, GotoEffect DEF Steps
<1>2. CASE s = thread[t].last + 1
  <2>0. /\ manifest' = NoManifest /\ UNCHANGED <<dir, images>>
        /\ Goto(t, "clear", s + 1) /\ s + 1 \in 0..(2 * N + 2)
    BY <1>t, <1>0, <1>2 DEF ClearStep
  <2> QED BY <1>t, <1>0, <1>2, <2>0, GotoEffect DEF Steps
<1>3. CASE s = thread[t].last + 2
  <2>0. manifest.phase = "none" BY <1>0, <1>3 DEF JInv, Recovering
  <2>1. CASE dir /\ strays = {} /\ \A k \in Slots : images[k] = Absent
    <3>1. Return(t) /\ dir' = FALSE /\ UNCHANGED <<images, manifest>>
      <4>1. ~(s <= thread[t].last) /\ s # thread[t].last + 1 BY <1>t, <1>3
      <4> QED BY <2>1, <4>1 DEF ClearStep
    <3> QED BY <1>t, <1>0, <1>3, <2>0, <2>1, <3>1, ReturnEffect
  <2>2. CASE ~(dir /\ strays = {} /\ \A k \in Slots : images[k] = Absent)
    <3>1. /\ UNCHANGED journal
          /\ \/ Stop(t)
             \/ thread[t].then = "done" /\ Goto(t, "catch", 2 * N)
      BY <1>t, <1>3, <2>2 DEF ClearStep
    <3> QED BY <1>t, <1>0, <1>3, <2>0, <2>2, <3>1, StopEffect, GotoEffect DEF Steps
  <2> QED BY <2>1, <2>2
<1> QED BY <1>t, <1>0, <1>1, <1>2, <1>3

\* An error runs the handler in the write phase and ends the request elsewhere.
LEMMA FailMoves ==
  ASSUME NEW t \in Threads, JInv(t), Fail(t)
  PROVE  /\ \/ InTry(t) /\ thread'[t].at = "catch" /\ thread'[t].then = thread[t].then /\ Same(t)
               /\ thread[t].then \in {"check", "done"} /\ thread[t].at # "idle"
               /\ thread'[t].i = IF thread[t].at = "image" THEN thread[t].i ELSE 2 * N
            \/ ~InTry(t) /\ thread'[t] = Idle
         /\ thread[t].at \notin {"idle", "catch"}
         /\ errors' = errors + 1
         /\ UNCHANGED <<disk, journal, started, edited, refused, crashes>>
<1> USE TransactionAssumption
<1>t. /\ thread \in [Threads -> Thread] /\ Placed(thread[t]) /\ thread[t].i \in 0..(2 * N + 2)
  BY Types DEF JInv
<1>1. CASE InTry(t)
  <2> DEFINE i == IF thread[t].at = "image" THEN thread[t].i ELSE 2 * N
  <2>1. Goto(t, "catch", i) /\ i \in 0..(2 * N + 2) BY <1>t, <1>1 DEF Fail
  <2>2. thread[t].then \in {"check", "done"} /\ thread[t].at # "idle"
    BY <1>t, <1>1 DEF InTry, Placed
  <2> HIDE DEF i
  <2>3. /\ thread'[t].at = "catch" /\ thread'[t].then = thread[t].then /\ Same(t)
        /\ thread'[t].i = i
    BY <1>t, <2>1, GotoEffect DEF Steps
  <2> QED BY <1>1, <2>2, <2>3 DEF Fail, i
<1>2. CASE ~InTry(t)
  BY <1>t, <1>2, StopEffect DEF Fail
<1> QED BY <1>1, <1>2

------------------------------------------------------------------------------
(* The journal and the request keep agreeing *)

\* Every step keeps what the journal and the request say of each other.
LEMMA JInvStep ==
  ASSUME NEW t \in Threads, Threads = {t}, JInv(t), [Next]_vars
  PROVE  JInv(t)'
<1> USE TransactionAssumption
<1>0. Typed /\ Typed' BY TypedStep DEF JInv
<1>a. Provenance(t) /\ Fresh(t) /\ Journal /\ Recovering(t) /\ Writing(t) BY DEF JInv
<1>t. /\ thread \in [Threads -> Thread] /\ thread[t] \in Thread /\ Placed(thread[t])
      /\ thread[t].at \in Steps /\ thread[t].i \in 0..(2 * N + 2)
      /\ thread[t].last \in 0..(2 * N)
      /\ thread[t].then \in {"read", "check", "done", "end"}
      /\ thread[t].update \in Content /\ thread[t].read \in [Files -> Content]
      /\ thread[t].record \in Manifest
      /\ disk \in [Files -> Content] /\ manifest \in Manifest
      /\ images \in [Slots -> Content] /\ dir \in BOOLEAN
  BY <1>0, Types
<1>1. ASSUME NEW u \in Updates, Request(t, u) PROVE JInv(t)'
  <2>0. /\ thread'[t].at = "recover" /\ thread'[t].then = "read" /\ thread'[t].update = u
        /\ thread'[t].read = thread[t].read /\ u \notin started /\ started' = started \cup {u}
        /\ UNCHANGED <<disk, images, edited>>
    BY <1>1, <1>t, RequestEffect DEF Request, journal
  <2>1. Provenance(t)' BY <1>a, <2>0 DEF Provenance, Known
  <2>2. Fresh(t)'
    <3>1. u \notin Known BY <1>0, <2>0 DEF Known, Typed, TypeOK
    <3>2. \A f \in Files : disk[f] # u /\ images[Before(f)] # u
      BY <1>a, <3>1, SlotFacts DEF Provenance
    <3> QED BY <2>0, <3>2 DEF Fresh, Unwritten
  <2>3. Journal' BY <1>1, <1>a DEF Journal, Request, journal
  <2>4. Recovering(t)' BY <1>1, <1>t, RequestEffect DEF Recovering
  <2>5. Writing(t)' BY <1>1, <1>t, RequestEffect DEF Writing
  <2> QED BY <1>0, <2>1, <2>2, <2>3, <2>4, <2>5 DEF JInv
<1>2. ASSUME RequestNothing(t) PROVE JInv(t)'
  <2>0. Recover(t, "end") BY <1>2 DEF RequestNothing
  <2>1. Provenance(t)' BY <1>2, <1>a, <1>t, <2>0, RecoverEffect DEF Provenance, RequestNothing, Known, journal, Same
  <2>2. Fresh(t)' BY <1>t, <2>0, RecoverEffect DEF Fresh, Unwritten
  <2>3. Journal' BY <1>2, <1>a DEF Journal, RequestNothing, journal
  <2>4. Recovering(t)' BY <1>t, <2>0, RecoverEffect DEF Recovering
  <2>5. Writing(t)' BY <1>t, <2>0, RecoverEffect DEF Writing
  <2> QED BY <1>0, <2>1, <2>2, <2>3, <2>4, <2>5 DEF JInv
<1>3. ASSUME ReadFiles(t) PROVE JInv(t)'
  <2>1. Provenance(t)' BY <1>3, <1>a, <1>t, ReadEffect DEF Provenance, ReadFiles, Known, journal
  <2>2. Fresh(t)' BY <1>3, <1>a, <1>t, ReadEffect DEF Fresh, Unwritten, ReadFiles, Placed, journal
  <2>3. Journal' BY <1>3, <1>a DEF Journal, ReadFiles, journal
  <2>4. Recovering(t)' BY <1>3, <1>t, ReadEffect DEF Recovering
  <2>5. Writing(t)' BY <1>3, <1>t, ReadEffect DEF Writing
  <2> QED BY <1>0, <2>1, <2>2, <2>3, <2>4, <2>5 DEF JInv
<1>4. ASSUME CheckUnchanged(t) PROVE JInv(t)'
  <2>0. /\ \/ /\ thread'[t].at = "mkdir" /\ thread'[t].then = thread[t].then /\ Same(t)
              /\ disk = thread[t].read
           \/ thread'[t] = Idle
        /\ thread[t].at = "check" /\ UNCHANGED <<disk, journal, started, edited>>
    BY <1>4, CheckMoves
  <2>1. Provenance(t)' BY <1>a, <1>t, <2>0 DEF Provenance, Known, journal, Same, Idle
  <2>2. Fresh(t)' BY <1>a, <1>t, <2>0 DEF Fresh, Unwritten, Same, Idle, journal
  <2>3. Journal' BY <1>a, <2>0 DEF Journal, journal
  <2>4. Recovering(t)' BY <2>0 DEF Recovering, Idle
  <2>5. Writing(t)' BY <2>0 DEF Writing, Idle, Same
  <2> QED BY <1>0, <2>1, <2>2, <2>3, <2>4, <2>5 DEF JInv
<1>5. ASSUME MakeJournal(t) PROVE JInv(t)'
  <2>0. /\ \/ /\ thread'[t].at = "image" /\ thread'[t].i = 1 /\ thread'[t].then = thread[t].then
              /\ ~dir /\ Same(t)
           \/ dir /\ thread'[t] = Idle
        /\ thread[t].at = "mkdir" /\ dir'
        /\ UNCHANGED <<disk, images, manifest, started, edited>>
    BY <1>5, MakeJournalMoves
  <2>1. Provenance(t)' BY <1>a, <1>t, <2>0 DEF Provenance, Known, Same, Idle
  <2>2. Fresh(t)' BY <1>a, <1>t, <2>0 DEF Fresh, Unwritten, Same, Idle
  <2>3. Journal' BY <1>a, <2>0 DEF Journal
  <2>4. Recovering(t)' BY <2>0 DEF Recovering, Idle
  <2>5. Writing(t)' BY <1>a, <2>0 DEF Writing, Journal, Idle, Same, Slots
  <2> QED BY <1>0, <2>1, <2>2, <2>3, <2>4, <2>5 DEF JInv
<1>6. ASSUME WriteImage(t) PROVE JInv(t)'
  <2> DEFINE s == thread[t].i
  <2>0. /\ thread[t].at = "image" /\ s \in Slots /\ thread[t].then = "check"
        /\ dir /\ manifest.phase = "none"
        /\ images' = [images EXCEPT ![s] = Image(t, s)]
        /\ thread'[t].then = "check" /\ Same(t)
        /\ \/ s = 2 * N /\ thread'[t].at = "prepare"
           \/ s # 2 * N /\ thread'[t].at = "image" /\ thread'[t].i = s + 1
        /\ UNCHANGED <<disk, dir, manifest, started, edited>>
    BY <1>6, WriteImageMoves
  <2>a. /\ FileOf(s) \in Files
        /\ Image(t, s) \in {thread[t].update, thread[t].read[FileOf(s)]}
        /\ \A f \in Files : /\ s = After(f) => Image(t, s) = thread[t].update
                            /\ s = Before(f) => Image(t, s) = thread[t].read[f]
    BY <2>0, SlotFacts DEF Image
  <2> HIDE DEF s
  <2>1. Provenance(t)'
    <3>1. Image(t, s) \in Known BY <2>a, <1>a DEF Provenance, Known
    <3> QED BY <1>a, <1>t, <2>0, <3>1 DEF Provenance, Known, Same
  <2>2. Fresh(t)' 
    <3>1. thread'[t].update \in Updates BY <1>a, <2>0 DEF Fresh, Same
    <3>2. \A f \in Files : images'[Before(f)] # thread[t].update
      BY <1>a, <1>t, <2>0, <2>a, SlotFacts DEF Fresh, Unwritten
    <3> QED BY <1>a, <2>0, <3>1, <3>2 DEF Fresh, Unwritten, Same
  <2>3. Journal' 
    <3>1. thread[t].update \in Updates BY <1>a, <2>0 DEF Fresh
    <3> QED BY <1>a, <1>t, <2>0, <2>a, <3>1, SlotFacts DEF Journal
  <2>4. Recovering(t)' BY <2>0 DEF Recovering
  <2>5. Writing(t)'
    <3>1. \A k \in Slots : images[k] = IF k < s THEN Image(t, k) ELSE Absent
      BY <1>a, <2>0 DEF Writing, s
    <3>2. \A k \in Slots : images'[k] = IF k < s + 1 THEN Image(t, k) ELSE Absent
      BY <1>t, <2>0, <3>1 DEF Slots
    <3>3. \A k \in Slots : Image(t, k)' = Image(t, k)
      BY <2>0 DEF Image, Same
    <3>4. CASE s = 2 * N
      <4>1. \A k \in Slots : images'[k] = Image(t, k) BY <3>2, <3>4 DEF Slots
      <4>2. Full(t)' BY <2>0, <4>1, SlotFacts DEF Full, Image, Same
      <4> QED BY <1>a, <2>0, <3>4, <4>2 DEF Writing, Same
    <3>5. CASE s # 2 * N
      BY <1>a, <2>0, <3>2, <3>3, <3>5 DEF Writing, Same
    <3> QED BY <3>4, <3>5
  <2> QED BY <1>0, <2>1, <2>2, <2>3, <2>4, <2>5 DEF JInv
<1>7. ASSUME Prepare(t) PROVE JInv(t)'
  <2>0. /\ thread[t].at = "prepare" /\ thread[t].then = "check"
        /\ thread'[t].at = "replace" /\ thread'[t].i = 1 /\ thread'[t].then = "check" /\ Same(t)
        /\ dir' /\ manifest'.phase = "PREPARED"
        /\ manifest'.existed = {f \in Files : thread[t].read[f] # Absent}
        /\ UNCHANGED <<disk, images, started, edited>>
    BY <1>7, PrepareMoves
  <2>a. Full(t) /\ disk = thread[t].read BY <1>a, <2>0 DEF Writing
  <2>b. /\ thread[t].update \in Updates
        /\ \A f \in Files : thread[t].read[f] # thread[t].update
    BY <1>a, <2>0 DEF Fresh, Unwritten
  <2>1. Provenance(t)' BY <1>a, <1>t, <2>0 DEF Provenance, Known, Same
  <2>2. Fresh(t)' BY <2>0, <2>b DEF Fresh, Unwritten, Same
  <2>3. Journal' BY <2>0, <2>a, <2>b DEF Journal, Full
  <2>4. Recovering(t)' BY <2>0 DEF Recovering
  <2>5. Writing(t)' BY <1>t, <2>0, <2>a, <2>b DEF Writing, Full, Same, Files
  <2> QED BY <1>0, <2>1, <2>2, <2>3, <2>4, <2>5 DEF JInv
<1>8. ASSUME ReplaceFile(t) PROVE JInv(t)'
  <2> DEFINE f == thread[t].i
  <2>0. /\ thread[t].at = "replace" /\ f \in Files /\ thread[t].then = "check"
        /\ disk' = [disk EXCEPT ![f] = thread[t].update]
        /\ thread'[t].then = "check" /\ Same(t)
        /\ \/ f = N /\ thread'[t].at = "commit"
           \/ f # N /\ thread'[t].at = "replace" /\ thread'[t].i = f + 1
        /\ UNCHANGED <<dir, images, manifest, started, edited>>
    BY <1>8, ReplaceFileMoves
  <2> HIDE DEF f
  <2>1. Provenance(t)' BY <1>a, <1>t, <2>0 DEF Provenance, Known, Same
  <2>2. Fresh(t)' BY <1>a, <2>0 DEF Fresh, Unwritten, Same
  <2>3. Journal'
    <3>1. Full(t) /\ manifest.phase = "PREPARED"
          /\ manifest.existed = {g \in Files : thread[t].read[g] # Absent}
      BY <1>a, <2>0 DEF Writing
    <3> QED BY <1>a, <1>t, <2>0, <3>1 DEF Journal, Full
  <2>4. Recovering(t)' BY <2>0 DEF Recovering
  <2>5. Writing(t)'
    <3>1. \A g \in Files : disk[g] = IF g < f THEN thread[t].update ELSE thread[t].read[g]
      BY <1>a, <2>0 DEF Writing, f
    <3>2. \A g \in Files : disk'[g] = IF g < f + 1 THEN thread[t].update ELSE thread[t].read[g]
      BY <1>t, <2>0, <3>1 DEF Files
    <3>3. f = N => \A g \in Files : disk'[g] = thread[t].update
      BY <3>2 DEF Files
    <3> QED BY <1>a, <2>0, <3>2, <3>3 DEF Writing, Same, Full
  <2> QED BY <1>0, <2>1, <2>2, <2>3, <2>4, <2>5 DEF JInv
<1>9. ASSUME Commit(t) PROVE JInv(t)'
  <2>0. /\ thread[t].at = "commit"
        /\ thread'[t].at = "clear" /\ thread'[t].i = 1 /\ thread'[t].then = "done"
        /\ thread'[t].last = 2 * N /\ Same(t)
        /\ dir' /\ manifest'.phase = "COMMITTED"
        /\ UNCHANGED <<disk, images, started, edited>>
    BY <1>9, CommitMoves
  <2>1. Provenance(t)' BY <1>a, <1>t, <2>0 DEF Provenance, Known, Same
  <2>2. Fresh(t)' BY <1>a, <1>t, <2>0 DEF Fresh, Unwritten, Same, Placed
  <2>3. Journal' BY <1>a, <2>0 DEF Journal
  <2>4. Recovering(t)' BY <2>0 DEF Recovering
  <2>5. Writing(t)' BY <2>0 DEF Writing
  <2> QED BY <1>0, <2>1, <2>2, <2>3, <2>4, <2>5 DEF JInv
<1>10. ASSUME Catch(t) PROVE JInv(t)'
  <2>0. /\ thread[t].at = "catch" /\ thread'[t].then = "end" /\ Same(t)
        /\ \/ thread'[t].at = "recover"
           \/ /\ thread'[t].at = "clear" /\ thread'[t].i = 1 /\ thread'[t].last \in 0..(2 * N)
              /\ dir => manifest.phase = "none"
        /\ UNCHANGED <<disk, journal, started, edited>>
    BY <1>10, CatchMoves
  <2>1. Provenance(t)' BY <1>a, <1>t, <2>0 DEF Provenance, Known, Same, journal
  <2>2. Fresh(t)' BY <2>0 DEF Fresh, Unwritten
  <2>3. Journal' BY <1>a, <2>0 DEF Journal, journal
  <2>4. Recovering(t)' BY <1>a, <2>0 DEF Recovering, Journal, journal
  <2>5. Writing(t)' BY <2>0 DEF Writing
  <2> QED BY <1>0, <2>1, <2>2, <2>3, <2>4, <2>5 DEF JInv
<1>11. ASSUME StartRecovery(t) PROVE JInv(t)'
  <2>0. thread[t].then \in {"read", "check", "end"} /\ UNCHANGED <<disk, journal, started, edited>>
    BY <1>11, StartRecoveryMoves
  <2>a. \/ thread'[t] = Idle
        \/ /\ thread'[t].at \in {"read", "check", "sweep", "restore", "clear"}
           /\ thread'[t].then = thread[t].then
           /\ thread'[t].update = thread[t].update /\ thread'[t].read = thread[t].read
    BY <1>11, StartRecoveryMoves DEF Same
  <2>b. /\ thread'[t].at = "sweep" => manifest.phase = "none" /\ dir
        /\ thread'[t].at = "restore" =>
             /\ manifest.phase = "PREPARED" /\ thread'[t].record = manifest /\ thread'[t].i = N
        /\ thread'[t].at = "clear" => /\ manifest.phase = "COMMITTED" /\ thread'[t].i = 1
                                     /\ thread'[t].last = 2 * N
    BY <1>11, StartRecoveryMoves DEF Idle
  <2>1. Provenance(t)' BY <1>a, <1>t, <2>0, <2>a DEF Provenance, Known, journal, Idle
  <2>2. Fresh(t)'
    <3>1. CASE thread'[t] = Idle BY <3>1 DEF Fresh, Unwritten, Idle
    <3>2. CASE thread'[t] # Idle
      <4>1. thread[t].at = "recover" BY <1>11 DEF StartRecovery
      <4> QED BY <1>a, <2>0, <2>a, <3>2, <4>1 DEF Fresh, Unwritten, journal
    <3> QED BY <3>1, <3>2
  <2>3. Journal' BY <1>a, <2>0 DEF Journal, journal
  <2>4. Recovering(t)' BY <1>t, <2>0, <2>b DEF Recovering, journal, Files
  <2>5. Writing(t)' BY <2>a DEF Writing, Idle
  <2> QED BY <1>0, <2>1, <2>2, <2>3, <2>4, <2>5 DEF JInv
<1>12. ASSUME Sweep(t) PROVE JInv(t)'
  <2>0. /\ thread[t].at = "sweep" /\ thread[t].then \in {"read", "check", "end"}
        /\ dir /\ manifest.phase = "none"
    BY <1>12, SweepMoves
  <2>a. /\ images' \in [Slots -> Content]
        /\ \A s \in Slots : images'[s] \in {images[s], Absent}
        /\ ~dir' => \A s \in Slots : images'[s] = Absent
        /\ UNCHANGED <<disk, manifest, started, edited>>
    BY <1>12, SweepMoves
  <2>b. \/ thread'[t] = Idle
        \/ /\ thread[t].then \in {"read", "check"} /\ thread'[t].at = thread[t].then
           /\ thread'[t].then = thread[t].then /\ Same(t)
        \/ dir' /\ thread'[t] = thread[t]
    BY <1>12, SweepMoves
  <2>1. Provenance(t)' BY <1>a, <1>t, <2>a, <2>b DEF Provenance, Known, Same, Idle
  <2>2. Fresh(t)'
    <3>1. CASE thread'[t] = Idle BY <3>1 DEF Fresh, Unwritten, Idle
    <3>2. CASE thread'[t] # Idle
      <4>1. thread'[t].then = thread[t].then /\ Same(t)
        BY <2>b, <3>2 DEF Same
      <4>2. Unwritten(t)' => thread[t].update # Absent /\ Unwritten(t)
        BY <1>a, <2>0, <4>1 DEF Fresh, Unwritten
      <4>3. \A f \in Files : Unwritten(t)' => images'[Before(f)] # thread[t].update
        BY <1>a, <2>a, <4>2, SlotFacts DEF Fresh
      <4> QED BY <1>a, <2>0, <2>a, <4>1, <4>2, <4>3 DEF Fresh, Same
    <3> QED BY <3>1, <3>2
  <2>3. Journal' BY <1>a, <2>0, <2>a, SlotFacts DEF Journal
  <2>4. Recovering(t)' BY <2>0, <2>a, <2>b DEF Recovering, Idle
  <2>5. Writing(t)' BY <2>0, <2>b DEF Writing, Idle
  <2> QED BY <1>0, <2>1, <2>2, <2>3, <2>4, <2>5 DEF JInv
<1>13. ASSUME RestoreFile(t) PROVE JInv(t)'
  <2> DEFINE f == thread[t].i
  <2>0. /\ thread[t].at = "restore" /\ f \in Files /\ thread[t].then \in {"read", "check", "end"}
        /\ manifest.phase = "PREPARED" /\ \A g \in Files : g > f => RolledBack(g)
        /\ UNCHANGED <<journal, started, edited>>
    BY <1>13, RestoreFileMoves
  <2>a. CASE thread'[t] = Idle /\ UNCHANGED disk
    <3>1. Provenance(t)' BY <1>a, <2>0, <2>a DEF Provenance, Known, Idle, journal
    <3>2. Journal' BY <1>a, <2>0, <2>a DEF Journal, journal
    <3> QED BY <1>0, <2>a, <3>1, <3>2 DEF JInv, Fresh, Unwritten, Recovering, Writing, Idle
  <2>b. CASE /\ Saved(f)
             /\ disk' = [disk EXCEPT ![f] = IF f \in manifest.existed THEN images[Before(f)]
                                            ELSE Absent]
             /\ thread'[t].then = thread[t].then /\ Same(t)
             /\ \/ /\ f = 1 /\ thread'[t].at = "clear" /\ thread'[t].i = 1
                   /\ thread'[t].last = 2 * N
                \/ f # 1 /\ thread'[t].at = "restore" /\ thread'[t].i = f - 1
    <3>1. /\ images[After(f)] # Absent
          /\ f \in manifest.existed => images[Before(f)] # Absent
          /\ disk'[f] = (IF f \in manifest.existed THEN images[Before(f)] ELSE Absent)
          /\ \A g \in Files \ {f} : disk'[g] = disk[g]
      BY <1>t, <2>0, <2>b DEF Saved
    <3> HIDE DEF f
    <3>2. Provenance(t)'
      <4>1. \A g \in Files : disk'[g] \in Known
        BY <1>a, <2>0, <3>1, SlotFacts DEF Provenance, Known
      <4> QED BY <1>a, <2>0, <2>b, <4>1 DEF Provenance, Known, Same, journal
    <3>3. Fresh(t)'
      <4>1. Unwritten(t)' => Unwritten(t) /\ thread[t].update # Absent
        BY <1>a, <2>0, <2>b DEF Fresh, Unwritten
      <4> QED BY <1>a, <2>0, <2>b, <3>1, <4>1 DEF Fresh, Same, journal
    <3>4. Journal' BY <1>a, <2>0, <3>1 DEF Journal, journal
    <3>5. Recovering(t)'
      <4>1. \A g \in Files : g = f => RolledBack(g)'
        <5>1. disk'[f] # images[After(f)] BY <1>a, <2>0, <3>1 DEF Journal
        <5> QED BY <2>0, <5>1 DEF RolledBack, journal
      <4>2. \A g \in Files : g > f => RolledBack(g)'
        BY <1>t, <2>0, <3>1 DEF RolledBack, journal, Files
      <4>3. \A g \in Files : g > f - 1 => RolledBack(g)'
        <5>1. \A g \in Files : g > f - 1 => g = f \/ g > f BY <2>0 DEF Files
        <5> QED BY <4>1, <4>2, <5>1
      <4>4. manifest' = manifest /\ thread'[t].record = manifest
        BY <1>a, <2>0, <2>b DEF Recovering, Same, journal
      <4> QED BY <2>0, <2>b, <4>3, <4>4 DEF Recovering, Files
    <3>6. Writing(t)' BY <2>b DEF Writing
    <3> QED BY <1>0, <3>2, <3>3, <3>4, <3>5, <3>6 DEF JInv
  <2> QED BY <1>13, <2>a, <2>b, RestoreFileMoves
<1>14. ASSUME ClearStep(t) PROVE JInv(t)'
  <2> DEFINE s == thread[t].i
  <2>0. thread[t].at = "clear" /\ UNCHANGED <<disk, started, edited>>
    BY <1>14, ClearMoves
  <2>a. CASE /\ s <= thread[t].last /\ s \in Slots
             /\ images' = [images EXCEPT ![s] = Absent] /\ UNCHANGED <<dir, manifest>>
             /\ thread'[t].at = "clear" /\ thread'[t].i = s + 1 /\ s + 1 # thread[t].last + 2
             /\ thread'[t].then = thread[t].then /\ thread'[t].last = thread[t].last /\ Same(t)
    <3> HIDE DEF s
    <3>1. \A k \in Slots : images'[k] \in {images[k], Absent}
      BY <1>t, <2>a
    <3>2. Provenance(t)' BY <1>a, <2>0, <2>a, <3>1 DEF Provenance, Known, Same
    <3>3. Fresh(t)'
      <4>1. Unwritten(t)' => Unwritten(t) /\ thread[t].update # Absent
        BY <1>a, <2>0, <2>a DEF Fresh, Unwritten
      <4> QED BY <1>a, <2>0, <2>a, <3>1, <4>1, SlotFacts DEF Fresh, Same
    <3>4. Journal' BY <1>a, <2>0, <2>a, <3>1, SlotFacts DEF Journal, Recovering, RolledBack
    <3>5. Recovering(t)'
      BY <1>a, <2>0, <2>a, <3>1, SlotFacts DEF Recovering, RolledBack
    <3>6. Writing(t)' BY <2>a DEF Writing
    <3> QED BY <1>0, <3>2, <3>3, <3>4, <3>5, <3>6 DEF JInv
  <2>b. CASE /\ manifest' = NoManifest /\ UNCHANGED <<dir, images>>
             /\ thread'[t].at = "clear" /\ thread'[t].then = thread[t].then /\ Same(t)
    <3>1. Provenance(t)' BY <1>a, <2>0, <2>b DEF Provenance, Known, Same
    <3>2. Fresh(t)' BY <1>a, <2>0, <2>b DEF Fresh, Unwritten, Same
    <3>3. Journal' BY <1>a, <2>b DEF Journal, NoManifest
    <3>4. Recovering(t)' BY <2>b DEF Recovering, NoManifest
    <3>5. Writing(t)' BY <2>b DEF Writing
    <3> QED BY <1>0, <3>1, <3>2, <3>3, <3>4, <3>5 DEF JInv
  <2>c. CASE /\ manifest.phase = "none" /\ UNCHANGED <<images, manifest>>
             /\ ~dir' => ~dir \/ \A k \in Slots : images[k] = Absent
             /\ \/ thread'[t] = Idle
                \/ /\ thread[t].then \in {"read", "check"} /\ thread'[t].at = thread[t].then
                   /\ thread'[t].then = thread[t].then /\ Same(t)
                \/ /\ thread[t].then = "done" /\ thread'[t].at = "catch"
                   /\ thread'[t].then = "done" /\ Same(t)
    <3>1. Provenance(t)' BY <1>a, <2>0, <2>c DEF Provenance, Known, Same, Idle
    <3>2. Fresh(t)' BY <1>a, <2>0, <2>c DEF Fresh, Unwritten, Same, Idle
    <3>3. Journal' BY <1>a, <2>c DEF Journal
    <3>4. Recovering(t)' BY <2>c DEF Recovering, Idle
    <3>5. Writing(t)' BY <2>c DEF Writing, Idle
    <3> QED BY <1>0, <3>1, <3>2, <3>3, <3>4, <3>5 DEF JInv
  <2> QED BY <1>14, <2>a, <2>b, <2>c, ClearMoves DEF journal
<1>15. ASSUME Fail(t) PROVE JInv(t)'
  <2>0. /\ UNCHANGED <<disk, journal, started, edited>>
        /\ \/ thread'[t] = Idle
           \/ /\ thread[t].then \in {"check", "done"} /\ thread[t].at # "idle"
              /\ thread'[t].at = "catch" /\ thread'[t].then = thread[t].then /\ Same(t)
    BY <1>15, FailMoves
  <2>1. Provenance(t)' BY <1>a, <1>t, <2>0 DEF Provenance, Known, Same, Idle, journal
  <2>2. Fresh(t)' BY <1>a, <2>0 DEF Fresh, Unwritten, Idle, Same
  <2>3. Journal' BY <1>a, <2>0 DEF Journal, journal
  <2>4. Recovering(t)' BY <2>0 DEF Recovering, Idle
  <2>5. Writing(t)' BY <2>0 DEF Writing, Idle
  <2> QED BY <1>0, <2>1, <2>2, <2>3, <2>4, <2>5 DEF JInv
<1>16. ASSUME Crash PROVE JInv(t)'
  <2>0. thread'[t] = Idle /\ UNCHANGED <<disk, dir, images, manifest, started, edited>>
    BY <1>16 DEF Crash
  <2>1. Provenance(t)' BY <1>a, <2>0 DEF Provenance, Known, Idle
  <2>2. Fresh(t)' BY <2>0 DEF Fresh, Unwritten, Idle
  <2>3. Journal' BY <1>a, <2>0 DEF Journal
  <2> QED BY <1>0, <2>0, <2>1, <2>2, <2>3 DEF JInv, Recovering, Writing, Idle
<1>17. ASSUME NEW f \in Files, NEW e \in Edits, Edit(f, e) PROVE JInv(t)'
  <2>0. /\ thread[t].at \in {"idle", "read", "check"}
        /\ disk' = [disk EXCEPT ![f] = e] /\ edited' = edited \cup {e}
        /\ UNCHANGED <<dir, images, manifest, thread, started>>
    BY <1>17 DEF Edit, Quiet, journal
  <2>1. Provenance(t)' BY <1>a, <1>t, <2>0 DEF Provenance, Known
  <2>2. Fresh(t)'
    <3>1. thread[t].at # "idle" => thread[t].update \in Updates
      BY <1>a, <1>t, <2>0 DEF Fresh, Placed
    <3> QED BY <1>a, <1>t, <2>0, <3>1 DEF Fresh, Unwritten
  <2>3. Journal' BY <1>a, <1>t, <2>0 DEF Journal
  <2>4. Recovering(t)' BY <2>0 DEF Recovering
  <2>5. Writing(t)' BY <2>0 DEF Writing
  <2> QED BY <1>0, <2>1, <2>2, <2>3, <2>4, <2>5 DEF JInv
<1>18. ASSUME UNCHANGED vars PROVE JInv(t)'
  <2>1. Provenance(t)' BY <1>a, <1>18 DEF Provenance, Known, vars, journal
  <2>2. Fresh(t)' BY <1>a, <1>18 DEF Fresh, Unwritten, vars, journal
  <2>3. Journal' BY <1>a, <1>18 DEF Journal, vars, journal
  <2>4. Recovering(t)' BY <1>a, <1>18 DEF Recovering, RolledBack, vars, journal
  <2>5. Writing(t)' BY <1>a, <1>18 DEF Writing, Full, Image, vars, journal
  <2> QED BY <1>0, <2>1, <2>2, <2>3, <2>4, <2>5 DEF JInv
<1> QED
  BY <1>1, <1>2, <1>3, <1>4, <1>5, <1>6, <1>7, <1>8, <1>9, <1>10, <1>11, <1>12, <1>13,
     <1>14, <1>15, <1>16, <1>17, <1>18 DEF Next, Step

------------------------------------------------------------------------------
(* No conflict without an edit, no journal after one failure *)

\* The invariant holds at first.
LEMMA IInvInit ==
  ASSUME NEW t \in Threads, Init
  PROVE  JInv(t) /\ EditedOrAccounted /\ Clean(t)
<1> USE TransactionAssumption
<1>1. /\ thread[t] = Idle /\ disk = Initial /\ ~dir /\ images = [s \in Slots |-> Absent]
      /\ strays = {} /\ manifest = NoManifest /\ refused = {}
  BY DEF Init
<1>2. Provenance(t) BY <1>1 DEF Provenance, Known, Initial, Idle
<1>3. Journal BY <1>1, SlotFacts DEF Journal, NoManifest
<1>4. Fresh(t) /\ Recovering(t) /\ Writing(t)
  BY <1>1 DEF Fresh, Unwritten, Recovering, Writing, Idle
<1>5. EditedOrAccounted
  BY <1>1 DEF EditedOrAccounted, ConflictMeansEdit, NoManifest
<1>6. Clean(t) BY <1>1 DEF Clean, Tidy, Idle
<1> QED BY <1>2, <1>3, <1>4, <1>5, <1>6, TypedInit DEF JInv

\* Removing images, and leaving the files and the manifest alone, makes no file
\* unaccounted for.
LEMMA AccountedKept ==
  ASSUME EditedOrAccounted, edited \subseteq edited', UNCHANGED <<disk, manifest>>,
         \A s \in Slots : images'[s] \in {images[s], Absent},
         refused' \subseteq refused \cup {"stray", "image"}
  PROVE  EditedOrAccounted'
BY SlotFacts DEF EditedOrAccounted, ConflictMeansEdit, Saved, Accounted

\* A file of a prepared journal stops having its before or its after content by an
\* edit only.
LEMMA EditedOrAccountedStep ==
  ASSUME NEW t \in Threads, Threads = {t}, JInv(t), EditedOrAccounted, [Next]_vars
  PROVE  EditedOrAccounted'
<1> USE TransactionAssumption
<1>t. /\ disk \in [Files -> Content] /\ images \in [Slots -> Content]
      /\ thread[t].update \in Content
  BY Types DEF JInv
<1>1. ASSUME \/ \E u \in Updates : Request(t, u)
             \/ RequestNothing(t) \/ ReadFiles(t)
             \/ CheckUnchanged(t) \/ MakeJournal(t) \/ Catch(t) \/ StartRecovery(t)
             \/ Sweep(t) \/ Fail(t) \/ Crash \/ UNCHANGED vars
      PROVE  EditedOrAccounted'
  <2>1. CASE \/ \E u \in Updates : Request(t, u)
             \/ RequestNothing(t) \/ ReadFiles(t) \/ CheckUnchanged(t) \/ MakeJournal(t)
             \/ Catch(t) \/ Fail(t) \/ Crash \/ UNCHANGED vars
    <3>1. UNCHANGED <<disk, images, manifest, edited, refused>>
      BY <2>1 DEF Request, RequestNothing, ReadFiles, CheckUnchanged, MakeJournal, Catch, Fail,
                  Crash, vars, journal
    <3> QED BY <3>1, AccountedKept
  <2>2. CASE StartRecovery(t)
    <3>1. UNCHANGED <<disk, images, manifest, edited>> /\ refused' \subseteq refused \cup {"stray"}
      BY <2>2, StartRecoveryMoves DEF journal
    <3> QED BY <3>1, AccountedKept
  <2>3. CASE Sweep(t)
    BY <2>3, SweepMoves, AccountedKept
  <2> QED BY <1>1, <2>1, <2>2, <2>3
<1>2. ASSUME WriteImage(t) PROVE EditedOrAccounted'
  BY <1>2, WriteImageMoves DEF EditedOrAccounted, ConflictMeansEdit
<1>3. ASSUME Prepare(t) PROVE EditedOrAccounted'
  BY <1>3, PrepareMoves DEF EditedOrAccounted, ConflictMeansEdit, Saved, Accounted, Full
<1>4. ASSUME ReplaceFile(t) PROVE EditedOrAccounted'
  <2> DEFINE f == thread[t].i
  <2>1. /\ thread[t].at = "replace" /\ f \in Files
        /\ disk' = [disk EXCEPT ![f] = thread[t].update]
        /\ UNCHANGED <<images, manifest, edited, refused>>
    BY <1>4, ReplaceFileMoves
  <2>2. images[After(f)] = thread[t].update BY <2>1 DEF JInv, Writing, Full
  <2> HIDE DEF f
  <2>3. \A g \in Files : disk'[g] \in {disk[g], images[After(g)]} BY <1>t, <2>1, <2>2
  <2> QED BY <2>1, <2>3 DEF EditedOrAccounted, ConflictMeansEdit, Saved, Accounted
<1>5. ASSUME Commit(t) PROVE EditedOrAccounted'
  BY <1>5, CommitMoves DEF EditedOrAccounted, ConflictMeansEdit
<1>6. ASSUME RestoreFile(t) PROVE EditedOrAccounted'
  <2> DEFINE f == thread[t].i
  <2>1. /\ f \in Files /\ manifest.phase = "PREPARED"
        /\ UNCHANGED <<images, manifest, edited>>
    BY <1>6, RestoreFileMoves DEF journal
  <2> HIDE DEF f
  <2>2. CASE UNCHANGED disk /\ ~Saved(f) /\ refused' = refused \cup {"image"}
    BY <2>1, <2>2, AccountedKept
  <2>3. CASE UNCHANGED disk /\ Saved(f) /\ ~Accounted(f)
    BY <2>1, <2>3 DEF EditedOrAccounted, ConflictMeansEdit
  <2>4. CASE /\ disk' = [disk EXCEPT ![f] = IF f \in manifest.existed THEN images[Before(f)]
                                            ELSE Absent]
             /\ UNCHANGED refused
    <3>1. \A g \in Files : disk'[g] \in
            {disk[g], IF g \in manifest.existed THEN images[Before(g)] ELSE Absent}
      BY <1>t, <2>1, <2>4
    <3> QED BY <2>1, <2>4, <3>1 DEF EditedOrAccounted, ConflictMeansEdit, Saved, Accounted
  <2> QED BY <1>6, <2>2, <2>3, <2>4, RestoreFileMoves DEF f
<1>7. ASSUME ClearStep(t) PROVE EditedOrAccounted'
  <2> DEFINE s == thread[t].i
  <2>1. UNCHANGED <<disk, edited, refused>> BY <1>7, ClearMoves
  <2>2. CASE /\ s \in Slots /\ images' = [images EXCEPT ![s] = Absent] /\ UNCHANGED manifest
    <3> HIDE DEF s
    <3>1. \A k \in Slots : images'[k] \in {images[k], Absent} BY <1>t, <2>2
    <3> QED BY <2>1, <2>2, <3>1, AccountedKept
  <2>3. CASE manifest' = NoManifest
    BY <2>1, <2>3 DEF EditedOrAccounted, ConflictMeansEdit, NoManifest
  <2>4. CASE UNCHANGED <<images, manifest>>
    BY <2>1, <2>4, AccountedKept
  <2> QED BY <1>7, <2>2, <2>3, <2>4, ClearMoves DEF journal
<1>8. ASSUME NEW f \in Files, NEW e \in Edits, Edit(f, e) PROVE EditedOrAccounted'
  BY <1>8 DEF Edit, EditedOrAccounted, ConflictMeansEdit
<1> QED
  BY <1>1, <1>2, <1>3, <1>4, <1>5, <1>6, <1>7, <1>8 DEF Next, Step

\* While one operation at most failed and nothing crashed, a request leaves no
\* journal, and its handler finds one it can roll back.
LEMMA CleanStep ==
  ASSUME NEW t \in Threads, Threads = {t}, JInv(t), Clean(t), [Next]_vars
  PROVE  Clean(t)'
<1> USE TransactionAssumption
<1> SUFFICES ASSUME crashes' = 0, errors' <= 1 PROVE Tidy(t)'
  BY DEF Clean
<1>t. /\ Placed(thread[t]) /\ images \in [Slots -> Content] /\ disk \in [Files -> Content]
      /\ thread[t].then \in {"read", "check", "done", "end"} /\ thread[t].at \in Steps
      /\ errors \in Nat /\ crashes \in Nat /\ thread[t].i \in 0..(2 * N + 2)
      /\ manifest \in Manifest /\ thread \in [Threads -> Thread]
  BY Types DEF JInv, Typed, TypeOK
<1>a. errors <= 1 /\ crashes = 0 /\ Tidy(t)
  <2>1. crashes = 0 /\ errors <= 1
    BY <1>t DEF Next, Step, Request, RequestNothing, ReadFiles, CheckUnchanged, MakeJournal,
       WriteImage, Prepare, WriteManifest, ReplaceFile, Commit, Catch, StartRecovery, Refuse, Sweep,
       RestoreFile, ClearStep, Fail, Crash, Edit, vars
  <2> QED BY <2>1 DEF Clean
<1>1. ASSUME NEW u \in Updates, Request(t, u) PROVE Tidy(t)'
  <2>1. /\ thread[t].at = "idle" /\ thread'[t].at = "recover" /\ thread'[t].then = "read"
        /\ UNCHANGED <<dir, strays>>
    BY <1>1, <1>t, RequestEffect DEF Request, journal
  <2> QED BY <1>a, <2>1 DEF Tidy
<1>2. ASSUME RequestNothing(t) PROVE Tidy(t)'
  BY <1>2, <1>a DEF RequestNothing, Tidy
<1>3. ASSUME ReadFiles(t) PROVE Tidy(t)'
  <2>1. /\ thread[t].at = "read" /\ thread'[t].at = "recover" /\ thread'[t].then = "check"
        /\ UNCHANGED <<dir, strays>>
    BY <1>3, <1>t, ReadEffect DEF ReadFiles, journal
  <2> QED BY <1>a, <2>1 DEF Tidy
<1>4. ASSUME CheckUnchanged(t) PROVE Tidy(t)'
  BY <1>4, <1>a, CheckMoves DEF Tidy, Idle, journal
<1>5. ASSUME MakeJournal(t) PROVE Tidy(t)'
  BY <1>5, <1>a, <1>t, MakeJournalMoves DEF Tidy, Idle, Placed
<1>6. ASSUME WriteImage(t) PROVE Tidy(t)'
  BY <1>6, <1>a, WriteImageMoves DEF Tidy
<1>7. ASSUME Prepare(t) PROVE Tidy(t)'
  BY <1>7, <1>a, PrepareMoves DEF Tidy
<1>8. ASSUME ReplaceFile(t) PROVE Tidy(t)'
  BY <1>8, <1>a, ReplaceFileMoves DEF Tidy
<1>9. ASSUME Commit(t) PROVE Tidy(t)'
  BY <1>9, <1>a, CommitMoves DEF Tidy, Slots
<1>10. ASSUME Catch(t) PROVE Tidy(t)'
  <2>1. dir /\ strays = {} /\ errors = 1 /\ thread[t].at = "catch" BY <1>10, <1>a, CatchMoves DEF Tidy
  <2>2. CASE thread'[t].at = "recover" /\ manifest.phase # "none"
    BY <1>10, <1>a, <2>1, <2>2, CatchMoves DEF Tidy, Saved, Accounted, journal
  <2>3. CASE /\ thread'[t].at = "clear" /\ thread'[t].i = 1
             /\ thread'[t].last = 2 * FileOf(thread[t].i) /\ manifest.phase = "none"
    <3>1. \A s \in Slots : ~(s < 1) BY DEF Slots
    <3>2. \A s \in Slots : s > thread'[t].last => images[s] = Absent BY <1>a, <2>1, <2>3 DEF Tidy
    <3> QED BY <1>10, <2>1, <2>3, <3>1, <3>2, CatchMoves DEF Tidy, journal
  <2> QED BY <1>10, <2>1, <2>2, <2>3, CatchMoves
<1>11. ASSUME StartRecovery(t) PROVE Tidy(t)'
  <2>1. /\ thread[t].at = "recover" /\ strays = {}
        /\ dir => thread[t].then = "end" /\ manifest.phase # "none" /\ errors = 1
        /\ ~dir => thread[t].then \in {"read", "check"}
    BY <1>11, <1>a, <1>t, StartRecoveryMoves DEF Tidy, JInv, Journal
  <2>2. UNCHANGED <<disk, journal, errors>> BY <1>11, StartRecoveryMoves
  <2>3. CASE ~dir
    BY <1>11, <2>1, <2>2, <2>3, StartRecoveryMoves DEF Tidy, journal, Idle
  <2>4. CASE dir /\ thread'[t].at = "restore" /\ thread'[t].then = "end"
    BY <1>a, <2>1, <2>2, <2>4 DEF Tidy, Saved, Accounted, journal
  <2>5. CASE /\ dir /\ thread'[t].at = "clear" /\ thread'[t].i = 1 /\ thread'[t].then = "end"
             /\ thread'[t].last = 2 * N
    <3>1. \A s \in Slots : ~(s < 1) /\ ~(s > 2 * N) BY DEF Slots
    <3> QED BY <2>1, <2>2, <2>5, <3>1 DEF Tidy, journal
  <2> QED BY <1>11, <2>1, <2>3, <2>4, <2>5, StartRecoveryMoves DEF Idle
<1>12. ASSUME Sweep(t) PROVE Tidy(t)'
  BY <1>12, <1>a, SweepMoves DEF Tidy
<1>13. ASSUME RestoreFile(t) PROVE Tidy(t)'
  <2> DEFINE f == thread[t].i
  <2>1. /\ thread[t].at = "restore" /\ f \in Files /\ manifest.phase = "PREPARED"
        /\ strays = {} /\ dir /\ thread[t].then \in {"read", "check", "end"}
        /\ thread[t].then \in {"done", "end"}
        /\ \A g \in Files : Saved(g) /\ Accounted(g)
        /\ UNCHANGED <<journal, errors>>
    BY <1>13, <1>a, RestoreFileMoves DEF Tidy
  <2>2. thread[t].then = "end" /\ errors = 1 BY <1>a, <2>1 DEF Tidy
  <2> HIDE DEF f
  <2>3. /\ disk' = [disk EXCEPT ![f] = IF f \in manifest.existed THEN images[Before(f)] ELSE Absent]
        /\ thread'[t].then = thread[t].then
        /\ \/ /\ f = 1 /\ thread'[t].at = "clear" /\ thread'[t].i = 1
              /\ thread'[t].last = 2 * N
           \/ f # 1 /\ thread'[t].at = "restore" /\ thread'[t].i = f - 1
    BY <1>13, <2>1, RestoreFileMoves DEF f
  <2>4. \A g \in Files : disk'[g] \in
            {disk[g], IF g \in manifest.existed THEN images[Before(g)] ELSE Absent}
    BY <1>t, <2>1, <2>3
  <2>5. \A s \in Slots : ~(s < 1) /\ ~(s > 2 * N) BY DEF Slots
  <2> QED BY <2>1, <2>2, <2>3, <2>4, <2>5 DEF Tidy, Saved, Accounted, journal
<1>14. ASSUME ClearStep(t) PROVE Tidy(t)'
  <2> DEFINE s == thread[t].i
  <2>1. /\ thread[t].at = "clear" /\ dir /\ strays = {} /\ thread[t].then \in {"done", "end"}
        /\ \A k \in Slots : (k < s \/ k > thread[t].last) => images[k] = Absent
        /\ thread[t].then = "end" => errors = 1
        /\ UNCHANGED <<strays, errors>>
    BY <1>14, <1>a, ClearMoves DEF Tidy
  <2>2. CASE /\ s <= thread[t].last /\ s \in Slots
             /\ images' = [images EXCEPT ![s] = Absent] /\ UNCHANGED dir
             /\ thread'[t].at = "clear" /\ thread'[t].i = s + 1
             /\ thread'[t].then = thread[t].then /\ thread'[t].last = thread[t].last
    <3> HIDE DEF s
    <3>1. \A k \in Slots : (k < s + 1 \/ k > thread[t].last) => images'[k] = Absent
      BY <1>t, <2>1, <2>2 DEF Slots
    <3> QED BY <2>1, <2>2, <3>1 DEF Tidy
  <2>3. CASE /\ s = thread[t].last + 1 /\ UNCHANGED <<dir, images>>
             /\ thread'[t].at = "clear" /\ thread'[t].i = s + 1
             /\ thread'[t].then = thread[t].then /\ thread'[t].last = thread[t].last
    <3>0. thread[t].last \in Int BY Types DEF JInv
    <3>1. \A k \in Slots : k < s + 1 => k < s \/ k = s BY <1>t DEF Slots
    <3>2. \A k \in Slots : k = s => k > thread[t].last BY <2>3, <3>0
    <3> QED BY <2>1, <2>3, <3>1, <3>2 DEF Tidy
  <2>4. CASE s = thread[t].last + 2
    <3>0. thread[t].last \in Int BY Types DEF JInv
    <3>1. \A k \in Slots : k < s \/ k > thread[t].last BY <2>4, <3>0 DEF Slots
    <3>2. ~(s <= thread[t].last) /\ s # thread[t].last + 1 BY <2>4, <3>0
    <3>3. \A k \in Slots : images[k] = Absent BY <2>1, <3>1
    <3> HIDE DEF s
    <3>4. ~dir' /\ thread'[t] = Idle
      BY <1>14, <2>1, <3>2, <3>3, ClearMoves DEF s
    <3> QED BY <2>1, <3>4 DEF Tidy, Idle
  <2> QED BY <1>14, <2>2, <2>3, <2>4, ClearMoves
<1>15. ASSUME Fail(t) PROVE Tidy(t)'
  <2>1. /\ errors = 0 /\ errors' = 1 /\ thread[t].at \notin {"idle", "catch"}
        /\ UNCHANGED <<disk, journal>>
    BY <1>15, <1>t, FailMoves
  <2>2. strays = {} /\ thread[t].at # "sweep" BY <1>a DEF Tidy
  <2>3. CASE ~InTry(t) /\ thread'[t] = Idle
    <3>1. ~dir BY <1>a, <1>t, <2>1, <2>3 DEF Tidy, InTry, Steps, Placed
    <3> QED BY <2>1, <2>2, <3>1, <2>3 DEF Tidy, Idle, journal
  <2>4. CASE /\ InTry(t) /\ thread'[t].at = "catch" /\ thread'[t].then \in {"check", "done"}
             /\ thread'[t].i = IF thread[t].at = "image" THEN thread[t].i ELSE 2 * N
    <3>1. dir BY <1>a, <2>4 DEF Tidy, InTry
    <3>2. manifest.phase = "PREPARED" => \A f \in Files : Saved(f) /\ Accounted(f)
      <4>1. \/ thread[t].at \in {"replace", "commit"} /\ thread[t].update # Absent
            \/ manifest.phase # "PREPARED"
        BY <1>t, <2>4 DEF InTry, JInv, Writing, Recovering, Fresh, Placed
      <4> QED BY <4>1 DEF JInv, Writing, Full, Saved, Accounted
    <3>3. manifest.phase = "none" =>
            \A s \in Slots : s > 2 * FileOf(thread'[t].i) => images[s] = Absent
      <4>1. CASE thread[t].at = "image"
        <5>1. \A s \in Slots : s > 2 * FileOf(thread[t].i) => s > thread[t].i
          BY <1>t, <4>1 DEF Placed, Slots, FileOf
        <5> QED BY <2>4, <4>1, <5>1, <1>t DEF JInv, Writing, Placed, Slots
      <4>2. CASE thread[t].at # "image"
        <5>1. \A s \in Slots : ~(s > 2 * FileOf(2 * N))
          BY DEF Slots, FileOf
        <5> QED BY <2>4, <4>2, <5>1
      <4> QED BY <4>1, <4>2
    <3> QED BY <2>1, <2>2, <2>4, <3>1, <3>2, <3>3 DEF Tidy, Saved, Accounted, journal
  <2> QED BY <1>15, <2>3, <2>4, FailMoves
<1>16. ASSUME Crash PROVE Tidy(t)'
  BY <1>16, <1>a DEF Crash
<1>17. ASSUME NEW f \in Files, NEW e \in Edits, Edit(f, e) PROVE Tidy(t)'
  <2>1. /\ thread[t].at \in {"idle", "read", "check"} /\ UNCHANGED <<thread, dir, strays>>
    BY <1>17 DEF Edit, Quiet, journal
  <2> QED BY <1>a, <2>1 DEF Tidy
<1>18. ASSUME UNCHANGED vars PROVE Tidy(t)'
  BY <1>18, <1>a DEF vars, journal, Tidy, Saved, Accounted
<1> QED
  BY <1>1, <1>2, <1>3, <1>4, <1>5, <1>6, <1>7, <1>8, <1>9, <1>10, <1>11, <1>12, <1>13,
     <1>14, <1>15, <1>16, <1>17, <1>18 DEF Next, Step

------------------------------------------------------------------------------
(* The refinement *)

\* The recovered files are the same if each one is.
LEMMA SameLogical ==
  ASSUME \A f \in Files : Logical'[f] = Logical[f]
  PROVE  UNCHANGED Logical
BY DEF Logical

\* The commit is the update of AtomicUpdate, an edit its edit, and every other step
\* of the transaction leaves the recovered files as they are.
LEMMA RefinementStep ==
  ASSUME NEW t \in Threads, Threads = {t}, JInv(t), [Next]_vars
  PROVE  [Abstract!Next]_Logical
<1> USE TransactionAssumption
<1>t. /\ disk \in [Files -> Content] /\ images \in [Slots -> Content] /\ manifest \in Manifest
      /\ thread \in [Threads -> Thread] /\ Placed(thread[t])
  BY Types DEF JInv
<1>a. Provenance(t) /\ Fresh(t) /\ Journal /\ Recovering(t) /\ Writing(t) BY DEF JInv
<1>0. ~dir => manifest.phase = "none" BY <1>a DEF Journal
<1>1. ASSUME \/ \E u \in Updates : Request(t, u)
             \/ RequestNothing(t) \/ ReadFiles(t) \/ CheckUnchanged(t) \/ Catch(t)
             \/ StartRecovery(t) \/ Fail(t) \/ Crash \/ UNCHANGED vars
      PROVE  UNCHANGED Logical
  <2>1. UNCHANGED <<disk, dir, images, manifest>>
    BY <1>1 DEF Request, RequestNothing, ReadFiles, CheckUnchanged, Catch, StartRecovery, Refuse,
                Fail, Crash, vars, journal
  <2> QED BY <2>1 DEF Logical
<1>2. ASSUME MakeJournal(t) \/ WriteImage(t) \/ Sweep(t) PROVE UNCHANGED Logical
  <2>1. /\ UNCHANGED <<disk, manifest>>
        /\ manifest.phase = "none" \/ UNCHANGED <<images, dir>>
    BY <1>0, <1>2, MakeJournalMoves, WriteImageMoves, SweepMoves
  <2> QED BY <2>1 DEF Logical
<1>3. ASSUME Prepare(t) PROVE UNCHANGED Logical
  <2>1. /\ Full(t) /\ manifest.phase = "none" /\ thread[t].at = "prepare"
        /\ thread[t].then = "check" /\ UNCHANGED <<disk, images>>
    BY <1>3, PrepareMoves
  <2>2. \A f \in Files : disk[f] # images[After(f)]
    BY <1>a, <2>1 DEF Full, Fresh, Unwritten
  <2> QED BY <2>1, <2>2 DEF Logical
<1>4. ASSUME ReplaceFile(t) PROVE UNCHANGED Logical
  <2> DEFINE f == thread[t].i
  <2>1. /\ thread[t].at = "replace" /\ f \in Files
        /\ disk' = [disk EXCEPT ![f] = thread[t].update]
        /\ UNCHANGED <<dir, images, manifest>>
    BY <1>4, ReplaceFileMoves
  <2>2. /\ Full(t) /\ manifest.phase = "PREPARED" /\ dir
        /\ manifest.existed = {g \in Files : thread[t].read[g] # Absent}
        /\ thread[t].read[f] # thread[t].update
        /\ disk[f] = thread[t].read[f] /\ thread[t].update # Absent
    BY <1>0, <1>a, <1>t, <2>1 DEF Writing, Fresh, Placed, Files
  <2> HIDE DEF f
  <2>3. Logical[f] = thread[t].read[f]
    BY <2>1, <2>2 DEF Logical, Full
  <2>4. Logical'[f] = thread[t].read[f]
    BY <1>t, <2>1, <2>2 DEF Logical, Full
  <2>5. \A g \in Files \ {f} : Logical'[g] = Logical[g]
    BY <1>t, <2>1 DEF Logical
  <2> QED BY <2>1, <2>3, <2>4, <2>5, SameLogical
<1>5. ASSUME Commit(t) PROVE \E u \in Updates : Abstract!Commit(u)
  <2>1. /\ thread[t].at = "commit" /\ manifest'.phase = "COMMITTED" /\ UNCHANGED disk
    BY <1>5, CommitMoves
  <2>2. thread[t].update \in Updates /\ \A f \in Files : disk[f] = thread[t].update
    BY <1>a, <1>t, <2>1 DEF Fresh, Writing, Placed
  <2>3. Logical' = [f \in Files |-> thread[t].update]
    BY <2>1, <2>2 DEF Logical
  <2> QED BY <2>2, <2>3 DEF Abstract!Commit
<1>6. ASSUME RestoreFile(t) PROVE UNCHANGED Logical
  <2> DEFINE f == thread[t].i
  <2>1. /\ f \in Files /\ manifest.phase = "PREPARED" /\ dir
        /\ UNCHANGED <<dir, images, manifest>>
    BY <1>0, <1>6, RestoreFileMoves DEF journal
  <2> HIDE DEF f
  <2>2. CASE UNCHANGED disk BY <2>1, <2>2 DEF Logical
  <2>3. CASE /\ Saved(f) /\ Accounted(f)
             /\ disk' = [disk EXCEPT ![f] = IF f \in manifest.existed THEN images[Before(f)]
                                            ELSE Absent]
    <3> DEFINE before == IF f \in manifest.existed THEN images[Before(f)] ELSE Absent
    <3>1. before # images[After(f)] /\ images[After(f)] # Absent
      BY <1>a, <2>1, <2>3 DEF Journal, Saved
    <3>2. disk[f] \in {images[After(f)], before} /\ disk'[f] = before
      BY <1>t, <2>1, <2>3 DEF Accounted
    <3>3. Logical[f] = before
      BY <2>1, <3>1, <3>2 DEF Logical
    <3>4. Logical'[f] = before
      BY <2>1, <3>1, <3>2 DEF Logical
    <3>5. \A g \in Files \ {f} : Logical'[g] = Logical[g]
      BY <1>t, <2>1, <2>3 DEF Logical
    <3> QED BY <2>1, <3>3, <3>4, <3>5, SameLogical
  <2> QED BY <1>6, <2>2, <2>3, RestoreFileMoves DEF f
<1>7. ASSUME ClearStep(t) PROVE UNCHANGED Logical
  <2> DEFINE s == thread[t].i
  <2>1. thread[t].at = "clear" /\ UNCHANGED disk BY <1>7, ClearMoves
  <2>2. manifest.phase = "PREPARED" => \A f \in Files : RolledBack(f)
    BY <1>a, <2>1 DEF Recovering
  <2>3. CASE /\ s \in Slots /\ images' = [images EXCEPT ![s] = Absent] /\ UNCHANGED <<dir, manifest>>
    <3>1. \A f \in Files : images'[After(f)] \in {images[After(f)], Absent}
      BY <1>t, <2>3, SlotFacts
    <3> QED BY <2>1, <2>2, <2>3, <3>1 DEF Logical, RolledBack
  <2>4. CASE manifest' = NoManifest /\ UNCHANGED <<dir, images>>
    BY <2>1, <2>2, <2>4 DEF Logical, RolledBack, NoManifest
  <2>5. CASE manifest.phase = "none" /\ UNCHANGED manifest
    BY <2>1, <2>5 DEF Logical
  <2> QED BY <1>7, <2>3, <2>4, <2>5, ClearMoves DEF journal
<1>8. ASSUME NEW f \in Files, NEW e \in Edits, Edit(f, e) PROVE Abstract!Edit(f, e)
  <2>1. disk' = [disk EXCEPT ![f] = e] /\ UNCHANGED <<dir, images, manifest>>
    BY <1>8 DEF Edit, journal
  <2>2. e # images[After(f)] BY <1>a DEF Journal
  <2>3. Logical'[f] = e /\ \A g \in Files \ {f} : Logical'[g] = Logical[g]
    BY <1>t, <2>1, <2>2 DEF Logical
  <2>4. Logical' = [g \in Files |-> Logical'[g]] /\ Logical = [g \in Files |-> Logical[g]]
    BY DEF Logical
  <2>5. Logical' = [Logical EXCEPT ![f] = e]
    BY <2>3, <2>4
  <2> QED BY <2>5 DEF Abstract!Edit
<1> QED
  BY <1>1, <1>2, <1>3, <1>4, <1>5, <1>6, <1>7, <1>8 DEF Next, Step, Abstract!Next

------------------------------------------------------------------------------
(* The theorems *)

\* The invariant is inductive.
LEMMA IInvStep ==
  ASSUME NEW t \in Threads, Threads = {t}
  PROVE  IInv /\ [Next]_vars => IInv'
<1> SUFFICES ASSUME JInv(t), EditedOrAccounted, Clean(t), [Next]_vars
             PROVE  (JInv(t) /\ EditedOrAccounted /\ Clean(t))'
  BY DEF IInv
<1> QED BY JInvStep, EditedOrAccountedStep, CleanStep

\* One request at a time: recover_v4_transaction refuses with a conflict only if
\* somebody wrote a file, for every number of files, failures and crashes.
THEOREM Conflicts ==
  ASSUME NEW t \in Threads, Threads = {t}
  PROVE  Spec => []ConflictMeansEdit
<1>1. Init => IInv BY IInvInit DEF IInv
<1>2. IInv => ConflictMeansEdit BY DEF IInv, EditedOrAccounted
<1>3. IInv /\ [Next]_vars => IInv' BY IInvStep
<1> QED BY <1>1, <1>2, <1>3, PTL DEF Spec

\* One request at a time: without a crash or a second failure the handler of
\* apply_working_copy_v4 removes the journal before the request ends.
THEOREM CleanedUp ==
  ASSUME NEW t \in Threads, Threads = {t}
  PROVE  Spec => []OneErrorIsCleanedUp
<1>1. Init => IInv BY IInvInit DEF IInv
<1>2. IInv => OneErrorIsCleanedUp BY DEF IInv, Clean, Tidy, OneErrorIsCleanedUp
<1>3. IInv /\ [Next]_vars => IInv' BY IInvStep
<1> QED BY <1>1, <1>2, <1>3, PTL DEF Spec

\* One request at a time: the transaction implements AtomicUpdate.  Whatever fails,
\* the recovered files change by a whole update or by an edit of one file.
THEOREM Atomic ==
  ASSUME NEW t \in Threads, Threads = {t}
  PROVE  Spec => AllOrNothing
<1>1. Init => IInv BY IInvInit DEF IInv
<1>2. IInv /\ [Next]_vars => IInv' BY IInvStep
<1>3. Init => Abstract!Init
  BY DEF Init, Abstract!Init, Logical, Initial
<1>4. IInv /\ [Next]_vars => [Abstract!Next]_Logical
  BY RefinementStep DEF IInv
<1> QED BY <1>1, <1>2, <1>3, <1>4, PTL DEF Spec, AllOrNothing, Abstract!Spec
===============================================================================

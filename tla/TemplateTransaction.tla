------------------------- MODULE TemplateTransaction --------------------------
(***************************************************************************)
(* The durable transaction by which a template update replaces the managed *)
(* files of a workspace and its template state (transaction_v4.py).        *)
(*                                                                         *)
(* A request recovers what an earlier process left, reads the files,       *)
(* writes a before and an after image of each one into a journal, then a   *)
(* PREPARED manifest, then the files, then a COMMITTED manifest, and       *)
(* clears the journal.  Every write of a file, unlink and mkdir is a step  *)
(* of its own; any of them may raise an OSError, and the process may end   *)
(* before any of them, leaving the temporary file of the write behind.     *)
(* Requests run in threads of one process: the event loop (an application  *)
(* configuration operation) and the worker of a planning graph.            *)
(*                                                                         *)
(* The journal has an image in each of 2 * N slots, 2f-1 for the before    *)
(* and 2f for the after image of file f.  Every update changes all files.  *)
(***************************************************************************)
EXTENDS Integers, FiniteSets

CONSTANTS Threads,     \* threads that handle requests on the workspace
          N,           \* files of an update, in the order they are written
          Existing,    \* the files there are at first
          Updates,     \* update packages, and the content they give a file
          Edits,       \* contents written by the user or another tool
          Old, Absent, \* content of an existing file at first, and of no file
          MaxErrors,   \* OSErrors
          MaxCrashes   \* ends of the process

ASSUME TransactionAssumption ==
  /\ N \in Nat \ {0}
  /\ Existing \subseteq 1..N
  /\ MaxErrors \in Nat
  /\ MaxCrashes \in Nat
  /\ Old \notin Updates \cup Edits \cup {Absent}
  /\ Absent \notin Updates \cup Edits
  /\ Updates \cap Edits = {}

Files == 1..N
Slots == 1..(2 * N)
Before(f) == 2 * f - 1
After(f) == 2 * f
FileOf(s) == (s + 1) \div 2
Content == Updates \cup Edits \cup {Old, Absent}

VARIABLES
  disk,      \* the managed files
  dir,       \* the journal directory exists
  images,    \* the content saved in each slot; Absent is no image
  strays,    \* kinds of temporary files left in the journal directory
  manifest,  \* manifest.json: the phase, and the files that existed
  thread,    \* what each thread does
  started,   \* updates ever begun
  edited,    \* edits ever made
  refused,   \* reasons for which a recovery was refused so far
  errors, crashes

journal == <<dir, images, strays, manifest>>
vars == <<disk, journal, thread, started, edited, refused, errors, crashes>>

Manifest == [phase : {"none", "PREPARED", "COMMITTED"}, existed : SUBSET Files]

NoManifest == [phase |-> "none", existed |-> {}]

\* at: the next step.  i: the file or slot it is at.  then: where a recovery or
\* a clearing goes on.  last: slots of the files of this clearing.
\* update, read: the update, and the contents it was computed from.
\* record: the manifest a recovery read.
Thread == [at : {"idle", "recover", "sweep", "restore", "clear", "read",
                 "check", "mkdir", "image", "prepare", "replace", "commit", "catch"},
           then : {"read", "check", "done", "end"},
           i : 0..(2 * N + 2), last : 0..(2 * N),
           update : Updates \cup {Old}, read : [Files -> Content],
           record : Manifest]

Idle == [at |-> "idle", then |-> "done", i |-> 0, last |-> 0, update |-> Old,
         read |-> [f \in Files |-> Absent], record |-> NoManifest]

TypeOK ==
  /\ disk \in [Files -> Content]
  /\ dir \in BOOLEAN
  /\ images \in [Slots -> Content]
  /\ strays \subseteq {"image", "manifest"}
  /\ manifest \in Manifest
  /\ thread \in [Threads -> Thread]
  /\ started \subseteq Updates
  /\ edited \subseteq Edits
  /\ refused \subseteq {"stray", "image", "conflict"}
  /\ errors \in 0..MaxErrors
  /\ crashes \in 0..MaxCrashes

Initial == [f \in Files |-> IF f \in Existing THEN Old ELSE Absent]

Init ==
  /\ disk = Initial
  /\ dir = FALSE /\ images = [s \in Slots |-> Absent] /\ strays = {}
  /\ manifest = NoManifest
  /\ thread = [t \in Threads |-> Idle]
  /\ started = {} /\ edited = {} /\ refused = {} /\ errors = 0 /\ crashes = 0

-----------------------------------------------------------------------------
(* Where a thread goes on.                                                 *)

Goto(t, at, i) == thread' = [thread EXCEPT ![t].at = at, ![t].i = i]

Stop(t) == thread' = [thread EXCEPT ![t] = Idle]

\* Recovery and clearing are called from two places of a request and from the
\* handler of the write phase, which raises the error again.
Recover(t, then) == thread' = [thread EXCEPT ![t].at = "recover", ![t].then = then]

Clear(t, then, last) ==
  thread' = [thread EXCEPT ![t].at = "clear", ![t].i = 1, ![t].then = then,
                           ![t].last = last]

Return(t) ==
  IF thread[t].then \in {"done", "end"} THEN Stop(t)
  ELSE Goto(t, thread[t].then, 0)

Refuse(t, reason) ==
  /\ refused' = refused \cup {reason}
  /\ Stop(t)
  /\ UNCHANGED <<disk, journal, started, edited, errors, crashes>>

-----------------------------------------------------------------------------
(* A request: reconcile_capabilities and apply_working_copy_v4.            *)

Request(t, u) ==
  /\ thread[t].at = "idle"
  /\ u \notin started
  /\ started' = started \cup {u}
  /\ thread' = [thread EXCEPT ![t].at = "recover", ![t].then = "read", ![t].update = u]
  /\ UNCHANGED <<disk, journal, edited, refused, errors, crashes>>

\* A request that finds its capabilities installed ends after the recovery.
RequestNothing(t) ==
  /\ thread[t].at = "idle"
  /\ dir
  /\ Recover(t, "end")
  /\ UNCHANGED <<disk, journal, started, edited, refused, errors, crashes>>

\* The package was downloaded; the operations run on a copy in memory.
ReadFiles(t) ==
  /\ thread[t].at = "read"
  /\ thread' = [thread EXCEPT ![t].at = "recover", ![t].then = "check", ![t].read = disk]
  /\ UNCHANGED <<disk, journal, started, edited, refused, errors, crashes>>

CheckUnchanged(t) ==
  /\ thread[t].at = "check"
  /\ IF disk = thread[t].read THEN Goto(t, "mkdir", 0) ELSE Stop(t)
  /\ UNCHANGED <<disk, journal, started, edited, refused, errors, crashes>>

\* mkdir(exist_ok=False) is before the try: its error clears nothing.
MakeJournal(t) ==
  /\ thread[t].at = "mkdir"
  /\ IF dir THEN Stop(t) ELSE Goto(t, "image", 1)
  /\ dir' = TRUE
  /\ UNCHANGED <<disk, images, strays, manifest, started, edited, refused, errors, crashes>>

\* The before image of a file that existed, the after image of every file.
WriteImage(t) ==
  LET s == thread[t].i
      f == FileOf(s)
  IN /\ thread[t].at = "image"
     /\ IF dir
        THEN /\ images' = [images EXCEPT ![s] = IF s = After(f) THEN thread[t].update
                                                ELSE thread[t].read[f]]
             /\ IF s = 2 * N THEN Goto(t, "prepare", 0) ELSE Goto(t, "image", s + 1)
        ELSE /\ UNCHANGED images
             /\ Goto(t, "catch", s)
     /\ UNCHANGED <<disk, dir, strays, manifest, started, edited, refused, errors, crashes>>

\* atomic_write_json creates the directory of the manifest if it is gone.
WriteManifest(t, phase) ==
  /\ dir' = TRUE
  /\ manifest' = [phase |-> phase,
                  existed |-> {f \in Files : thread[t].read[f] # Absent}]
  /\ UNCHANGED <<disk, images, strays, started, edited, refused, errors, crashes>>

\* A bug: the manifest is written once, with its final phase.
PrepareCommitted(t) ==
  /\ thread[t].at = "prepare"
  /\ WriteManifest(t, "COMMITTED")
  /\ Goto(t, "replace", 1)

Prepare(t) ==
  /\ thread[t].at = "prepare"
  /\ WriteManifest(t, "PREPARED")
  /\ Goto(t, "replace", 1)

ReplaceFile(t) ==
  LET f == thread[t].i IN
  /\ thread[t].at = "replace"
  /\ disk' = [disk EXCEPT ![f] = thread[t].update]
  /\ IF f = N THEN Goto(t, "commit", 0) ELSE Goto(t, "replace", f + 1)
  /\ UNCHANGED <<journal, started, edited, refused, errors, crashes>>

Commit(t) ==
  /\ thread[t].at = "commit"
  /\ WriteManifest(t, "COMMITTED")
  /\ Clear(t, "done", 2 * N)

\* A bug: the image that failed is not counted, so it is not removed.
CatchCountsWritten(t) ==
  /\ thread[t].at = "catch"
  /\ IF dir /\ manifest.phase # "none"
     THEN Recover(t, "end")
     ELSE Clear(t, "end", thread[t].i - 2)
  /\ UNCHANGED <<disk, journal, started, edited, refused, errors, crashes>>

\* The handler: with a manifest the transaction is recovered, without one the
\* images of the files met so far are removed.
Catch(t) ==
  /\ thread[t].at = "catch"
  /\ IF dir /\ manifest.phase # "none"
     THEN Recover(t, "end")
     ELSE Clear(t, "end", 2 * FileOf(thread[t].i))
  /\ UNCHANGED <<disk, journal, started, edited, refused, errors, crashes>>

-----------------------------------------------------------------------------
(* recover_v4_transaction and _clear_journal.                              *)

\* Without a manifest no file was touched: the images and their temporary files
\* are removed, and a name that is none of them is refused.
StartRecovery(t) ==
  /\ thread[t].at = "recover"
  /\ \/ /\ ~dir
        /\ Return(t)
        /\ UNCHANGED <<disk, journal, started, edited, refused, errors, crashes>>
     \/ /\ dir /\ manifest.phase = "none" /\ "manifest" \in strays
        /\ Refuse(t, "stray")
     \/ /\ dir /\ manifest.phase = "none" /\ "manifest" \notin strays
        /\ Goto(t, "sweep", 0)
        /\ UNCHANGED <<disk, journal, started, edited, refused, errors, crashes>>
     \/ /\ dir /\ manifest.phase = "PREPARED"
        /\ thread' = [thread EXCEPT ![t].at = "restore", ![t].i = N, ![t].record = manifest]
        /\ UNCHANGED <<disk, journal, started, edited, refused, errors, crashes>>
     \/ /\ dir /\ manifest.phase = "COMMITTED"
        /\ Clear(t, thread[t].then, 2 * N)
        /\ UNCHANGED <<disk, journal, started, edited, refused, errors, crashes>>

Sweep(t) ==
  /\ thread[t].at = "sweep"
  /\ \/ \E s \in Slots :
          /\ images[s] # Absent
          /\ images' = [images EXCEPT ![s] = Absent]
          /\ UNCHANGED <<dir, strays, thread>>
     \/ /\ "image" \in strays
        /\ strays' = strays \ {"image"}
        /\ UNCHANGED <<dir, images, thread>>
     \/ /\ strays = {} /\ \A s \in Slots : images[s] = Absent
        /\ dir' = FALSE
        /\ Return(t)
        /\ UNCHANGED <<images, strays>>
  /\ UNCHANGED <<disk, manifest, started, edited, refused, errors, crashes>>

\* The files are restored from the last to the first.  Only one that has its
\* before or its after content is written.
Restorable(t, f) ==
  /\ images[After(f)] # Absent
  /\ f \in thread[t].record.existed => images[Before(f)] # Absent

BeforeContent(t, f) ==
  IF f \in thread[t].record.existed THEN images[Before(f)] ELSE Absent

\* A bug: a file the update did not reach yet is not expected.
AfterOnly(t, f) == {images[After(f)]}

Expected(t, f) == {BeforeContent(t, f), images[After(f)]}

RestoreFile(t) ==
  LET f == thread[t].i IN
  /\ thread[t].at = "restore"
  /\ \/ /\ ~Restorable(t, f)
        /\ Refuse(t, "image")
     \/ /\ Restorable(t, f)
        /\ disk[f] \notin Expected(t, f)
        /\ Refuse(t, "conflict")
     \/ /\ Restorable(t, f)
        /\ disk[f] \in Expected(t, f)
        /\ disk' = [disk EXCEPT ![f] = BeforeContent(t, f)]
        /\ IF f = 1 THEN Clear(t, thread[t].then, 2 * N) ELSE Goto(t, "restore", f - 1)
        /\ UNCHANGED <<journal, started, edited, refused, errors, crashes>>

\* Images in order, then the manifest, then the directory, which must be empty.
ClearStep(t) ==
  LET s == thread[t].i IN
  /\ thread[t].at = "clear"
  /\ \/ /\ s <= thread[t].last
        /\ images' = [images EXCEPT ![s] = Absent]
        /\ Goto(t, "clear", s + 1)
        /\ UNCHANGED <<dir, strays, manifest>>
     \/ /\ s = thread[t].last + 1
        /\ manifest' = NoManifest
        /\ Goto(t, "clear", s + 1)
        /\ UNCHANGED <<dir, images, strays>>
     \/ /\ s = thread[t].last + 2
        /\ dir /\ strays = {} /\ \A k \in Slots : images[k] = Absent
        /\ dir' = FALSE
        /\ Return(t)
        /\ UNCHANGED <<images, strays, manifest>>
     \/ /\ s = thread[t].last + 2
        /\ ~(dir /\ strays = {} /\ \A k \in Slots : images[k] = Absent)
        /\ IF thread[t].then = "done" THEN Goto(t, "catch", 2 * N) ELSE Stop(t)
        /\ UNCHANGED journal
  /\ UNCHANGED <<disk, started, edited, refused, errors, crashes>>

-----------------------------------------------------------------------------
(* Failures and the user.                                                  *)

\* An operation raises.  In the write phase the handler runs, anywhere else the
\* error leaves the request.  The writers remove their temporary file.
InTry(t) ==
  \/ thread[t].at \in {"image", "prepare", "replace", "commit"}
  \/ thread[t].at = "clear" /\ thread[t].then = "done"

Fail(t) ==
  /\ errors < MaxErrors
  /\ thread[t].at \notin {"idle", "catch"}
  /\ errors' = errors + 1
  /\ IF InTry(t)
     THEN Goto(t, "catch", IF thread[t].at = "image" THEN thread[t].i ELSE 2 * N)
     ELSE Stop(t)
  /\ UNCHANGED <<disk, journal, started, edited, refused, crashes>>

\* The process ends; the write it was in may leave its temporary file.
Crash ==
  /\ crashes < MaxCrashes
  /\ crashes' = crashes + 1
  /\ \E left \in SUBSET
         ({"image" : t \in {u \in Threads : dir /\ thread[u].at = "image"}} \cup
          {"manifest" : t \in {u \in Threads : dir /\ thread[u].at \in {"prepare", "commit"}}}) :
       strays' = strays \cup left
  /\ thread' = [t \in Threads |-> Idle]
  /\ UNCHANGED <<disk, dir, images, manifest, started, edited, refused, errors>>

\* The user or another tool writes a file.  Nothing guards the files while they
\* are being written, so an edit comes while no thread is at that.
Quiet == \A t \in Threads : thread[t].at \in {"idle", "read", "check"}

Edit(f, e) ==
  /\ Quiet
  /\ e \notin edited
  /\ disk' = [disk EXCEPT ![f] = e]
  /\ edited' = edited \cup {e}
  /\ UNCHANGED <<journal, thread, started, refused, errors, crashes>>

Step(t) ==
  \/ \E u \in Updates : Request(t, u)
  \/ RequestNothing(t) \/ ReadFiles(t) \/ CheckUnchanged(t) \/ MakeJournal(t)
  \/ WriteImage(t) \/ Prepare(t) \/ ReplaceFile(t) \/ Commit(t) \/ Catch(t)
  \/ StartRecovery(t) \/ Sweep(t) \/ RestoreFile(t) \/ ClearStep(t)
  \/ Fail(t)

Next ==
  \/ \E t \in Threads : Step(t)
  \/ Crash
  \/ \E f \in Files, e \in Edits : Edit(f, e)

Spec == Init /\ [][Next]_vars

-----------------------------------------------------------------------------
(* Properties                                                              *)

\* The content a file has once the journal there is has been recovered.
Logical ==
  [f \in Files |->
     IF dir /\ manifest.phase = "PREPARED" /\ images[After(f)] # Absent
        /\ disk[f] = images[After(f)]
     THEN IF f \in manifest.existed THEN images[Before(f)] ELSE Absent
     ELSE disk[f]]

Abstract == INSTANCE AtomicUpdate WITH files <- Logical

\* With one thread at a time the transaction implements the atomic update: through
\* errors, crashes, rollbacks and refused recoveries the recovered files change
\* by a whole update or by an edit, and never otherwise.
AllOrNothing == Abstract!Spec

\* A recovery finds a file it cannot account for only if somebody edited one:
\* a crash in any write or in a rollback never looks like a foreign edit.
ConflictMeansEdit == "conflict" \in refused => edited # {}

\* One operation that fails is cleaned up by the handler: without a crash or a
\* second failure no request leaves a journal to a later one.
OneErrorIsCleanedUp ==
  crashes = 0 /\ errors <= 1 /\ (\A t \in Threads : thread[t].at = "idle") => ~dir
===============================================================================

----------------------------- MODULE AtomicUpdate -----------------------------
(***************************************************************************)
(* What a template update promises about the managed files and the         *)
(* template state of a workspace: whatever fails, either all of them have  *)
(* the content of the update or none has, and an edit made by the user or  *)
(* by another tool is never undone.                                        *)
(***************************************************************************)
CONSTANTS Files, Updates, Edits, Initial

VARIABLE files   \* the content of each file

Init == files = Initial

Commit(u) == files' = [f \in Files |-> u]

Edit(f, e) == files' = [files EXCEPT ![f] = e]

Next ==
  \/ \E u \in Updates : Commit(u)
  \/ \E f \in Files, e \in Edits : Edit(f, e)

Spec == Init /\ [][Next]_files
===============================================================================

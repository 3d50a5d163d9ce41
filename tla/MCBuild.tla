------------------------------- MODULE MCBuild -------------------------------
(* Instances of BuildScheduling for TLC: a frontend task needs a backend task, *)
(* which needs a database task; a task and its repairs write one file.        *)
EXTENDS BuildScheduling

CONSTANTS db, be, fe

MCDeps == [t \in Tasks |-> CASE t = db -> {} [] t = be -> {db} [] OTHER -> {be}]
MCLocks == [t \in Tasks |-> {t}]

\* The database agent first, then the backend, then the frontend; the repairs of a
\* task come after it, one by one.
MCRank == [j \in Jobs |-> 3 * (CASE j[1] = db -> 0 [] j[1] = be -> 1 [] OTHER -> 2) + j[2]]

\* The last task may have two repairs: enough to run out of iterations.
MCMaxRepairs == [t \in Tasks |-> IF t = fe THEN 2 ELSE 1]
=============================================================================

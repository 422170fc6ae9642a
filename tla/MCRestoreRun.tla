---------------------------- MODULE MCRestoreRun ----------------------------
(***************************************************************************)
(* RestoreRun for TLC: the command lines and databases of the runs.        *)
(***************************************************************************)
EXTENDS RestoreRun

App == <<"app">>
New == <<"new">>

\* The suggestion for New is longer than PostgreSQL allows.
MCBytes == [n \in {"app", "new", "old", "mydb"} |-> IF n = "new" THEN 48 ELSE 9]

Dump == [ext |-> "dump", is |-> "custom", recorded |-> App]
Script == [ext |-> "sql", is |-> "plain", recorded |-> NoName]
Tar == [ext |-> "dump", is |-> "tar", recorded |-> New]
Unnamed == [ext |-> "dump", is |-> "plain", recorded |-> NoName]

Restoring(file, db) == [db |-> db, format |-> "", jobs |-> FALSE, file |-> file]

JobsOnTar == [Restoring(Tar, NoName) EXCEPT !.jobs = TRUE, !.format = "tar"]

\* The recorded name is taken; a free name is asked for, or recorded in another
\* file; there is no name; a script without .sql is not readable; -j for a tar
\* archive that says what it is, which Restore itself refuses.
UsualRequests ==
  {Restoring(Dump, NoName), Restoring(Dump, New), Restoring(Tar, NoName),
   Restoring(Script, NoName), Restoring(Unnamed, New), JobsOnTar}

\* The first two suggestions for App are taken; New is free.
Crowded == <<App, Append(App, 1), Append(App, 2)>>
=============================================================================

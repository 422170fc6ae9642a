------------------------------ MODULE Retention ------------------------------
(***************************************************************************)
(* `dbsnap backup` run by hand or by the wrapper script of                 *)
(* docs/ugreen-nas.md, which deletes old dumps after a run that succeeded. *)
(* Several jobs, of several databases, share one directory.  A job runs    *)
(* core.BackupAll over its list, which is BackupBatch's subject; here its  *)
(* calls are only concurrent, and any of them may end first.               *)
(***************************************************************************)
EXTENDS DumpFiles, Sequences

CONSTANTS Jobs,
          Scripted,    \* the jobs run by the wrapper script
          Lists,       \* Lists[j]: the values -db may have
          MaxAge,      \* -mtime +MaxAge
          LongestRun   \* no run takes longer

ASSUME ScriptedAssumption == Scripted \subseteq Jobs
ASSUME ListsAssumption ==
  \A j \in Jobs : \A l \in Lists[j] :
    l \in Seq(Databases) /\ l # <<>> /\ \A i \in DOMAIN l : <<j, i>> \in Calls
\* The script runs once a day; the window is 50 days.
ASSUME AgesAssumption == LongestRun \in Nat /\ MaxAge \in Nat /\ LongestRun <= MaxAge

VARIABLES job,      \* where job j is
          list,     \* its databases
          format,   \* its -format
          status    \* its exit code

vars == <<dumpVars, job, list, format, status>>
jobVars == <<job, list, format, status>>

CallsOf(j) == {<<j, i>> : i \in DOMAIN list[j]}

Init ==
  /\ InitDumps
  /\ job = [j \in Jobs |-> "idle"]
  /\ list = [j \in Jobs |-> <<>>]
  /\ format = [j \in Jobs |-> "custom"]
  /\ status = [j \in Jobs |-> 0]

\* The script leaves -format at its default.
Launch(j) ==
  /\ job[j] = "idle"
  /\ job' = [job EXCEPT ![j] = "running"]
  /\ \E l \in Lists[j] : list' = [list EXCEPT ![j] = l]
  /\ \E f \in IF j \in Scripted THEN {"custom"} ELSE Formats :
       format' = [format EXCEPT ![j] = f]
  /\ UNCHANGED <<dumpVars, status>>

\* A call made by job j.
Backup(j) ==
  /\ job[j] = "running"
  /\ \E i \in DOMAIN list[j] :
       \/ Refuse(<<j, i>>) \/ Fork(<<j, i>>, list[j][i], format[j]) \/ Return(<<j, i>>)
  /\ UNCHANGED jobVars

ExitCode_Lost(j) == 0

\* runBackup: os.Exit(1) if a result is not OK.
ExitCode(j) == IF \A c \in CallsOf(j) : outcome[c] = "ok" THEN 0 ELSE 1

JobExits(j) ==
  /\ job[j] = "running" /\ \A c \in CallsOf(j) : outcome[c] # "none"
  /\ status' = [status EXCEPT ![j] = ExitCode(j)]
  /\ job' = [job EXCEPT ![j] = IF j \in Scripted THEN "exited" ELSE "done"]
  /\ UNCHANGED <<dumpVars, list, format>>

\* find -name '*.dump' -mtime +MaxAge
Old(f) == f[3] = ".dump" /\ now - files[f].mtime > MaxAge

Spared(j) == {f \in DOMAIN files : status[j] = 0 => ~Old(f)}

\* The rest of the script; it deletes nothing after a failed run.
Script(j) ==
  /\ job[j] = "exited"
  /\ job' = [job EXCEPT ![j] = "done"]
  /\ files' = [f \in Spared(j) |-> files[f]]
  /\ UNCHANGED <<now, callVars, list, format, status>>

\* The dbsnap process, or the machine, dies: docker run fails.
Die(j) ==
  /\ job[j] = "running"
  /\ job' = [job EXCEPT ![j] = "done"]
  /\ status' = [status EXCEPT ![j] = 1]
  /\ UNCHANGED <<dumpVars, list, format>>

\* pg_dump, which does not need its parent, and the user.
Tool(c) == (Open(c) \/ Exit(c) \/ Delete(c)) /\ UNCHANGED jobVars

\* Runs are short, and so is the life of a pg_dump that was left behind.
Underway(c) ==
  \/ dump[c] \in {"forked", "open"}
  \/ asked[c] # NotAsked /\ \E j \in Jobs : c \in CallsOf(j) /\ job[j] \in {"running", "exited"}

Tick ==
  /\ now < MaxTime
  /\ \A c \in Calls : Underway(c) => now - asked[c].at < LongestRun
  /\ now' = now + 1
  /\ UNCHANGED <<callVars, files, jobVars>>

AllDone ==
  /\ \A j \in Jobs : job[j] = "done"
  /\ UNCHANGED vars

Next ==
  \/ \E j \in Jobs : Launch(j) \/ Backup(j) \/ JobExits(j) \/ Script(j) \/ Die(j)
  \/ \E c \in Calls : Tool(c)
  \/ Tick
  \/ AllDone

Spec == Init /\ [][Next]_vars
-----------------------------------------------------------------------------
\* A job that is over has heard from every call, or died; a call that returned
\* has no pg_dump running; what a file says of its writer is true.
TypeOK ==
  /\ now \in 0 .. MaxTime
  /\ asked \in [Calls -> [db : Databases \cup {""}, at : 0 .. MaxTime, format : Formats \cup {"", "custom"}]]
  /\ dump \in [Calls -> {"none", "forked", "open", "complete", "hollow", "failed"}]
  /\ outcome \in [Calls -> Outcomes]
  /\ status \in [Jobs -> {0, 1}]
  /\ job \in [Jobs -> {"idle", "running", "exited", "done"}]
  /\ \A f \in DOMAIN files :
       files[f].by \in Calls /\ f = FileOf(files[f].by) /\ files[f].mtime <= now
  /\ \A c \in Calls : outcome[c] # "none" => dump[c] \notin {"forked", "open"}

\* A backup reported OK is a whole dump of the database that was asked for,
\* written by this very call, and stays so until it is older than the window,
\* whatever other runs write, fail at, leave behind, prune or tell the user to
\* delete.  (postgres.go: the checks after pg_dump; ugreen-nas.md: "prune dumps
\* older than 50 days".)  Two backups of one database in one second share a
\* file, and the code makes no claim about those.
OkIsGood ==
  \A c \in Calls :
    outcome[c] = "ok" /\ Unshared(c) =>
      \/ /\ Whole(FileOf(c)) /\ files[FileOf(c)].by = c
         /\ \A k \in Calls \ {c} : asked[k] # NotAsked => FileOf(k) # FileOf(c)
      \/ asked[c].format = "custom" /\ now - asked[c].at > MaxAge

\* Pruning "only after a successful run": whoever prunes has fresh copies of all
\* the databases of its own list, also after the pruning.
PruneSparesOwn ==
  [][\A j \in Jobs :
       job[j] = "exited" /\ job'[j] = "done" /\ status[j] = 0 =>
         \A i \in DOMAIN list[j] : Unshared(<<j, i>>) => Copy(list[j][i])']_vars

-----------------------------------------------------------------------------
\* docs/ugreen-nas.md: "a failed backup never leaves you with zero copies", the
\* pruning comes "only after a successful run".
FailedBackupsLeaveACopy ==
  [][\A j \in Jobs, c \in Calls :
       job[j] = "exited" /\ job'[j] = "done" /\ outcome[c] \in {"nofile", "partial", "empty"} =>
         (Copy(asked[c].db) => Copy(asked[c].db)')]_vars
=============================================================================

------------------------------ MODULE BackupTui ------------------------------
(***************************************************************************)
(* tui.Run (internal/tui/backup.go): the interactive backup.  A bubbletea  *)
(* event loop owns the model and handles one message at a time; commands   *)
(* (ping, list, inspect, the batch itself, quit) run in goroutines of      *)
(* their own and come back as messages.  The batch is core's, BackupBatch, *)
(* whose callback blocks in program.Send until the loop takes the message. *)
(*                                                                         *)
(* bubbletea is external: tea.Quit is a command like the others, so more   *)
(* messages may be handled before its QuitMsg ends the loop; once the loop *)
(* has ended Send does nothing; SIGTERM is delivered as a QuitMsg.         *)
(***************************************************************************)
EXTENDS Integers, FiniteSets

CONSTANTS N,               \* how many databases were requested
          DBName,          \* their names, in order
          MaxConcurrency   \* Config.Concurrency

VARIABLES main, targets, pc, sem, wg, cancelled, results, reported, dumped

batchVars == <<main, targets, pc, sem, wg, cancelled, results, reported, dumped>>

Batch == INSTANCE BackupBatch WITH HasCallback <- TRUE

\* What BackupBatch assumes; the parser of -db drops empty names.
ASSUME BatchAssumption ==
  /\ N \in Nat /\ MaxConcurrency \in Int
  /\ DOMAIN DBName = 1 .. N /\ \A i \in 1 .. N : DBName[i] # ""

VARIABLES prog,            \* the event loop: "running", then "ended" or, with an error,
                           \* "broken"; and "exited"
          exit,            \* what Run returned
          cmds,            \* commands whose message has not been handled
          stage,           \* model.stage
          fatal,           \* model.fatalErr # nil
          userAborted,
          db,              \* model.dbs: one dbState per requested database
          inspectPending, backupPending, attempted, failed,
          said,            \* history: what the user said, while it was for the user to
                           \* say, of running backups: "yes", "no", either or both
          autoConfirm,     \* Config.AutoConfirm, the same in every state
          terminated       \* history: a SIGTERM was received

outside == <<autoConfirm, terminated>>
uiVars == <<prog, exit, cmds, stage, fatal, userAborted, db, inspectPending,
            backupPending, attempted, failed, said, outside>>
vars == <<batchVars, uiVars>>

Target == 1 .. N
Found == {i \in Target : db[i].found}

Ping == <<"ping", 0>>
List == <<"list", 0>>
Quit == <<"quit", 0>>
RunBatch == <<"batch", 0>>
Inspect(i) == <<"inspect", i>>

\* model.byName: of two entries with one name the map keeps the last.
ByName(i) == CHOOSE j \in Target : /\ DBName[j] = DBName[i]
                                   /\ \A k \in Target : DBName[k] = DBName[i] => k <= j

-----------------------------------------------------------------------------
\* newModel and Init.
Init ==
  /\ Batch!Init
  /\ prog = "running" /\ exit = "none"
  /\ cmds = {Ping}
  /\ stage = "pinging"
  /\ fatal = FALSE /\ userAborted = FALSE /\ said = {}
  /\ db = [i \in Target |-> [found |-> FALSE, inspecting |-> FALSE, backing |-> FALSE,
                             current |-> FALSE, done |-> FALSE, result |-> Batch!Unset]]
  /\ inspectPending = 0 /\ backupPending = 0 /\ attempted = 0 /\ failed = 0
  /\ autoConfirm \in BOOLEAN /\ terminated = FALSE

\* The loop takes the message of command c; what Update makes of it follows.
Handle(c) == prog = "running" /\ c \in cmds

StartBackups_CountsRequested(d, others) ==
  /\ db' = [i \in Target |-> [d[i] EXCEPT !.backing = @ \/ d[i].found]]
  /\ backupPending' = backupPending + N
  /\ IF Found = {}
       THEN stage' = "done" /\ cmds' = others \cup {Quit}
       ELSE stage' = "backingUp" /\ cmds' = others \cup {RunBatch}

\* startBackups, on the dbStates d; others are the commands still outstanding.
StartBackups(d, others) ==
  /\ db' = [i \in Target |-> [d[i] EXCEPT !.backing = @ \/ d[i].found]]
  /\ backupPending' = backupPending + Cardinality(Found)
  /\ IF Found = {}
       THEN stage' = "done" /\ cmds' = others \cup {Quit}
       ELSE stage' = "backingUp" /\ cmds' = others \cup {RunBatch}

PingMsg ==
  /\ Handle(Ping)
  /\ \/ fatal' = TRUE /\ cmds' = (cmds \ {Ping}) \cup {Quit} /\ UNCHANGED stage
     \/ stage' = "checking" /\ cmds' = (cmds \ {Ping}) \cup {List} /\ UNCHANGED fatal
  /\ UNCHANGED <<batchVars, prog, exit, userAborted, db, inspectPending, backupPending,
                 attempted, failed, said, outside>>

ListFails ==
  /\ Handle(List)
  /\ fatal' = TRUE
  /\ cmds' = (cmds \ {List}) \cup {Quit}
  /\ UNCHANGED <<batchVars, prog, exit, stage, userAborted, db, inspectPending,
                 backupPending, attempted, failed, said, outside>>

\* dbListMsg with the names the server has.
ListMsg(names) ==
  LET found == {i \in Target : DBName[i] \in names} IN
  /\ Handle(List)
  /\ db' = [i \in Target |->
              [db[i] EXCEPT !.found = i \in found, !.inspecting = @ \/ i \in found]]
  /\ inspectPending' = inspectPending + Cardinality(found)
  /\ IF found = {}
       THEN /\ fatal' = TRUE /\ stage' = "report"
            /\ cmds' = (cmds \ {List}) \cup {Quit}
       ELSE /\ stage' = "inspecting" /\ UNCHANGED fatal
            /\ cmds' = (cmds \ {List}) \cup {Inspect(i) : i \in found}
  /\ UNCHANGED <<batchVars, prog, exit, userAborted, backupPending, attempted, failed,
                 said, outside>>

\* inspectMsg; a failed inspection is shown and holds nothing up.
InspectMsg_NoEarlyReturn(i) ==
  LET seen == [db EXCEPT ![ByName(i)].inspecting = FALSE]
      others == cmds \ {Inspect(i)} IN
  /\ Handle(Inspect(i))
  /\ inspectPending' = inspectPending - 1
  /\ IF autoConfirm
       THEN StartBackups(seen, others)
       ELSE /\ db' = seen /\ cmds' = others /\ stage' = "report"
            /\ UNCHANGED backupPending
  /\ UNCHANGED <<batchVars, prog, exit, fatal, userAborted, attempted, failed, said, outside>>

InspectMsg_NoAutoCheck(i) ==
  LET seen == [db EXCEPT ![ByName(i)].inspecting = FALSE]
      others == cmds \ {Inspect(i)} IN
  /\ Handle(Inspect(i))
  /\ inspectPending' = inspectPending - 1
  /\ \/ /\ inspectPending = 1
        /\ StartBackups(seen, others)
     \/ /\ inspectPending > 1
        /\ db' = seen /\ cmds' = others
        /\ UNCHANGED <<stage, backupPending>>
  /\ UNCHANGED <<batchVars, prog, exit, fatal, userAborted, attempted, failed, said, outside>>

InspectMsg(i) ==
  LET seen == [db EXCEPT ![ByName(i)].inspecting = FALSE]
      others == cmds \ {Inspect(i)} IN
  /\ Handle(Inspect(i))
  /\ inspectPending' = inspectPending - 1
  /\ \/ /\ inspectPending = 1 /\ autoConfirm
        /\ StartBackups(seen, others)
     \/ /\ inspectPending > 1 \/ ~autoConfirm
        /\ db' = seen /\ cmds' = others
        /\ stage' = IF inspectPending > 1 THEN stage ELSE "report"
        /\ UNCHANGED backupPending
  /\ UNCHANGED <<batchVars, prog, exit, fatal, userAborted, attempted, failed, said, outside>>

\* The command startBackups returned: core.BackupAllWithProgress is called.
BatchCmd ==
  /\ prog # "exited" /\ RunBatch \in cmds
  /\ cmds' = cmds \ {RunBatch}
  /\ Batch!Invoke(Found)
  /\ UNCHANGED <<prog, exit, stage, fatal, userAborted, db, inspectPending, backupPending,
                 attempted, failed, said, outside>>

\* progressMsg: the dump of i reports the table it has reached.
ProgressMsg(i) ==
  /\ prog = "running" /\ pc[i] = "dump"
  /\ db' = [db EXCEPT ![ByName(i)].current = TRUE]
  /\ UNCHANGED <<batchVars, prog, exit, cmds, stage, fatal, userAborted, inspectPending,
                 backupPending, attempted, failed, said, outside>>

\* backupDoneMsg: the loop takes what the callback of target i sends, which lets
\* the callback return.
BackupDoneMsg_QuitsEarly(i) ==
  /\ prog = "running"
  /\ Batch!OnResult(i)
  /\ db' = [db EXCEPT ![ByName(i)].backing = FALSE, ![ByName(i)].done = TRUE,
                      ![ByName(i)].result = results[i]]
  /\ attempted' = attempted + 1
  /\ failed' = failed + (IF Batch!OK(results[i]) THEN 0 ELSE 1)
  /\ backupPending' = backupPending - 1
  /\ stage' = IF backupPending <= 2 THEN "done" ELSE stage
  /\ cmds' = IF backupPending <= 2 THEN cmds \cup {Quit} ELSE cmds
  /\ UNCHANGED <<prog, exit, fatal, userAborted, inspectPending, said, outside>>

BackupDoneMsg_SkipsUncounted(i) ==
  /\ prog = "running"
  /\ Batch!OnResult(i)
  /\ db' = [db EXCEPT ![ByName(i)].backing = FALSE, ![ByName(i)].done = TRUE,
                      ![ByName(i)].result = results[i]]
  /\ attempted' = attempted + (IF results[i].err = "ctx" THEN 0 ELSE 1)
  /\ failed' = failed + (IF results[i].err \in {"nil", "ctx"} THEN 0 ELSE 1)
  /\ backupPending' = backupPending - (IF results[i].err = "ctx" THEN 0 ELSE 1)
  /\ stage' = IF backupPending' = 0 THEN "done" ELSE stage
  /\ cmds' = IF backupPending' = 0 THEN cmds \cup {Quit} ELSE cmds
  /\ UNCHANGED <<prog, exit, fatal, userAborted, inspectPending, said, outside>>

BackupDoneMsg(i) ==
  /\ prog = "running"
  /\ Batch!OnResult(i)
  /\ db' = [db EXCEPT ![ByName(i)].backing = FALSE, ![ByName(i)].done = TRUE,
                      ![ByName(i)].result = results[i]]
  /\ attempted' = attempted + 1
  /\ failed' = failed + (IF Batch!OK(results[i]) THEN 0 ELSE 1)
  /\ backupPending' = backupPending - 1
  /\ stage' = IF backupPending = 1 THEN "done" ELSE stage
  /\ cmds' = IF backupPending = 1 THEN cmds \cup {Quit} ELSE cmds
  /\ UNCHANGED <<prog, exit, fatal, userAborted, inspectPending, said, outside>>

\* handleKey: ctrl+c at any time, the answers only at the confirmation step.
Abort ==
  /\ userAborted' = TRUE
  /\ cancelled' = TRUE
  /\ cmds' = cmds \cup {Quit}
  /\ said' = IF stage \in {"backingUp", "done"} THEN said ELSE said \cup {"no"}
  /\ UNCHANGED <<main, targets, pc, sem, wg, results, reported, dumped, prog, exit, stage,
                 fatal, db, inspectPending, backupPending, attempted, failed, outside>>

CtrlC == prog = "running" /\ Abort

AnswerNo_NotCancelled ==
  /\ prog = "running" /\ stage = "report"
  /\ userAborted' = TRUE
  /\ cmds' = cmds \cup {Quit}
  /\ UNCHANGED <<batchVars, prog, exit, stage, fatal, db, inspectPending, backupPending,
                 attempted, failed, said, outside>>

AnswerNo == prog = "running" /\ stage = "report" /\ Abort

AnswerYes ==
  /\ prog = "running" /\ stage = "report"
  /\ StartBackups(db, cmds)
  /\ said' = said \cup {"yes"}
  /\ UNCHANGED <<batchVars, prog, exit, fatal, userAborted, inspectPending, attempted,
                 failed, outside>>

\* bubbletea turns the signal into a quit.
Terminate ==
  /\ prog = "running" /\ ~terminated
  /\ terminated' = TRUE
  /\ cmds' = cmds \cup {Quit}
  /\ UNCHANGED <<batchVars, prog, exit, stage, fatal, userAborted, db, inspectPending,
                 backupPending, attempted, failed, said, autoConfirm>>

QuitMsg ==
  /\ Handle(Quit)
  /\ prog' = "ended"
  /\ UNCHANGED <<batchVars, exit, cmds, stage, fatal, userAborted, db, inspectPending,
                 backupPending, attempted, failed, said, outside>>

\* The loop can also end with an error, at any time: no terminal, a killed or
\* panicking program.
LoopBreaks ==
  /\ prog = "running"
  /\ prog' = "broken"
  /\ UNCHANGED <<batchVars, exit, cmds, stage, fatal, userAborted, db, inspectPending,
                 backupPending, attempted, failed, said, outside>>

\* The end of Run, with its deferred cancel; the process exits after it.
RunReturns ==
  /\ prog \in {"ended", "broken"}
  /\ prog' = "exited"
  /\ exit' = CASE prog = "broken" -> "broken"
               [] prog = "ended" /\ fatal -> "fatal"
               [] prog = "ended" /\ ~fatal /\ userAborted -> "aborted"
               [] prog = "ended" /\ ~fatal /\ ~userAborted /\ failed > 0 -> "failed"
               [] OTHER -> "nil"
  /\ cancelled' = TRUE
  /\ UNCHANGED <<main, targets, pc, sem, wg, results, reported, dumped, cmds, stage, fatal,
                 userAborted, db, inspectPending, backupPending, attempted, failed, said, outside>>

-----------------------------------------------------------------------------
(* What the screen says of database i; of the layout, only the choices.    *)

\* renderReport.
ReportLine(i) ==
  IF ~db[i].found THEN "not found"
  ELSE IF db[i].inspecting THEN "inspecting" ELSE "inspected"

\* renderProgress; nothing is said of those that were not found.
ProgressLine(i) ==
  CASE db[i].found /\ db[i].done -> IF Batch!OK(db[i].result) THEN "backed up" ELSE "failed"
    [] db[i].found /\ ~db[i].done /\ db[i].backing ->
         IF db[i].current THEN "dumping" ELSE "starting"
    [] OTHER -> "nothing"

\* renderSummary.
SummaryLine(i) ==
  CASE userAborted -> "no backups were run"
    [] ~userAborted /\ ~db[i].found -> "not found"
    [] OTHER -> IF Batch!OK(db[i].result) THEN "backed up" ELSE "failed"

\* View.
Line(i) ==
  CASE fatal /\ stage # "report" -> "error"
    [] stage \in {"inspecting", "report"} /\ (fatal => stage = "report") -> ReportLine(i)
    [] stage = "backingUp" /\ ~fatal -> ProgressLine(i)
    [] stage = "done" /\ ~fatal -> SummaryLine(i)
    [] OTHER -> "connecting"

-----------------------------------------------------------------------------
\* The goroutines of the batch go on until the process exits; a Send to a
\* program that has ended returns at once.
BatchStep(i) ==
  /\ prog # "exited"
  /\ \/ Batch!Spawn(i) \/ Batch!AcquireSlot(i) \/ Batch!SeeCancel(i)
     \/ Batch!DumpStarts(i) \/ Batch!BackupReturns(i)
     \/ prog \in {"ended", "broken"} /\ Batch!OnResult(i)
     \/ Batch!ReleaseSlot(i) \/ Batch!GoroutineExits(i)
  /\ UNCHANGED uiVars

BatchReturns == prog # "exited" /\ Batch!WaitReturns /\ UNCHANGED uiVars

Exited == prog = "exited" /\ UNCHANGED vars

User == CtrlC \/ AnswerNo \/ AnswerYes

Next ==
  \/ PingMsg \/ ListFails
  \/ \E names \in SUBSET {DBName[i] : i \in Target} : ListMsg(names)
  \/ \E i \in Target : InspectMsg(i) \/ ProgressMsg(i) \/ BackupDoneMsg(i) \/ BatchStep(i)
  \/ BatchCmd \/ BatchReturns
  \/ User \/ Terminate
  \/ QuitMsg \/ LoopBreaks \/ RunReturns \/ Exited

\* Every command ends, the loop takes every message that waits (they queue on
\* one channel), goroutines run.  Nothing obliges the user to press a key.
Fairness ==
  /\ WF_vars(PingMsg)
  /\ WF_vars(ListFails \/ \E names \in SUBSET {DBName[i] : i \in Target} : ListMsg(names))
  /\ \A i \in Target : /\ WF_vars(InspectMsg(i)) /\ WF_vars(BackupDoneMsg(i))
                       /\ WF_vars(BatchStep(i))
  /\ WF_vars(BatchCmd) /\ WF_vars(BatchReturns)
  /\ WF_vars(QuitMsg) /\ WF_vars(RunReturns)

Spec == Init /\ [][Next]_vars
FairSpec == Spec /\ Fairness
-----------------------------------------------------------------------------
TypeOK ==
  /\ Batch!TypeOK
  /\ prog \in {"running", "ended", "broken", "exited"}
  /\ exit \in {"none", "broken", "fatal", "aborted", "failed", "nil"}
  /\ cmds \subseteq {Ping, List, Quit, RunBatch} \cup {Inspect(i) : i \in Target}
  /\ stage \in {"pinging", "checking", "inspecting", "report", "backingUp", "done"}
  /\ db \in [Target -> [found : BOOLEAN, inspecting : BOOLEAN, backing : BOOLEAN,
                        current : BOOLEAN, done : BOOLEAN, result : Batch!Result]]
  /\ {fatal, userAborted, autoConfirm, terminated} \subseteq BOOLEAN
  /\ said \subseteq {"yes", "no"}
  /\ {inspectPending, backupPending, attempted, failed} \subseteq 0 .. N

\* tui.Run: "It returns nil only if every requested database that was found
\* backed up successfully."
NilMeansAllBackedUp ==
  exit = "nil" => \A i \in Found : Batch!OK(results[i]) /\ i \in dumped

\* Without a SIGTERM it keeps that promise.
NilIsEarned == ~terminated => NilMeansAllBackedUp

\* Once the user has said no, no dump is started any more, even when a "yes"
\* slips in before the program has ended or backups were already queued.
DeclineIsFinal == [][userAborted => dumped' = dumped]_vars

\* The batch is called with the user's yes or with -yes, after every inspection
\* of a database that was found has been shown, and for those databases only.
BackupsFollowReport ==
  main # "idle" => /\ autoConfirm \/ "yes" \in said
                   /\ inspectPending = 0
                   /\ \A i \in Target : Inspect(i) \notin cmds
                   /\ targets = Found

\* The loop's counters agree with the batch: every target of the batch is still
\* pending or was counted, as failed if its result is an error.
CountersAgree ==
  LET told == {i \in Target : reported[i] = 1} IN
  stage \in {"backingUp", "done"} /\ prog = "running" =>
    /\ backupPending + attempted = Cardinality(Found)
    /\ attempted = Cardinality(told)
    /\ failed = Cardinality({i \in told : ~Batch!OK(results[i])})

\* What the screens say of a database is true of it, in every order of results,
\* keys and quits; nobody is asked to confirm while an inspection is shown as
\* running; and what Run returns is what its last screen says.  "No backups were
\* run" is true after a no, or a ctrl+c before the backups began; after a ctrl+c
\* among the backups it need not be, which is AbortSummaryIsTrue's matter.
ShownIsTrue ==
  /\ \A i \in Target :
       /\ Line(i) = "backed up" => Batch!OK(results[i]) /\ i \in dumped
       /\ Line(i) = "dumping" => i \in dumped
       /\ Line(i) = "failed" => ~Batch!OK(results[i])
       /\ Line(i) = "no backups were run" /\ "no" \in said => dumped = {}
       /\ stage = "report" => Line(i) # "inspecting"
  /\ exit = "nil" /\ ~terminated => \A i \in Found : Line(i) = "backed up"
  /\ exit = "failed" => \E i \in Found : Line(i) = "failed"

\* renderSummary's words for an interactive backup that the user ended, "Aborted
\* - no backups were run", said of one in which no dump was started.
AbortSummaryIsTrue ==
  (\E i \in Target : Line(i) = "no backups were run") => dumped = {}

\* The program never waits for a message that nobody will send: away from the
\* confirmation step a command is outstanding, or the batch owes a callback and
\* somebody in it can go on; and once there is nothing left to do, or the user has
\* said so, a quit is under way.
SomethingIsComing ==
  prog = "running" =>
    /\ fatal \/ userAborted \/ terminated \/ stage = "done" => Quit \in cmds
    /\ \/ stage = "report" \/ cmds # {}
       \/ /\ main = "batch" /\ \E i \in targets : reported[i] = 0
          /\ Batch!SomebodyCanRun

\* The program reaches the confirmation step or its end, whatever fails, and
\* after a refusal or ctrl+c it ends.
NeverHangs ==
  /\ prog = "running" /\ stage # "report" ~> stage = "report" \/ prog = "exited"
  /\ userAborted ~> prog = "exited"
=============================================================================

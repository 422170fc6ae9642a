----------------------------- MODULE RestoreTui -----------------------------
(***************************************************************************)
(* The interactive restore: runRestore (cmd/dbsnap/main.go) up to the      *)
(* plan, then tui.RunRestore (internal/tui/restore.go).  Invocation Me of  *)
(* RestoreRun is the interactive one; the others are plain and run beside  *)
(* it.  The event loop is that of BackupTui: tea.Quit is a command, so     *)
(* more messages may be handled before the loop ends; SIGTERM is delivered *)
(* as a quit.  Once the context is cancelled Restore cannot connect or     *)
(* start a tool any more, and a tool that runs is killed, sooner or later. *)
(***************************************************************************)
EXTENDS Integers

CONSTANTS Me,            \* the interactive invocation
          BaseBytes, MaxIdentifierLen, Invocations, Requests, Initially, Templates,
          OthersMay, MaxDatabases

ASSUME MeAssumption == Me \in Invocations

VARIABLES oid, maker, written, pc, req, name, outcome, offered, loader, target

runVars == <<oid, maker, written, pc, req, name, outcome, offered, loader, target>>
allButPc == <<oid, maker, written, req, name, loader, target>>

Run == INSTANCE RestoreRun

\* What RestoreRun assumes.
ASSUME RunAssumption ==
  /\ "other" \notin Invocations
  /\ Initially \in Run!Seq(Run!Range(Initially)) /\ Run!IsInjective(Initially)
  /\ Run!NoName \notin Run!Range(Initially) /\ Templates \subseteq Run!Range(Initially)
  /\ OthersMay \subseteq {"create", "drop", "rename", "ours"}
  /\ MaxDatabases \in Nat
  /\ \A r \in Requests : Run!IsRequest(r)

VARIABLES prog,         \* "preflight"; the loop: "running", then "ended" or, with an
                        \* error of its own, "broken"; then "exited"
          exit,         \* what RunRestore returned, or "refused" before it
          quitting,     \* is a tea.Quit under way?
          stage,        \* restoreModel.stage
          userAborted,
          cancelled,    \* the context
          result,       \* restoreModel.result: "zero", "ok" or "failed"
          done,         \* rRestoreDoneMsg was handled
          started,      \* history: how often startRestore ran
          inspecting,   \* the command of Inspect runs
          sent,         \* Restore has sent its CREATE DATABASE
          autoConfirm,  \* RestoreConfig.AutoConfirm, the same in every state
          terminated    \* history: a SIGTERM was received

modelVars == <<exit, quitting, stage, userAborted, cancelled, result, done, started,
               inspecting>>
outside == <<autoConfirm, terminated>>
uiVars == <<prog, modelVars, sent, outside>>
vars == <<runVars, uiVars>>

\* RestoreResult.OK: the zero value is OK.
OK(r) == r # "failed"

Init ==
  /\ Run!Init
  /\ prog = "preflight" /\ exit = "none" /\ quitting = FALSE
  /\ stage = "report" /\ userAborted = FALSE /\ cancelled = FALSE
  /\ result = "zero" /\ done = FALSE /\ started = 0 /\ inspecting = FALSE
  /\ sent = FALSE
  /\ autoConfirm \in BOOLEAN /\ terminated = FALSE

Preflight ==
  /\ prog = "preflight"
  /\ Run!Start(Me) \/ Run!ReadBackup(Me) \/ Run!List(Me)
  /\ UNCHANGED uiVars

\* PlanRestore failed: its message, and exit 1.
Refused ==
  /\ prog = "preflight" /\ pc[Me] = "done"
  /\ prog' = "exited" /\ exit' = "refused"
  /\ UNCHANGED <<runVars, quitting, stage, userAborted, cancelled, result, done, started,
                 inspecting, sent, outside>>

-----------------------------------------------------------------------------
(* Init of the model, and the keys.                                        *)

StartRestore ==
  /\ Run!Go(Me, "restoring")
  /\ started' = started + 1
  /\ stage' = "restoring"

Launch ==
  /\ prog = "preflight" /\ pc[Me] = "planned"
  /\ prog' = "running"
  /\ IF autoConfirm
       THEN StartRestore
       ELSE UNCHANGED <<pc, outcome, offered, started, stage>>
  /\ UNCHANGED <<allButPc, exit, quitting, userAborted, cancelled, result, done, inspecting, sent, outside>>

AnswerYes_AnyStage ==
  /\ prog = "running"
  /\ StartRestore
  /\ UNCHANGED <<allButPc, prog, exit, quitting, userAborted, cancelled, result, done,
                 inspecting, sent, outside>>

AnswerYes ==
  /\ prog = "running" /\ stage = "report"
  /\ StartRestore
  /\ UNCHANGED <<allButPc, prog, exit, quitting, userAborted, cancelled, result, done,
                 inspecting, sent, outside>>

Abort_NotCancelled ==
  /\ prog = "running"
  /\ userAborted' = TRUE /\ quitting' = TRUE
  /\ UNCHANGED <<runVars, prog, exit, stage, cancelled, result, done, started, inspecting, sent, outside>>

Abort ==
  /\ prog = "running"
  /\ userAborted' = TRUE /\ cancelled' = TRUE /\ quitting' = TRUE
  /\ UNCHANGED <<runVars, prog, exit, stage, result, done, started, inspecting, sent, outside>>

AnswerNo == stage = "report" /\ Abort

CtrlC == Abort

-----------------------------------------------------------------------------
(* The goroutine of Restore; it stops when the process exits.              *)

RestoreStep ==
  /\ prog \in {"running", "ended", "broken"}
  /\ \/ Run!Validate(Me) \/ Run!CreateFails(Me) \/ Run!Return(Me)
     \/ sent /\ Run!Create(Me)
     \/ ~cancelled /\ Run!Fork(Me)
  /\ UNCHANGED uiVars

\* CreateDatabase connects, with the context, and sends the statement.
SendCreate ==
  /\ prog \in {"running", "ended", "broken"}
  /\ ~cancelled /\ ~sent /\ pc[Me] = "creating"
  /\ sent' = TRUE
  /\ UNCHANGED <<runVars, prog, modelVars, outside>>

ForkCancelled ==
  /\ prog \in {"running", "ended", "broken"}
  /\ cancelled /\ pc[Me] = "created"
  /\ Run!End(Me, "failed", {})
  /\ UNCHANGED <<allButPc, uiVars>>

-----------------------------------------------------------------------------
(* Update.                                                                 *)

RestoreDoneMsg_ErrDropped ==
  /\ prog = "running" /\ pc[Me] = "done" /\ ~done
  /\ done' = TRUE
  /\ result' = "ok" /\ stage' = "verifying" /\ inspecting' = TRUE
  /\ UNCHANGED <<runVars, prog, exit, quitting, userAborted, cancelled, started, sent, outside>>

RestoreDoneMsg ==
  /\ prog = "running" /\ pc[Me] = "done" /\ ~done
  /\ done' = TRUE
  /\ \/ /\ outcome[Me] = "restored"
        /\ result' = "ok" /\ stage' = "verifying" /\ inspecting' = TRUE
        /\ UNCHANGED quitting
     \/ /\ outcome[Me] # "restored"
        /\ result' = "failed" /\ stage' = "done" /\ quitting' = TRUE
        /\ UNCHANGED inspecting
  /\ UNCHANGED <<runVars, prog, exit, userAborted, cancelled, started, sent, outside>>

VerifyMsg_NoQuit ==
  /\ prog = "running" /\ inspecting
  /\ inspecting' = FALSE /\ stage' = "done"
  /\ UNCHANGED <<runVars, prog, exit, quitting, userAborted, cancelled, result, done, started, sent, outside>>

\* rVerifyMsg, with the inspection or its error.
VerifyMsg ==
  /\ prog = "running" /\ inspecting
  /\ inspecting' = FALSE /\ stage' = "done" /\ quitting' = TRUE
  /\ UNCHANGED <<runVars, prog, exit, userAborted, cancelled, result, done, started, sent, outside>>

Terminate ==
  /\ prog = "running" /\ ~terminated
  /\ terminated' = TRUE /\ quitting' = TRUE
  /\ UNCHANGED <<runVars, prog, exit, stage, userAborted, cancelled, result, done, started,
                 inspecting, sent, autoConfirm>>

QuitMsg ==
  /\ prog = "running" /\ quitting
  /\ prog' = "ended"
  /\ UNCHANGED <<runVars, exit, quitting, stage, userAborted, cancelled, result, done, started,
                 inspecting, sent, outside>>

\* The loop ends with an error of its own: program.Run returns it.
LoopBreaks ==
  /\ prog = "running"
  /\ prog' = "broken"
  /\ UNCHANGED <<runVars, modelVars, sent, outside>>

Outcome_StageIgnored ==
  CASE userAborted -> "aborted"
    [] ~userAborted /\ ~OK(result) -> "failed"
    [] OTHER -> "nil"

Outcome ==
  CASE userAborted /\ stage = "report" -> "aborted"
    [] userAborted /\ stage # "report" -> "midRestore"
    [] ~userAborted /\ ~OK(result) -> "failed"
    [] OTHER -> "nil"

\* The end of RunRestore; the process exits after it and takes Restore with it.
RunRestoreReturns ==
  /\ prog \in {"ended", "broken"}
  /\ prog' = "exited" /\ cancelled' = TRUE
  /\ exit' = IF prog = "broken" THEN "broken" ELSE Outcome
  /\ \/ pc[Me] = "done" /\ UNCHANGED <<pc, outcome, offered>>
     \/ pc[Me] = "planned" /\ Run!End(Me, "declined", {})
     \/ pc[Me] \notin {"done", "planned"} /\ Run!End(Me, "dead", {})
  /\ UNCHANGED <<allButPc, quitting, stage, userAborted, result, done, started, inspecting, sent, outside>>

\* View and renderSummary: what is said of the database.
Screen ==
  CASE stage = "report" -> IF userAborted THEN "nothing was created" ELSE "will be created"
    [] stage = "done" -> IF OK(result) THEN "restored" ELSE "failed"
    [] OTHER -> stage

-----------------------------------------------------------------------------
\* The tools, the plain invocations and the other clients of the server.
Around ==
  /\ \/ Run!Loader(Me)
     \/ \E q \in Invocations \ {Me} : Run!Start(q) \/ Run!Command(q) \/ Run!Loader(q)
     \/ Run!Other
  /\ UNCHANGED uiVars

Exited == prog = "exited" /\ UNCHANGED vars

User == AnswerYes \/ AnswerNo \/ CtrlC

Next ==
  \/ Preflight \/ Refused \/ Launch
  \/ User
  \/ RestoreStep \/ SendCreate \/ ForkCancelled
  \/ RestoreDoneMsg \/ VerifyMsg \/ Terminate \/ QuitMsg \/ LoopBreaks
  \/ RunRestoreReturns \/ Around \/ Exited

\* The goroutine runs, the tool ends, the loop takes the messages of commands;
\* nobody has to press a key.
Fairness ==
  /\ WF_vars(RestoreStep) /\ WF_vars(ForkCancelled)
  /\ WF_vars(Run!LoaderConnects(Me) /\ UNCHANGED uiVars)
  /\ WF_vars(Run!LoaderEnds(Me) /\ UNCHANGED uiVars)
  /\ WF_vars(RestoreDoneMsg) /\ WF_vars(VerifyMsg)
  /\ WF_vars(QuitMsg) /\ WF_vars(RunRestoreReturns)

Spec == Init /\ [][Next]_vars
FairSpec == Spec /\ Fairness
-----------------------------------------------------------------------------
Mine == {o \in DOMAIN maker : maker[o] = Me}

TypeOK ==
  /\ Run!TypeOK
  /\ prog \in {"preflight", "running", "ended", "broken", "exited"}
  /\ exit \in {"none", "refused", "broken", "aborted", "midRestore", "failed", "nil"}
  /\ stage \in {"report", "restoring", "verifying", "done"}
  /\ {quitting, userAborted, cancelled, done, inspecting, sent, autoConfirm,
      terminated} \subseteq BOOLEAN
  /\ result \in {"zero", "ok", "failed"}
  /\ started \in 0 .. 1
  /\ stage = "report" <=> started = 0

\* The interactive restore takes only the steps of a plain one, whatever keys
\* are pressed and whenever it exits.
ImplementsRun == Run!Spec

\* Once the user has said no, no CREATE DATABASE is sent and no database made any
\* more, even when a "yes" is handled before the program has ended; after ctrl+c
\* only a CREATE that was already on its way can still take effect.
DeclineIsFinal ==
  [][userAborted => sent' = sent /\ (Mine' = Mine \/ sent)]_vars

\* ErrAborted, for which main prints "Aborted.", means that the server was not
\* touched, and so does the screen "nothing was created or restored".
AbortedTouchedNothing ==
  exit = "aborted" \/ Screen = "nothing was created" => Mine = {}

\* Unless a SIGTERM ended it, RunRestore returns nil, and the summary says
\* "restored", only for a database that is there under the name announced,
\* created and loaded by this run alone.
NilMeansRestored ==
  (exit = "nil" /\ ~terminated) \/ Screen = "restored" =>
    /\ name[Me] \in DOMAIN oid
    /\ oid[name[Me]] \in Mine
    /\ {w \in written : w[2] = oid[name[Me]]} = {<<Me, oid[name[Me]]>>}

\* The program never waits for a message that nobody will send: away from the
\* question a quit or the inspection is under way, or Restore runs or has returned
\* and its message was not handled yet; and a quit follows whatever ends the program.
SomethingIsComing ==
  prog = "running" =>
    /\ userAborted \/ terminated \/ stage = "done" => quitting
    /\ \/ stage = "report" \/ quitting \/ inspecting
       \/ ~done /\ pc[Me] \in {"restoring", "creating", "created", "done"}
       \/ ~done /\ pc[Me] = "loading" /\ loader[Me] # "none"

\* A restore that was started comes to an end, whatever fails, and after a
\* refusal or ctrl+c the program ends.
RestoreEnds == stage = "restoring" \/ userAborted ~> prog = "exited"
=============================================================================

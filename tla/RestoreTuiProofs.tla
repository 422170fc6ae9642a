-------------------------- MODULE RestoreTuiProofs --------------------------
(***************************************************************************)
(* Proofs about the interactive restore.  It takes only the steps of a     *)
(* plain one: whatever is pressed, and whenever the program exits, the     *)
(* server sees an invocation of RestoreRun, so what RestoreRunProofs shows *)
(* holds of it; from that, and from how the fields of the model go         *)
(* together, follow what it may have touched and what it may return.       *)
(***************************************************************************)
EXTENDS RestoreTui, Sequences, TLAPS

\* While the report is on the screen the plan is made and nothing is started.
InStep ==
  /\ DOMAIN pc = Invocations
  /\ prog # "preflight" => pc[Me] # "idle"
  /\ prog = "running" /\ stage = "report" => pc[Me] = "planned"

USE MeAssumption

LEMMA InStepInit == Init => InStep
  BY DEF Init, Run!Init, InStep

\* Go and End change pc at one place.
LEMMA PcMoves ==
  ASSUME DOMAIN pc = Invocations, NEW p \in Invocations, NEW to,
         pc' = [pc EXCEPT ![p] = to]
  PROVE  /\ DOMAIN pc' = Invocations
         /\ pc'[p] = to
         /\ \A q \in Invocations \ {p} : pc'[q] = pc[q]
  OBVIOUS

LEMMA OthersMovePc ==
  ASSUME DOMAIN pc = Invocations, NEW q \in Invocations \ {Me},
         Run!Start(q) \/ Run!Command(q)
  PROVE  DOMAIN pc' = Invocations /\ pc'[Me] = pc[Me]
<1>1. ASSUME NEW to, Run!Go(q, to) PROVE DOMAIN pc' = Invocations /\ pc'[Me] = pc[Me]
  BY <1>1, PcMoves DEF Run!Go
<1>2. ASSUME NEW o, NEW cs, Run!End(q, o, cs)
      PROVE  DOMAIN pc' = Invocations /\ pc'[Me] = pc[Me]
  BY <1>2, PcMoves DEF Run!End
<1>3. (\E to : Run!Go(q, to)) \/ (\E o, cs : Run!End(q, o, cs))
  <2>1. CASE Run!Start(q)
    BY <2>1 DEF Run!Start
  <2>2. CASE Run!ReadBackup(q) \/ Run!List(q)
    BY <2>2, Zenon DEF Run!ReadBackup, Run!List
  <2>3. CASE Run!Confirm(q) \/ Run!Validate(q) \/ Run!Create(q) \/ Run!CreateFails(q)
               \/ Run!Fork(q) \/ Run!Return(q)
    BY <2>3, Zenon DEF Run!Confirm, Run!Validate, Run!Create, Run!CreateFails, Run!Fork,
                       Run!Return
  <2> QED
    BY <2>1, <2>2, <2>3 DEF Run!Command
<1> QED
  BY <1>1, <1>2, <1>3

LEMMA PreflightMoves ==
  ASSUME InStep, Preflight PROVE InStep'
<1>1. UNCHANGED prog /\ prog = "preflight"
  BY DEF Preflight, uiVars
<1>2. (\E to : Run!Go(Me, to)) \/ (\E o, cs : Run!End(Me, o, cs))
  <2>1. CASE Run!Start(Me)
    BY <2>1 DEF Run!Start
  <2>2. CASE Run!ReadBackup(Me) \/ Run!List(Me)
    BY <2>2, Zenon DEF Run!ReadBackup, Run!List
  <2> QED
    BY <2>1, <2>2 DEF Preflight
<1>3. DOMAIN pc' = Invocations
  BY <1>2, PcMoves DEF Run!Go, Run!End, InStep
<1> QED
  BY <1>1, <1>3 DEF InStep

\* The goroutine of Restore moves on from where the report is left behind.
LEMMA RestoreStepMoves ==
  ASSUME InStep, RestoreStep PROVE InStep'
<1>1. UNCHANGED <<prog, stage>>
  BY DEF RestoreStep, uiVars, modelVars
<1>2. pc[Me] \in {"restoring", "creating", "created", "loading"}
  BY DEF RestoreStep, Run!Validate, Run!CreateFails, Run!Return, Run!Create, Run!Fork
<1>3. (\E to \in {"creating", "created", "loading"} : Run!Go(Me, to))
        \/ (\E o, cs : Run!End(Me, o, cs))
  BY Zenon DEF RestoreStep, Run!Validate, Run!CreateFails, Run!Return, Run!Create, Run!Fork
<1>4. DOMAIN pc' = Invocations /\ pc'[Me] # "idle"
  BY <1>3, PcMoves DEF Run!Go, Run!End, InStep
<1> QED
  BY <1>1, <1>2, <1>4 DEF InStep

LEMMA InStepStep == InStep /\ [Next]_vars => InStep'
<1> SUFFICES ASSUME InStep, [Next]_vars PROVE InStep'
  OBVIOUS
<1>1. CASE Refused
  BY <1>1 DEF Refused, InStep, runVars
<1>2. CASE Launch
  <2>1. CASE autoConfirm
    BY <1>2, <2>1, PcMoves DEF Launch, StartRestore, Run!Go, InStep
  <2>2. CASE ~autoConfirm
    BY <1>2, <2>2 DEF Launch, InStep
  <2> QED
    BY <2>1, <2>2
<1>3. CASE AnswerYes
  BY <1>3, PcMoves DEF AnswerYes, StartRestore, Run!Go, InStep
<1>4. CASE AnswerNo \/ CtrlC
  BY <1>4 DEF AnswerNo, CtrlC, Abort, InStep, runVars
<1>5. CASE SendCreate
  BY <1>5 DEF SendCreate, InStep, runVars, modelVars
<1>6. CASE ForkCancelled
  BY <1>6, PcMoves DEF ForkCancelled, Run!End, InStep, uiVars, modelVars
<1>7. CASE RestoreDoneMsg
  BY <1>7 DEF RestoreDoneMsg, InStep, runVars
<1>8. CASE VerifyMsg
  BY <1>8 DEF VerifyMsg, InStep, runVars
<1>9. CASE Terminate \/ QuitMsg \/ LoopBreaks
  BY <1>9 DEF Terminate, QuitMsg, LoopBreaks, InStep, runVars, modelVars
<1>10. CASE RunRestoreReturns
  BY <1>10, PcMoves DEF RunRestoreReturns, Run!End, InStep
<1>11. CASE Around
  <2>1. UNCHANGED <<prog, stage>>
    BY <1>11 DEF Around, uiVars, modelVars
  <2>2. ASSUME NEW p \in Invocations, Run!Loader(p) PROVE UNCHANGED pc
    BY <2>2 DEF Run!Loader, Run!LoaderConnects, Run!LoaderWrites, Run!LoaderEnds
  <2>3. ASSUME Run!Other PROVE UNCHANGED pc
    BY <2>3 DEF Run!Other, Run!OtherCreates, Run!OtherDrops, Run!OtherRenames
  <2>4. DOMAIN pc' = Invocations /\ pc'[Me] = pc[Me]
    BY <1>11, <2>2, <2>3, OthersMovePc DEF Around, InStep
  <2> QED
    BY <2>1, <2>4 DEF InStep
<1>12. CASE UNCHANGED vars
  BY <1>12 DEF vars, runVars, uiVars, modelVars, InStep
<1> QED
  BY <1>1, <1>2, <1>3, <1>4, <1>5, <1>6, <1>7, <1>8, <1>9, <1>10, <1>11, <1>12,
     PreflightMoves, RestoreStepMoves DEF Next, User, Exited

LEMMA StepsAreRuns == InStep /\ [Next]_vars => [Run!Next]_(Run!vars)
<1> SUFFICES ASSUME InStep, [Next]_vars PROVE Run!Next \/ UNCHANGED runVars
  BY DEF Run!vars, runVars
<1>1. CASE Preflight
  BY <1>1 DEF Preflight, Run!Next, Run!Command
<1>2. ASSUME pc[Me] = "planned", UNCHANGED allButPc,
             Run!Go(Me, "restoring") \/ Run!End(Me, "declined", {})
      PROVE  Run!Next
  <2>1. Run!Confirm(Me)
    BY <1>2 DEF Run!Confirm, allButPc, Run!server, Run!tool
  <2> QED
    BY <2>1 DEF Run!Next, Run!Command
<1>3. CASE Launch
  BY <1>2, <1>3 DEF Launch, StartRestore, runVars, allButPc
<1>4. CASE AnswerYes
  BY <1>2, <1>4 DEF AnswerYes, StartRestore, InStep
<1>5. CASE RestoreStep
  BY <1>5 DEF RestoreStep, Run!Next, Run!Command
<1>6. CASE ForkCancelled
  <2>1. Run!Fork(Me)
    BY <1>6 DEF ForkCancelled, Run!Fork, allButPc, Run!server
  <2> QED
    BY <2>1 DEF Run!Next, Run!Command
<1>7. CASE RunRestoreReturns
  <2>1. CASE pc[Me] = "done" /\ UNCHANGED <<pc, outcome, offered>>
    BY <1>7, <2>1 DEF RunRestoreReturns, runVars, allButPc
  <2>2. CASE pc[Me] = "planned" /\ Run!End(Me, "declined", {})
    BY <1>2, <1>7, <2>2 DEF RunRestoreReturns
  <2>3. CASE pc[Me] \notin {"done", "planned"} /\ Run!End(Me, "dead", {})
    <3>1. Run!Die(Me)
      BY <1>7, <2>3 DEF RunRestoreReturns, Run!Die, allButPc, Run!server, Run!tool, InStep
    <3> QED
      BY <3>1 DEF Run!Next
  <2> QED
    BY <1>7, <2>1, <2>2, <2>3 DEF RunRestoreReturns
<1>8. CASE Around
  BY <1>8 DEF Around, Run!Next
<1>9. CASE Refused \/ AnswerNo \/ CtrlC \/ SendCreate \/ RestoreDoneMsg \/ VerifyMsg
             \/ Terminate \/ QuitMsg \/ LoopBreaks \/ UNCHANGED vars
  BY <1>9 DEF Refused, AnswerNo, CtrlC, Abort, SendCreate, RestoreDoneMsg, VerifyMsg,
              Terminate, QuitMsg, LoopBreaks, vars
<1> QED
  BY <1>1, <1>3, <1>4, <1>5, <1>6, <1>7, <1>8, <1>9 DEF Next, User, Exited

\* The interactive restore implements RestoreRun: keys, a quit that is under way,
\* a signal and the exit of the program add no step that a plain invocation could
\* not take.
THEOREM Refinement == Spec => ImplementsRun
<1>1. Init => Run!Init
  BY DEF Init
<1> QED
  BY <1>1, InStepInit, InStepStep, StepsAreRuns, PTL DEF Spec, ImplementsRun, Run!Spec
-----------------------------------------------------------------------------
(* What RestoreRunProofs shows of every invocation, for the interactive    *)
(* one.                                                                    *)

RunProofs == INSTANCE RestoreRunProofs

LEMMA RunAssumptions ==
  /\ RunProofs!InvocationsAssumption /\ RunProofs!InitiallyAssumption
  /\ RunProofs!OthersAssumption /\ RunProofs!BoundAssumption
  /\ RunProofs!RequestsAssumption
  BY RunAssumption
  DEF RunProofs!InvocationsAssumption, RunProofs!InitiallyAssumption,
      RunProofs!OthersAssumption, RunProofs!BoundAssumption, RunProofs!RequestsAssumption,
      Run!IsRequest, RunProofs!IsRequest, Run!IsName, RunProofs!IsName, Run!Range, RunProofs!Range,
      Run!IsInjective, RunProofs!IsInjective, Run!NoName, RunProofs!NoName

\* RestoreRunProofs is about the same specification.
LEMMA SameRun ==
  /\ Run!Init => RunProofs!Init
  /\ [Run!Next]_(Run!vars) => [RunProofs!Next]_(RunProofs!vars)
<1> USE DEF Run!Init, RunProofs!Init, Run!Next, RunProofs!Next, Run!vars, RunProofs!vars,
        Run!server, RunProofs!server, Run!tool, RunProofs!tool, Run!AnyRequest,
        RunProofs!AnyRequest, Run!NoName, RunProofs!NoName, Run!End, RunProofs!End,
        Run!NewDatabase, RunProofs!NewDatabase, Run!Go, RunProofs!Go, Run!Start,
        RunProofs!Start, Run!ReadBackup, RunProofs!ReadBackup, Run!Listed, RunProofs!Listed,
        Run!List, RunProofs!List, Run!Confirm, RunProofs!Confirm, Run!Validate,
        RunProofs!Validate, Run!Create, RunProofs!Create, Run!CreateFails,
        RunProofs!CreateFails, Run!Fork, RunProofs!Fork, Run!Return, RunProofs!Return,
        Run!Die, RunProofs!Die, Run!LoaderConnects, RunProofs!LoaderConnects,
        Run!LoaderWrites, RunProofs!LoaderWrites, Run!LoaderEnds, RunProofs!LoaderEnds,
        Run!InUse, RunProofs!InUse, Run!OtherNames, RunProofs!OtherNames, Run!OtherCreates,
        RunProofs!OtherCreates, Run!Theirs, RunProofs!Theirs, Run!OtherDrops, RunProofs!OtherDrops, Run!OtherRenames,
        RunProofs!OtherRenames, Run!Spare, RunProofs!Spare, Run!Other, RunProofs!Other,
        Run!Command, RunProofs!Command, Run!Loader, RunProofs!Loader, Run!AllOver,
        RunProofs!AllOver, Run!Range, RunProofs!Range, Run!Bytes, RunProofs!Bytes,
        Run!TooLong, RunProofs!TooLong, Run!ArchiveFormats, RunProofs!ArchiveFormats,
        Run!ResolveRestoreFormat, RunProofs!ResolveRestoreFormat, Run!InspectedFormat,
        RunProofs!InspectedFormat, Run!ArchiveIsReadable, RunProofs!ArchiveIsReadable,
        Run!ArchiveName, RunProofs!ArchiveName, Run!ResolveRestoreName,
        RunProofs!ResolveRestoreName, Run!SuggestRestoreName, RunProofs!SuggestRestoreName,
        Run!RestoreCommand, RunProofs!RestoreCommand, Run!UsesPsql, RunProofs!UsesPsql,
        Run!JobsAllowed, RunProofs!JobsAllowed, Run!CanLoad, RunProofs!CanLoad, Run!Min,
        RunProofs!Min, Run!Cardinality, RunProofs!Cardinality
<1>1. Run!Init => RunProofs!Init
  OBVIOUS
<1>2. Run!Next => RunProofs!Next
  OBVIOUS
<1>3. Run!vars = RunProofs!vars
  OBVIOUS
<1> QED
  BY <1>1, <1>2, <1>3

LEMMA SpecIsRun == Spec => RunProofs!Spec
<1>1. Run!Init => RunProofs!Init
  BY SameRun
<1>2. [Run!Next]_(Run!vars) => [RunProofs!Next]_(RunProofs!vars)
  BY SameRun
<1> QED
  BY <1>1, <1>2, Refinement, PTL DEF ImplementsRun, Run!Spec, RunProofs!Spec

LEMMA RunInvariants == Spec => [](RunProofs!Types /\ RunProofs!Innocent)
<1>1. RunProofs!Spec => [](RunProofs!Types /\ RunProofs!Innocent)
  BY RunProofs!Innocence, RunAssumptions
  DEF RunProofs!InvocationsAssumption, RunProofs!InitiallyAssumption,
      RunProofs!OthersAssumption, RunProofs!BoundAssumption, RunProofs!RequestsAssumption
<1> QED
  BY <1>1, SpecIsRun, PTL

LEMMA RunTypes == Spec => []Run!TypeOK
<1>1. RunProofs!TypeOK => Run!TypeOK
  BY DEF RunProofs!TypeOK, Run!TypeOK, RunProofs!Range, Run!Range, RunProofs!IsInjective,
         Run!IsInjective, RunProofs!Cardinality, Run!Cardinality
<1>2. RunProofs!Spec => []RunProofs!TypeOK
  BY RunProofs!TypeCorrect, RunAssumptions
  DEF RunProofs!InvocationsAssumption, RunProofs!InitiallyAssumption,
      RunProofs!OthersAssumption, RunProofs!BoundAssumption, RunProofs!RequestsAssumption
<1> QED
  BY <1>1, <1>2, SpecIsRun, PTL

LEMMA RunRestored ==
  ASSUME "ours" \notin OthersMay
  PROVE  Spec => []Run!RestoredIsThere
<1>1. RunProofs!RestoredIsThere => Run!RestoredIsThere
  BY DEF RunProofs!RestoredIsThere, Run!RestoredIsThere
<1>2. RunProofs!Spec => []RunProofs!RestoredIsThere
  BY RunProofs!RestoredStays, RunAssumptions
  DEF RunProofs!InvocationsAssumption, RunProofs!InitiallyAssumption,
      RunProofs!OthersAssumption, RunProofs!BoundAssumption, RunProofs!RequestsAssumption
<1> QED
  BY <1>1, <1>2, SpecIsRun, PTL
-----------------------------------------------------------------------------
(* What the screens and the result of RunRestore say.                      *)

Early == {"idle", "args", "listing", "planned"}

UiTypes ==
  /\ prog \in {"preflight", "running", "ended", "broken", "exited"}
  /\ exit \in {"none", "refused", "broken", "aborted", "midRestore", "failed", "nil"}
  /\ stage \in {"report", "restoring", "verifying", "done"}
  /\ quitting \in BOOLEAN /\ userAborted \in BOOLEAN /\ cancelled \in BOOLEAN
  /\ done \in BOOLEAN /\ inspecting \in BOOLEAN /\ sent \in BOOLEAN
  /\ autoConfirm \in BOOLEAN /\ terminated \in BOOLEAN
  /\ result \in {"zero", "ok", "failed"}

\* Why the program may end.
MayEnd == terminated \/ userAborted \/ stage = "done"

\* The fields of the model agree with each other and with what Restore did.
Screens ==
  /\ started = IF stage = "report" THEN 0 ELSE 1
  /\ prog = "preflight" => stage = "report" /\ exit = "none"
  /\ stage = "report" =>
       /\ pc[Me] \in Early \/ (pc[Me] = "done" /\ outcome[Me] \in RunProofs!Refusals)
       /\ prog \in {"running", "ended", "broken"} => pc[Me] = "planned"
  /\ userAborted => cancelled
  /\ stage \in {"verifying", "done"} <=> result # "zero"
  /\ inspecting => stage = "verifying"
  /\ done <=> result # "zero"
  /\ result = "ok" => pc[Me] = "done" /\ outcome[Me] = "restored"
  /\ quitting \/ prog = "ended" => MayEnd
  /\ exit # "none" => prog = "exited"
  /\ exit = "nil" => terminated \/ result = "ok"
  /\ exit = "aborted" => stage = "report"

LEMMA ScreensInit == Init => UiTypes /\ Screens
  BY DEF Init, Run!Init, UiTypes, Screens, Early, MayEnd

\* What the preflight leaves of the plan.
LEMMA PreflightPlans ==
  ASSUME RunProofs!Types, Preflight
  PROVE  /\ prog = "preflight" /\ UNCHANGED uiVars
         /\ pc'[Me] \in Early \/ (pc'[Me] = "done" /\ outcome'[Me] \in RunProofs!Refusals)
<1>1. DOMAIN pc = Invocations /\ DOMAIN outcome = Invocations
  BY DEF RunProofs!Types, RunProofs!Before
<1>2. ASSUME NEW to \in Early, Run!Go(Me, to) PROVE pc'[Me] \in Early
  BY <1>1, <1>2 DEF Run!Go
<1>3. ASSUME NEW o \in RunProofs!Refusals, NEW cs, Run!End(Me, o, cs)
      PROVE  pc'[Me] = "done" /\ outcome'[Me] \in RunProofs!Refusals
  BY <1>1, <1>3 DEF Run!End
<1>4. (\E to \in Early : Run!Go(Me, to))
        \/ (\E o \in RunProofs!Refusals : \E cs : Run!End(Me, o, cs))
  <2>1. CASE Run!Start(Me)
    BY <2>1, Zenon DEF Run!Start, Early
  <2>2. CASE Run!ReadBackup(Me)
    BY <2>2, Zenon DEF Run!ReadBackup, Early, RunProofs!Refusals
  <2>3. CASE Run!List(Me)
    BY <2>3, Zenon DEF Run!List, Early, RunProofs!Refusals
  <2> QED
    BY <2>1, <2>2, <2>3 DEF Preflight
<1> QED
  BY <1>2, <1>3, <1>4 DEF Preflight

\* The tools, the other invocations and the other clients do not move this one.
LEMMA AroundMoves ==
  ASSUME RunProofs!Types, Around
  PROVE  UNCHANGED uiVars /\ pc'[Me] = pc[Me] /\ outcome'[Me] = outcome[Me]
<1>1. DOMAIN pc = Invocations /\ DOMAIN outcome = Invocations
  BY DEF RunProofs!Types, RunProofs!Before
<1>2. ASSUME NEW q \in Invocations \ {Me}, NEW to, Run!Go(q, to)
      PROVE  pc'[Me] = pc[Me] /\ outcome'[Me] = outcome[Me]
  BY <1>1, <1>2 DEF Run!Go
<1>3. ASSUME NEW q \in Invocations \ {Me}, NEW o, NEW cs, Run!End(q, o, cs)
      PROVE  pc'[Me] = pc[Me] /\ outcome'[Me] = outcome[Me]
  BY <1>1, <1>3 DEF Run!End
<1>4. ASSUME NEW q \in Invocations \ {Me}, Run!Start(q) \/ Run!Command(q)
      PROVE  (\E to : Run!Go(q, to)) \/ (\E o, cs : Run!End(q, o, cs))
  <2>1. CASE Run!Start(q)
    BY <2>1 DEF Run!Start
  <2>2. CASE Run!ReadBackup(q) \/ Run!List(q)
    BY <2>2, Zenon DEF Run!ReadBackup, Run!List
  <2>3. CASE Run!Confirm(q) \/ Run!Validate(q) \/ Run!Create(q) \/ Run!CreateFails(q)
               \/ Run!Fork(q) \/ Run!Return(q)
    BY <2>3, Zenon DEF Run!Confirm, Run!Validate, Run!Create, Run!CreateFails, Run!Fork,
                       Run!Return
  <2> QED
    BY <1>4, <2>1, <2>2, <2>3 DEF Run!Command
<1>5. ASSUME NEW p, Run!Loader(p) PROVE UNCHANGED <<pc, outcome>>
  BY <1>5 DEF Run!Loader, Run!LoaderConnects, Run!LoaderWrites, Run!LoaderEnds
<1>6. ASSUME Run!Other PROVE UNCHANGED <<pc, outcome>>
  BY <1>6 DEF Run!Other, Run!OtherCreates, Run!OtherDrops, Run!OtherRenames
<1> QED
  BY <1>2, <1>3, <1>4, <1>5, <1>6 DEF Around

\* The goroutine of Restore runs before its result is handled.
LEMMA RestoreStepRuns ==
  ASSUME RestoreStep \/ ForkCancelled
  PROVE  UNCHANGED uiVars /\ pc[Me] \in {"restoring", "creating", "created", "loading"}
  BY DEF RestoreStep, ForkCancelled, Run!Validate, Run!CreateFails, Run!Return, Run!Create,
         Run!Fork

\* A step that leaves the model alone keeps Screens if it keeps the plan.
LEMMA UiStays ==
  ASSUME UiTypes, Screens, UNCHANGED uiVars,
         stage = "report" =>
           /\ pc'[Me] \in Early \/ (pc'[Me] = "done" /\ outcome'[Me] \in RunProofs!Refusals)
           /\ prog \in {"running", "ended", "broken"} => pc'[Me] = "planned",
         result = "ok" => pc'[Me] = "done" /\ outcome'[Me] = "restored"
  PROVE  UiTypes' /\ Screens'
<1>1. UiTypes'
  BY DEF UiTypes, uiVars, modelVars, outside
<1>2. Screens'
  BY DEF Screens, MayEnd, uiVars, modelVars, outside
<1> QED
  BY <1>1, <1>2

LEMMA ScreensStep ==
  RunProofs!Types /\ UiTypes /\ Screens /\ [Next]_vars => UiTypes' /\ Screens'
<1> SUFFICES ASSUME RunProofs!Types, UiTypes, Screens, [Next]_vars PROVE UiTypes' /\ Screens'
  OBVIOUS
<1>0. DOMAIN pc = Invocations /\ DOMAIN outcome = Invocations
  BY DEF RunProofs!Types, RunProofs!Before
<1>1. CASE Preflight
  <2>1. result # "ok" /\ prog = "preflight"
    BY <1>1 DEF Preflight, Screens, UiTypes
  <2> QED
    BY <1>1, <2>1, PreflightPlans, UiStays
<1>2. CASE RestoreStep \/ ForkCancelled
  <2>1. stage # "report" /\ result # "ok"
    BY <1>2, RestoreStepRuns DEF Screens, Early
  <2> QED
    BY <1>2, <2>1, RestoreStepRuns, UiStays
<1>3. CASE Around
  BY <1>3, AroundMoves, UiStays DEF Screens
<1>4. CASE UNCHANGED vars
  BY <1>4, UiStays DEF Screens, vars, runVars
<1>5. CASE Refused
  BY <1>5 DEF Refused, UiTypes, Screens, MayEnd, runVars, outside
<1>6. CASE Launch
  <2>1. CASE autoConfirm
    <3>1. pc'[Me] = "restoring"
      BY <1>0, <1>6, <2>1 DEF Launch, StartRestore, Run!Go
    <3> QED
      BY <1>6, <2>1, <3>1 DEF Launch, StartRestore, UiTypes, Screens, MayEnd, allButPc, outside
  <2>2. CASE ~autoConfirm
    BY <1>6, <2>2 DEF Launch, UiTypes, Screens, MayEnd, allButPc, outside
  <2> QED
    BY <2>1, <2>2
<1>7. CASE AnswerYes
  <2>1. pc'[Me] = "restoring"
    BY <1>0, <1>7 DEF AnswerYes, StartRestore, Run!Go
  <2> QED
    BY <1>7, <2>1 DEF AnswerYes, StartRestore, UiTypes, Screens, MayEnd, outside
<1>8. CASE Abort
  BY <1>8 DEF Abort, UiTypes, Screens, MayEnd, runVars, outside
<1>9. CASE SendCreate
  BY <1>9 DEF SendCreate, UiTypes, Screens, MayEnd, runVars, modelVars, outside
<1>10. CASE RestoreDoneMsg
  <2>1. stage = "restoring" /\ inspecting = FALSE
    BY <1>10 DEF RestoreDoneMsg, UiTypes, Screens
  <2>2. pc[Me] = "done" /\ UNCHANGED <<pc, outcome, prog, exit, userAborted, cancelled, started>>
    BY <1>10 DEF RestoreDoneMsg, runVars
  <2>3. UiTypes'
    BY <1>10 DEF RestoreDoneMsg, UiTypes, outside
  <2>4. CASE outcome[Me] = "restored"
    BY <1>10, <2>1, <2>2, <2>4 DEF RestoreDoneMsg, UiTypes, Screens, MayEnd, outside
  <2>5. CASE outcome[Me] # "restored"
    <3>1. /\ done' = TRUE /\ result' = "failed" /\ stage' = "done" /\ quitting' = TRUE
          /\ inspecting' = FALSE
      BY <1>10, <2>1, <2>5 DEF RestoreDoneMsg
    <3>2. prog = "running" /\ exit = "none" /\ started = 1 /\ (userAborted => cancelled)
      BY <1>10, <2>1 DEF RestoreDoneMsg, Screens
    <3> QED
      BY <2>2, <2>3, <3>1, <3>2 DEF Screens, MayEnd
  <2> QED
    BY <2>3, <2>4, <2>5
<1>11. CASE VerifyMsg
  BY <1>11 DEF VerifyMsg, UiTypes, Screens, MayEnd, runVars, outside
<1>12. CASE Terminate
  BY <1>12 DEF Terminate, UiTypes, Screens, MayEnd, runVars
<1>13. CASE QuitMsg
  BY <1>13 DEF QuitMsg, UiTypes, Screens, MayEnd, runVars, outside
<1>14. CASE RunRestoreReturns
  <2>1. \/ pc'[Me] = pc[Me] /\ outcome'[Me] = outcome[Me] /\ pc[Me] = "done"
        \/ pc[Me] = "planned" /\ pc'[Me] = "done" /\ outcome'[Me] = "declined"
        \/ pc[Me] \notin {"done", "planned"}
    BY <1>0, <1>14 DEF RunRestoreReturns, Run!End
  <2>2. /\ exit' \in {"broken", "aborted", "midRestore", "failed", "nil"}
        /\ exit' = "aborted" => stage = "report"
        /\ exit' = "nil" => prog = "ended" /\ ~userAborted /\ result # "failed"
    BY <1>14 DEF RunRestoreReturns, Outcome, OK
  <2>3. UiTypes'
    BY <1>14, <2>2 DEF RunRestoreReturns, UiTypes, outside
  <2>4. Screens'
    BY <1>14, <2>1, <2>2 DEF RunRestoreReturns, UiTypes, Screens, MayEnd, Early, outside,
                             RunProofs!Refusals
  <2> QED
    BY <2>3, <2>4
<1>15. CASE LoopBreaks
  BY <1>15 DEF LoopBreaks, UiTypes, Screens, MayEnd, runVars, modelVars, outside
<1> QED
  BY <1>1, <1>2, <1>3, <1>4, <1>5, <1>6, <1>7, <1>8, <1>9, <1>10, <1>11, <1>12, <1>13, <1>14,
     <1>15
  DEF Next, User, AnswerNo, CtrlC, Exited

\* The interactive restore takes no part in what the databases are made of, except
\* by a CREATE DATABASE that it has sent.
LEMMA Makings ==
  ASSUME RunProofs!Types, [Next]_vars
  PROVE  \/ maker' = maker
         \/ maker' = Append(maker, Me) /\ sent
         \/ \E who : who # Me /\ maker' = Append(maker, who)
<1>1. ASSUME NEW p, Run!Start(p) \/ Run!ReadBackup(p) \/ Run!List(p) \/ Run!Confirm(p)
                      \/ Run!Validate(p) \/ Run!CreateFails(p) \/ Run!Fork(p) \/ Run!Return(p)
                      \/ Run!Loader(p)
      PROVE  UNCHANGED maker
  BY <1>1 DEF Run!Start, Run!ReadBackup, Run!List, Run!Confirm, Run!Validate, Run!CreateFails,
              Run!Fork, Run!Return, Run!Loader, Run!LoaderConnects, Run!LoaderWrites,
              Run!LoaderEnds, Run!server
<1>2. ASSUME NEW p, Run!Create(p) PROVE maker' = Append(maker, p)
  BY <1>2 DEF Run!Create, Run!NewDatabase
<1>3. CASE Preflight
  BY <1>1, <1>3 DEF Preflight
<1>4. CASE RestoreStep
  BY <1>1, <1>2, <1>4 DEF RestoreStep
<1>5. CASE Around
  <2>1. ASSUME Run!Other PROVE maker' = maker \/ maker' = Append(maker, "other")
    BY <2>1 DEF Run!Other, Run!OtherCreates, Run!OtherDrops, Run!OtherRenames, Run!NewDatabase
  <2>2. "other" # Me
    BY RunAssumption
  <2>3. ASSUME NEW q \in Invocations \ {Me}, Run!Start(q) \/ Run!Command(q) \/ Run!Loader(q)
        PROVE  maker' = maker \/ maker' = Append(maker, q)
    BY <1>1, <1>2, <2>3 DEF Run!Command
  <2> QED
    BY <1>1, <1>5, <2>1, <2>2, <2>3 DEF Around
<1>6. CASE Launch \/ AnswerYes \/ ForkCancelled \/ RunRestoreReturns
  BY <1>6 DEF Launch, AnswerYes, ForkCancelled, RunRestoreReturns, allButPc
<1>7. CASE Refused \/ Abort \/ SendCreate \/ RestoreDoneMsg \/ VerifyMsg \/ Terminate
             \/ QuitMsg \/ LoopBreaks \/ UNCHANGED vars
  BY <1>7 DEF Refused, Abort, SendCreate, RestoreDoneMsg, VerifyMsg, Terminate, QuitMsg,
              LoopBreaks, runVars, vars
<1> QED
  BY <1>3, <1>4, <1>5, <1>6, <1>7 DEF Next, User, AnswerNo, CtrlC, Exited

LEMMA MineStays ==
  ASSUME RunProofs!Types, NEW who, who # Me, maker' = Append(maker, who)
  PROVE  Mine' = Mine
<1>1. /\ DOMAIN maker = 1 .. Len(maker) /\ DOMAIN maker' = 1 .. Len(maker) + 1
      /\ Len(maker) \in Nat /\ maker'[Len(maker) + 1] = who
      /\ \A o \in 1 .. Len(maker) : maker'[o] = maker[o]
  BY DEF RunProofs!Types
<1> QED
  BY <1>1 DEF Mine

LEMMA SentByCommand ==
  ASSUME [Next]_vars, UiTypes, Screens, userAborted PROVE sent' = sent
<1>1. CASE SendCreate
  BY <1>1 DEF SendCreate, Screens
<1>2. CASE Preflight \/ Refused \/ Launch \/ AnswerYes \/ Abort \/ RestoreStep \/ ForkCancelled
             \/ RestoreDoneMsg \/ VerifyMsg \/ Terminate \/ QuitMsg \/ LoopBreaks
             \/ RunRestoreReturns \/ Around \/ UNCHANGED vars
  BY <1>2 DEF Preflight, Refused, Launch, AnswerYes, Abort, RestoreStep, ForkCancelled,
              RestoreDoneMsg, VerifyMsg, Terminate, QuitMsg, LoopBreaks, RunRestoreReturns,
              Around, uiVars, vars
<1> QED
  BY <1>1, <1>2 DEF Next, User, AnswerNo, CtrlC, Exited

LEMMA Invariance == Spec => [](RunProofs!Types /\ RunProofs!Innocent /\ UiTypes /\ Screens)
<1>1. RunProofs!Types /\ UiTypes /\ Screens /\ [Next]_vars => (UiTypes /\ Screens)'
  BY ScreensStep
<1> QED
  BY <1>1, RunInvariants, ScreensInit, PTL DEF Spec

\* The variables keep their types, for any invocations beside the interactive one
\* and any other clients.
THEOREM TypeCorrect == Spec => []TypeOK
<1>1. UiTypes /\ Screens /\ Run!TypeOK => TypeOK
  BY DEF UiTypes, Screens, TypeOK
<1> QED
  BY <1>1, Invariance, RunTypes, PTL

\* Whoever sees "nothing was created", or is told ErrAborted, has a server that
\* this restore did not touch, whatever was pressed and in whichever order.
THEOREM AbortsTouchNothing == Spec => []AbortedTouchedNothing
<1>1. RunProofs!Types /\ RunProofs!Innocent /\ UiTypes /\ Screens => AbortedTouchedNothing
  <2> SUFFICES ASSUME RunProofs!Types, RunProofs!Innocent, UiTypes, Screens, stage = "report"
               PROVE  Mine = {}
    BY DEF AbortedTouchedNothing, Screen, Screens, UiTypes, OK
  <2>1. pc[Me] \in RunProofs!Before \/ outcome[Me] \in RunProofs!Refusals
    BY DEF Screens, Early, RunProofs!Before
  <2>2. RunProofs!Untouched(Me)
    BY <2>1 DEF RunProofs!Innocent
  <2> QED
    BY <2>2 DEF RunProofs!Untouched, Mine
<1> QED
  BY <1>1, Invariance, PTL

\* After a no or ctrl+c no CREATE DATABASE is sent any more, and only one that was
\* sent before can still make a database.
THEOREM NoIsFinal == Spec => DeclineIsFinal
<1>1. RunProofs!Types /\ UiTypes /\ Screens /\ [Next]_vars =>
        [userAborted => sent' = sent /\ (Mine' = Mine \/ sent)]_vars
  <2> SUFFICES ASSUME RunProofs!Types, UiTypes, Screens, [Next]_vars, userAborted
               PROVE  sent' = sent /\ (Mine' = Mine \/ sent)
    OBVIOUS
  <2>1. maker' = maker => Mine' = Mine
    BY DEF Mine
  <2> QED
    BY <2>1, Makings, MineStays, SentByCommand
<1> QED
  BY <1>1, Invariance, PTL DEF Spec, DeclineIsFinal

\* As long as the other clients leave the databases of invocations alone, a nil that
\* no SIGTERM caused, and the summary "restored", are true: the database is there, under its
\* name, made and loaded by this run alone.
THEOREM NilIsTrue ==
  ASSUME "ours" \notin OthersMay
  PROVE  Spec => []NilMeansRestored
<1>1. Spec => []Run!RestoredIsThere
  BY RunRestored
<1>2. RunProofs!Types /\ UiTypes /\ Screens /\ Run!RestoredIsThere => NilMeansRestored
  <2> SUFFICES ASSUME RunProofs!Types, UiTypes, Screens, Run!RestoredIsThere,
                      (exit = "nil" /\ ~terminated) \/ Screen = "restored"
               PROVE  /\ name[Me] \in DOMAIN oid
                      /\ oid[name[Me]] \in Mine
                      /\ {w \in written : w[2] = oid[name[Me]]} = {<<Me, oid[name[Me]]>>}
    BY DEF NilMeansRestored
  <2>1. result = "ok"
    BY DEF Screen, Screens, UiTypes, OK
  <2>2. outcome[Me] = "restored"
    BY <2>1 DEF Screens
  <2>3. /\ name[Me] \in DOMAIN oid
        /\ maker[oid[name[Me]]] = Me
        /\ {w \in written : w[2] = oid[name[Me]]} = {<<Me, oid[name[Me]]>>}
    BY <2>2 DEF Run!RestoredIsThere
  <2>4. oid[name[Me]] \in DOMAIN maker
    BY <2>3 DEF RunProofs!Types
  <2> QED
    BY <2>3, <2>4 DEF Mine
<1> QED
  BY <1>1, <1>2, Invariance, PTL
-----------------------------------------------------------------------------
(* What the loop waits for.                                                *)

\* Each stage has what leads out of it under way; a quit, once there is a reason
\* for it, stays until the loop ends.
Coming ==
  /\ prog = "preflight" => ~userAborted /\ ~terminated
  /\ prog = "running" => (userAborted \/ terminated \/ stage = "done" => quitting)
  /\ stage = "verifying" => inspecting
  /\ stage = "restoring" => pc[Me] \notin Early

LEMMA ComingInit == Init => Coming
  BY DEF Init, Coming

\* Steps that leave the model alone.
LEMMA ComingStays ==
  ASSUME Coming, UNCHANGED uiVars, stage = "restoring" => pc'[Me] \notin Early
  PROVE  Coming'
  BY DEF Coming, uiVars, modelVars, outside

LEMMA RestoreStepLeads ==
  ASSUME RunProofs!Types, RestoreStep \/ ForkCancelled PROVE pc'[Me] \notin Early
<1>1. DOMAIN pc = Invocations
  BY DEF RunProofs!Types
<1>2. (\E to \in {"creating", "created", "loading"} : Run!Go(Me, to))
        \/ (\E o, cs : Run!End(Me, o, cs))
  BY Zenon DEF RestoreStep, ForkCancelled, Run!Validate, Run!CreateFails, Run!Return, Run!Create,
               Run!Fork
<1> QED
  BY <1>1, <1>2 DEF Run!Go, Run!End, Early

LEMMA ComingStep ==
  RunProofs!Types /\ UiTypes /\ Screens /\ Coming /\ [Next]_vars => Coming'
<1> SUFFICES ASSUME RunProofs!Types, UiTypes, Screens, Coming, [Next]_vars PROVE Coming'
  OBVIOUS
<1>0. DOMAIN pc = Invocations
  BY DEF RunProofs!Types
<1>1. CASE Preflight
  <2>1. stage = "report" /\ UNCHANGED uiVars
    BY <1>1 DEF Preflight, Screens
  <2> QED
    BY <2>1, ComingStays
<1>2. CASE RestoreStep \/ ForkCancelled
  BY <1>2, RestoreStepRuns, RestoreStepLeads, ComingStays
<1>3. CASE Around
  BY <1>3, AroundMoves, ComingStays DEF Coming
<1>4. CASE UNCHANGED vars
  BY <1>4, ComingStays DEF Coming, vars, runVars
<1>5. CASE Refused
  BY <1>5 DEF Refused, Coming, Screens, runVars, outside
<1>6. CASE Launch
  <2>1. CASE autoConfirm
    <3>1. pc'[Me] = "restoring"
      BY <1>0, <1>6, <2>1 DEF Launch, StartRestore, Run!Go
    <3> QED
      BY <1>6, <2>1, <3>1 DEF Launch, StartRestore, Coming, Early, outside
  <2>2. CASE ~autoConfirm
    BY <1>6, <2>2 DEF Launch, Coming, Screens, outside
  <2> QED
    BY <2>1, <2>2
<1>7. CASE AnswerYes
  <2>1. pc'[Me] = "restoring"
    BY <1>0, <1>7 DEF AnswerYes, StartRestore, Run!Go
  <2> QED
    BY <1>7, <2>1 DEF AnswerYes, StartRestore, Coming, Early, outside
<1>8. CASE Abort \/ Terminate
  BY <1>8 DEF Abort, Terminate, Coming, runVars, outside
<1>9. CASE SendCreate
  BY <1>9 DEF SendCreate, Coming, runVars, modelVars, outside
<1>10. CASE RestoreDoneMsg
  BY <1>10 DEF RestoreDoneMsg, Coming, runVars, outside
<1>11. CASE VerifyMsg
  BY <1>11 DEF VerifyMsg, Coming, runVars, outside
<1>12. CASE QuitMsg \/ LoopBreaks
  BY <1>12 DEF QuitMsg, LoopBreaks, Coming, runVars, modelVars, outside
<1>13. CASE RunRestoreReturns
  <2>1. pc[Me] \notin Early => pc'[Me] \notin Early
    BY <1>0, <1>13 DEF RunRestoreReturns, Run!End, Early
  <2>2. prog' = "exited" /\ UNCHANGED <<stage, inspecting>>
    BY <1>13 DEF RunRestoreReturns
  <2> QED
    BY <2>1, <2>2 DEF Coming
<1> QED
  BY <1>1, <1>2, <1>3, <1>4, <1>5, <1>6, <1>7, <1>8, <1>9, <1>10, <1>11, <1>12, <1>13
  DEF Next, User, AnswerNo, CtrlC, Exited

\* The program never waits for a message that nobody will send, whatever the other
\* invocations and clients do: a quit, the inspection, or Restore itself, which
\* waits only for a tool that was started.
THEOREM NeverWaitsInVain == Spec => []SomethingIsComing
<1>1. RunProofs!Types /\ UiTypes /\ Screens /\ Coming /\ Run!TypeOK => SomethingIsComing
  <2> SUFFICES ASSUME RunProofs!Types, UiTypes, Screens, Coming, Run!TypeOK, prog = "running"
               PROVE  SomethingIsComing
    BY DEF SomethingIsComing
  <2>1. CASE stage # "restoring"
    BY <2>1 DEF SomethingIsComing, Coming, UiTypes
  <2>2. CASE stage = "restoring"
    <3>1. ~done
      BY <2>2 DEF Screens
    <3>2. pc[Me] \in {"restoring", "creating", "created", "loading", "done"}
      BY <2>2 DEF Coming, Early, RunProofs!Types, RunProofs!Before
    <3>3. pc[Me] = "loading" => loader[Me] # "none"
      BY DEF Run!TypeOK
    <3> QED
      BY <3>1, <3>2, <3>3 DEF SomethingIsComing, Coming
  <2> QED
    BY <2>1, <2>2
<1>2. RunProofs!Types /\ UiTypes /\ Screens /\ Coming /\ [Next]_vars => Coming'
  BY ComingStep
<1> QED
  BY <1>1, <1>2, ComingInit, Invariance, RunTypes, PTL DEF Spec
=============================================================================

-------------------------- MODULE BackupTuiProofs --------------------------
(***************************************************************************)
(* Proofs about the interactive backup.  The event loop adds no step that  *)
(* core.BackupAllWithProgress could not take, so what BackupBatchProofs    *)
(* shows holds of the batch inside; from it follow what Run may return,    *)
(* what the loop counts, when the batch is called and what the screens     *)
(* say.                                                                    *)
(***************************************************************************)
EXTENDS BackupTui, FiniteSetTheorems, TLAPS

\* The steps of the loop that leave the batch alone, or only cancel it.
LEMMA LoopSteps ==
  ASSUME PingMsg \/ ListFails \/ (\E names : ListMsg(names))
           \/ (\E i \in Target : InspectMsg(i) \/ ProgressMsg(i))
           \/ AnswerYes \/ Terminate \/ QuitMsg \/ LoopBreaks
  PROVE  UNCHANGED batchVars
  BY DEF PingMsg, ListFails, ListMsg, InspectMsg, ProgressMsg, AnswerYes, Terminate, QuitMsg,
         LoopBreaks

LEMMA CancellingSteps ==
  ASSUME CtrlC \/ AnswerNo \/ RunReturns
  PROVE  /\ cancelled' = TRUE
         /\ UNCHANGED <<main, targets, pc, sem, wg, results, reported, dumped>>
  BY DEF CtrlC, AnswerNo, Abort, RunReturns

USE DEF Target, Batch!Target

LEMMA StepsAreBatch == cancelled \in BOOLEAN /\ [Next]_vars => [Batch!Next]_(Batch!vars)
<1> SUFFICES ASSUME cancelled \in BOOLEAN, [Next]_vars
             PROVE  Batch!Next \/ UNCHANGED batchVars
  BY DEF Batch!vars, batchVars
<1>1. CASE BatchCmd
  <2>1. Batch!Invoke(Found) /\ Found \in SUBSET Target
    BY <1>1 DEF BatchCmd, Found
  <2> QED
    BY <2>1 DEF Batch!Next
<1>2. ASSUME NEW i \in Target, BackupDoneMsg(i) \/ BatchStep(i) PROVE Batch!Next
  BY <1>2 DEF BackupDoneMsg, BatchStep, Batch!Next, Batch!Goroutine
<1>3. CASE BatchReturns
  BY <1>3 DEF BatchReturns, Batch!Next
<1>4. CASE CtrlC \/ AnswerNo \/ RunReturns
  <2>1. CASE cancelled
    BY <1>4, <2>1, CancellingSteps DEF batchVars
  <2>2. CASE ~cancelled
    BY <1>4, <2>2, CancellingSteps DEF Batch!Cancel, Batch!Next
  <2> QED
    BY <2>1, <2>2
<1>5. CASE UNCHANGED vars
  BY <1>5 DEF vars
<1> QED
  BY <1>1, <1>2, <1>3, <1>4, <1>5, LoopSteps DEF Next, User, Exited

\* Whoever aborted has cancelled the batch.
Cancelled == cancelled \in BOOLEAN /\ (userAborted => cancelled)

LEMMA CancelledInit == Init => Cancelled
  BY DEF Init, Batch!Init, Cancelled

LEMMA CancelledStep == Cancelled /\ [Next]_vars => Cancelled'
<1> SUFFICES ASSUME Cancelled, [Next]_vars PROVE Cancelled'
  OBVIOUS
<1>1. CASE CtrlC \/ AnswerNo \/ RunReturns
  BY <1>1, CancellingSteps DEF Cancelled
<1>2. ASSUME UNCHANGED <<cancelled, userAborted>> PROVE Cancelled'
  BY <1>2 DEF Cancelled
<1>3. ASSUME PingMsg \/ ListFails \/ (\E names : ListMsg(names))
               \/ (\E i \in Target : InspectMsg(i) \/ ProgressMsg(i))
               \/ AnswerYes \/ Terminate \/ QuitMsg \/ LoopBreaks
      PROVE  UNCHANGED <<cancelled, userAborted>>
  BY <1>3 DEF PingMsg, ListFails, ListMsg, InspectMsg, ProgressMsg, AnswerYes, Terminate,
              QuitMsg, LoopBreaks, batchVars
<1>4. ASSUME NEW i \in Target, BackupDoneMsg(i) \/ BatchStep(i)
      PROVE  UNCHANGED <<cancelled, userAborted>>
  BY <1>4 DEF BackupDoneMsg, BatchStep, uiVars, Batch!Spawn, Batch!AcquireSlot,
              Batch!SeeCancel, Batch!DumpStarts, Batch!BackupReturns, Batch!OnResult,
              Batch!ReleaseSlot, Batch!GoroutineExits
<1>5. ASSUME BatchCmd \/ BatchReturns \/ UNCHANGED vars
      PROVE  UNCHANGED <<cancelled, userAborted>>
  BY <1>5 DEF BatchCmd, BatchReturns, Batch!Invoke, Batch!WaitReturns, uiVars, vars, batchVars
<1> QED
  BY <1>1, <1>2, <1>3, <1>4, <1>5 DEF Next, User, Exited

\* The only step that starts a dump.
LEMMA DumpedSteps == [Next]_vars => UNCHANGED dumped \/ ~cancelled
<1> SUFFICES ASSUME [Next]_vars, cancelled PROVE UNCHANGED dumped
  OBVIOUS
<1>1. ASSUME NEW i \in Target, BackupDoneMsg(i) \/ BatchStep(i) PROVE UNCHANGED dumped
  BY <1>1 DEF BackupDoneMsg, BatchStep, Batch!Spawn, Batch!AcquireSlot, Batch!SeeCancel,
              Batch!DumpStarts, Batch!BackupReturns, Batch!OnResult, Batch!ReleaseSlot,
              Batch!GoroutineExits
<1>2. ASSUME BatchCmd \/ BatchReturns \/ UNCHANGED vars PROVE UNCHANGED dumped
  BY <1>2 DEF BatchCmd, BatchReturns, Batch!Invoke, Batch!WaitReturns, vars, batchVars
<1>3. ASSUME UNCHANGED batchVars PROVE UNCHANGED dumped
  BY <1>3 DEF batchVars
<1> QED
  BY <1>1, <1>2, <1>3, LoopSteps, CancellingSteps DEF Next, User, Exited
-----------------------------------------------------------------------------
LEMMA AbortCancels == Spec => []Cancelled
  BY CancelledInit, CancelledStep, PTL DEF Spec

\* The batch inside the interactive backup takes only steps of BackupBatch,
\* whatever messages, keys and signals the loop handles.
THEOREM BatchRefinement == Spec => Batch!Spec
<1>1. Init => Batch!Init
  BY DEF Init
<1>2. Cancelled => cancelled \in BOOLEAN
  BY DEF Cancelled
<1> QED
  BY <1>1, <1>2, AbortCancels, StepsAreBatch, PTL DEF Spec, Batch!Spec

\* Once the user has said no, or pressed ctrl+c, no dump is started any more, even
\* when a "yes" is handled before the program has ended, or backups wait for a slot.
THEOREM DeclinedIsFinal == Spec => DeclineIsFinal
<1>1. Cancelled /\ [Next]_vars => [userAborted => dumped' = dumped]_vars
  BY DumpedSteps DEF Cancelled
<1> QED
  BY <1>1, AbortCancels, PTL DEF Spec, DeclineIsFinal
-----------------------------------------------------------------------------
(* What BackupBatchProofs knows of the batch, for the one inside.          *)

BatchProofs == INSTANCE BackupBatchProofs WITH HasCallback <- TRUE

LEMMA BatchAssumptions ==
  /\ BatchProofs!NAssumption /\ BatchProofs!ConcurrencyAssumption
  /\ BatchProofs!CallbackAssumption /\ BatchProofs!DBNameAssumption
  BY BatchAssumption
  DEF BatchProofs!NAssumption, BatchProofs!ConcurrencyAssumption,
      BatchProofs!CallbackAssumption, BatchProofs!DBNameAssumption, BatchProofs!Target

\* BackupBatchProofs is about the same specification.
LEMMA SameBatch ==
  /\ Batch!Init => BatchProofs!Init
  /\ [Batch!Next]_(Batch!vars) => [BatchProofs!Next]_(BatchProofs!vars)
<1> USE DEF Batch!Init, BatchProofs!Init, Batch!Next, BatchProofs!Next, Batch!vars,
        BatchProofs!vars, Batch!Target, BatchProofs!Target, Batch!Unset, BatchProofs!Unset,
        Batch!OK, BatchProofs!OK, Batch!Errors, BatchProofs!Errors, Batch!Slots,
        BatchProofs!Slots, Batch!Normalised, BatchProofs!Normalised, Batch!Invoke,
        BatchProofs!Invoke, Batch!Spawn, BatchProofs!Spawn, Batch!AcquireSlot,
        BatchProofs!AcquireSlot, Batch!SeeCancel, BatchProofs!SeeCancel, Batch!DumpStarts,
        BatchProofs!DumpStarts, Batch!BackupReturns, BatchProofs!BackupReturns,
        Batch!OnResult, BatchProofs!OnResult, Batch!ReleaseSlot, BatchProofs!ReleaseSlot,
        Batch!GoroutineExits, BatchProofs!GoroutineExits, Batch!WaitReturns,
        BatchProofs!WaitReturns, Batch!Cancel, BatchProofs!Cancel, Batch!Goroutine,
        BatchProofs!Goroutine, Batch!Finished, BatchProofs!Finished, Batch!PC,
        BatchProofs!PC, Batch!Result, BatchProofs!Result
<1>1. Batch!Init => BatchProofs!Init
  OBVIOUS
<1>2. Batch!Next => BatchProofs!Next
  OBVIOUS
<1>3. Batch!vars = BatchProofs!vars
  OBVIOUS
<1> QED
  BY <1>1, <1>2, <1>3

LEMMA SpecIsBatch == Spec => BatchProofs!Spec
<1>1. Batch!Init => BatchProofs!Init
  BY SameBatch
<1>2. [Batch!Next]_(Batch!vars) => [BatchProofs!Next]_(BatchProofs!vars)
  BY SameBatch
<1> QED
  BY <1>1, <1>2, BatchRefinement, PTL DEF Batch!Spec, BatchProofs!Spec

\* Where the goroutines are, and what they have stored and told by then.
BatchFacts ==
  /\ targets \subseteq Target
  /\ pc \in [Target -> Batch!PC]
  /\ results \in [Target -> Batch!Result]
  /\ reported \in [Target -> 0 .. 1]
  /\ \A i \in Target :
       /\ pc[i] # "unborn" => i \in targets /\ main # "idle"
       /\ reported[i] = IF pc[i] \in {"release", "exit", "done"} THEN 1 ELSE 0
       /\ pc[i] \in {"report", "skipReport", "release", "exit", "done"} =>
            (Batch!OK(results[i]) => i \in dumped)
       /\ pc[i] = "dump" => i \in dumped

LEMMA BatchInvariants == Spec => [](BatchFacts /\ Batch!TypeOK)
<1>1. BatchProofs!Spec => []BatchProofs!IInv
  BY BatchProofs!Invariance, BatchAssumptions
  DEF BatchProofs!NAssumption, BatchProofs!ConcurrencyAssumption,
      BatchProofs!CallbackAssumption, BatchProofs!DBNameAssumption
<1>2. BatchProofs!Spec => []BatchProofs!TypeOK
  BY BatchProofs!TypeCorrect, BatchAssumptions
  DEF BatchProofs!NAssumption, BatchProofs!ConcurrencyAssumption,
      BatchProofs!CallbackAssumption, BatchProofs!DBNameAssumption
<1>3. BatchProofs!TypeOK => Batch!TypeOK
  BY DEF BatchProofs!TypeOK, Batch!TypeOK, BatchProofs!Slots, Batch!Slots, BatchProofs!PC, Batch!PC,
         BatchProofs!Result, Batch!Result, BatchProofs!Errors, Batch!Errors, BatchProofs!Target
<1>4. BatchProofs!IInv => BatchFacts
  <2> SUFFICES ASSUME BatchProofs!IInv PROVE BatchFacts
    OBVIOUS
  <2> USE DEF BatchProofs!Target
  <2>1. /\ targets \subseteq Target
        /\ pc \in [Target -> Batch!PC]
        /\ results \in [Target -> Batch!Result]
        /\ reported \in [Target -> 0 .. 1]
    BY DEF BatchProofs!IInv, BatchProofs!Types, BatchProofs!PC, Batch!PC, BatchProofs!Result,
           Batch!Result, BatchProofs!Errors, Batch!Errors
  <2>2. ASSUME NEW i \in Target
        PROVE  /\ pc[i] # "unborn" => i \in targets /\ main # "idle"
               /\ reported[i] = IF pc[i] \in {"release", "exit", "done"} THEN 1 ELSE 0
               /\ pc[i] \in {"report", "skipReport", "release", "exit", "done"} =>
                    (Batch!OK(results[i]) => i \in dumped)
               /\ pc[i] = "dump" => i \in dumped
    BY DEF BatchProofs!IInv, BatchProofs!Places, BatchProofs!Work, BatchProofs!Stored,
           BatchProofs!Told, BatchProofs!Undecided, BatchProofs!OK, Batch!OK
  <2> QED
    BY <2>1, <2>2 DEF BatchFacts
<1> QED
  BY <1>1, <1>2, <1>3, <1>4, SpecIsBatch, PTL
-----------------------------------------------------------------------------
(* The messages and the counters of the loop.                              *)

DbState == [found : BOOLEAN, inspecting : BOOLEAN, backing : BOOLEAN, current : BOOLEAN,
            done : BOOLEAN, result : Batch!Result]

UiTypes ==
  /\ prog \in {"running", "ended", "broken", "exited"}
  /\ exit \in {"none", "broken", "fatal", "aborted", "failed", "nil"}
  /\ cmds \subseteq {Ping, List, Quit, RunBatch} \cup {Inspect(i) : i \in Target}
  /\ stage \in {"pinging", "checking", "inspecting", "report", "backingUp", "done"}
  /\ db \in [Target -> DbState]
  /\ fatal \in BOOLEAN /\ userAborted \in BOOLEAN /\ said \subseteq {"yes", "no"}
  /\ autoConfirm \in BOOLEAN /\ terminated \in BOOLEAN
  /\ inspectPending \in Int /\ backupPending \in Int /\ attempted \in Int /\ failed \in Int

Asked == {i \in Target : Inspect(i) \in cmds}
Told == {i \in Target : reported[i] = 1}
Bad == {i \in Told : ~Batch!OK(results[i])}

\* startBackups was called.
Started == stage \in {"backingUp", "done"}
USE DEF Started

\* Each command is outstanding at its own stage only.
Messages ==
  /\ Ping \in cmds => stage = "pinging"
  /\ List \in cmds => stage = "checking"
  /\ Asked # {} => stage = "inspecting"
  /\ inspectPending = Cardinality(Asked)
  /\ RunBatch \in cmds => stage = "backingUp" /\ main = "idle"
  /\ main # "idle" => stage \in {"backingUp", "done"} /\ targets = Found
  /\ stage = "done" => Found = {} \/ main # "idle"
  /\ Quit \in cmds \/ prog = "ended" => terminated \/ fatal \/ userAborted \/ stage = "done"

\* Every database that was found is pending or counted.
Counting ==
  /\ ~Started => backupPending = 0 /\ attempted = 0 /\ failed = 0
  /\ Started => backupPending + attempted = Cardinality(Found)
  /\ stage = "backingUp" => backupPending > 0
  /\ stage = "done" => backupPending = 0 /\ Found \subseteq Told
  /\ failed >= 0 /\ failed <= attempted /\ attempted <= Cardinality(Found)
  /\ Started /\ (prog = "running" \/ stage = "done") =>
       attempted = Cardinality(Told) /\ failed = Cardinality(Bad)

\* What Run returned.
Returned ==
  /\ exit # "none" => prog = "exited"
  /\ exit = "nil" => ~fatal /\ ~userAborted /\ failed = 0 /\ (terminated \/ stage = "done")
  /\ exit = "failed" => ~fatal /\ ~userAborted /\ failed > 0

Loop == UiTypes /\ Messages /\ Counting /\ Returned

LEMMA TargetsFinite ==
  /\ IsFiniteSet(Target) /\ Cardinality(Target) = N /\ N \in Nat
  /\ \A S \in SUBSET Target : IsFiniteSet(S) /\ Cardinality(S) \in 0 .. N
<1>0. N \in Nat
  BY BatchAssumption
<1>1. IsFiniteSet(1 .. N) /\ Cardinality(1 .. N) = N
  BY <1>0, FS_Interval
<1>2. ASSUME NEW S \in SUBSET (1 .. N) PROVE IsFiniteSet(S) /\ Cardinality(S) \in 0 .. N
  <2>1. IsFiniteSet(S) /\ Cardinality(S) <= N
    BY <1>1, FS_Subset
  <2>2. Cardinality(S) \in Nat
    BY <2>1, FS_CardinalityType
  <2> QED
    BY <1>0, <2>1, <2>2
<1> QED
  BY <1>0, <1>1, <1>2

LEMMA Cmds ==
  /\ Ping # List /\ Ping # Quit /\ Ping # RunBatch /\ List # Quit /\ List # RunBatch
  /\ Quit # RunBatch
  /\ \A i : Inspect(i) \notin {Ping, List, Quit, RunBatch}
  /\ \A i, j : Inspect(i) = Inspect(j) => i = j
  BY DEF Ping, List, Quit, RunBatch, Inspect

\* The counters stay between 0 and N.
LEMMA Bounds ==
  ASSUME UiTypes, Messages, Counting
  PROVE  {inspectPending, backupPending, attempted, failed} \subseteq 0 .. N
<1>1. Cardinality(Found) \in 0 .. N /\ Cardinality(Asked) \in 0 .. N
  BY TargetsFinite DEF Found, Asked
<1>2. inspectPending \in 0 .. N
  BY <1>1 DEF Messages
<1>3. attempted \in 0 .. N /\ failed \in 0 .. N
  BY <1>1, TargetsFinite DEF Counting, UiTypes
<1>4. backupPending \in 0 .. N
  BY <1>1, <1>3, TargetsFinite DEF Counting, UiTypes
<1> QED
  BY <1>2, <1>3, <1>4

LEMMA LoopInit == Init => Loop
<1> SUFFICES ASSUME Init PROVE Loop
  OBVIOUS
<1>1. UiTypes
  <2>1. Batch!Unset \in Batch!Result
    BY DEF Batch!Unset, Batch!Result, Batch!Errors
  <2>2. db \in [Target -> DbState]
    BY <2>1 DEF Init, DbState
  <2>3. cmds \subseteq {Ping, List, Quit, RunBatch} \cup {Inspect(i) : i \in Target}
    BY DEF Init
  <2>4. /\ fatal = FALSE /\ userAborted = FALSE /\ said = {}
        /\ autoConfirm \in BOOLEAN /\ terminated = FALSE
    BY DEF Init
  <2>5. /\ prog = "running" /\ exit = "none" /\ stage = "pinging"
        /\ inspectPending = 0 /\ backupPending = 0 /\ attempted = 0 /\ failed = 0
    BY DEF Init
  <2>6. /\ inspectPending \in Int /\ backupPending \in Int /\ attempted \in Int
        /\ failed \in Int
    BY <2>5
  <2> QED
    BY <2>2, <2>3, <2>4, <2>5, <2>6, Zenon DEF UiTypes
<1>2. Found = {} /\ Asked = {}
  BY Cmds DEF Init, Found, Asked
<1>3. Cardinality({}) = 0
  BY FS_EmptySet
<1>4. Messages
  BY <1>2, <1>3, Cmds DEF Init, Messages, Batch!Init
<1>5. Counting /\ Returned
  BY <1>2, <1>3 DEF Init, Counting, Returned
<1> QED
  BY <1>1, <1>4, <1>5 DEF Loop

\* Steps that leave the databases, the counters and the batch alone.
LEMMA CmdSteps ==
  ASSUME Loop, UiTypes', UNCHANGED <<main, targets, results, reported, db, inspectPending, backupPending,
                           attempted, failed, said>>,
         Asked' = Asked,
         Messages', prog' = "running" => prog = "running",
         stage' = stage \/ ~(Started \/ Started'), Returned'
  PROVE  Loop'
<1>1. Found' = Found /\ Told' = Told /\ Bad' = Bad
  BY DEF Found, Told, Bad
<1>2. Counting'
  BY <1>1 DEF Loop, Counting, Messages, UiTypes
<1> QED
  BY <1>2 DEF Loop

LEMMA PingLoop == ASSUME Loop, PingMsg PROVE Loop'
<1>1. stage = "pinging" /\ ~Started /\ List \notin cmds /\ Asked = {} /\ RunBatch \notin cmds
      /\ main = "idle"
  BY DEF PingMsg, Handle, Loop, Messages
<1>2. Asked' = Asked
  BY Cmds DEF PingMsg, Asked
<1>3. UiTypes'
  BY DEF PingMsg, Loop, UiTypes, outside
<1>4. Messages'
  <2>1. Found' = Found
    BY DEF PingMsg, Found
  <2> QED
    BY <1>1, <1>2, <2>1, Cmds DEF PingMsg, Loop, Messages, batchVars, outside
<1>5. Returned'
  BY DEF PingMsg, Loop, Returned, Handle, outside
<1> QED
  BY <1>1, <1>2, <1>3, <1>4, <1>5, CmdSteps DEF PingMsg, batchVars

LEMMA ListFailsLoop == ASSUME Loop, ListFails PROVE Loop'
<1>2. Asked' = Asked
  BY Cmds DEF ListFails, Asked
<1>3. UiTypes'
  BY DEF ListFails, Loop, UiTypes, outside
<1>4. Messages'
  <2>1. Found' = Found
    BY DEF ListFails, Found
  <2> QED
    BY <1>2, <2>1, Cmds DEF ListFails, Loop, Messages, batchVars, outside
<1>5. Returned'
  BY DEF ListFails, Loop, Returned, Handle, outside
<1> QED
  BY <1>2, <1>3, <1>4, <1>5, CmdSteps DEF ListFails, batchVars

LEMMA AbortLoop == ASSUME Loop, prog = "running", Abort PROVE Loop'
<1>2. Asked' = Asked
  BY Cmds DEF Abort, Asked
<1>3. UiTypes'
  BY DEF Abort, Loop, UiTypes, outside
<1>4. Messages'
  <2>1. Found' = Found
    BY DEF Abort, Found
  <2> QED
    BY <1>2, <2>1, Cmds DEF Abort, Loop, Messages, outside
<1>5. Returned'
  BY DEF Abort, Loop, Returned, outside
<1>6. /\ UNCHANGED <<main, targets, results, reported, db, inspectPending, backupPending,
                    attempted, failed, stage, prog>>
  BY DEF Abort
<1>7. Found' = Found /\ Told' = Told /\ Bad' = Bad
  BY <1>6 DEF Found, Told, Bad
<1>8. Counting'
  BY <1>6, <1>7 DEF Loop, Counting
<1> QED
  BY <1>3, <1>4, <1>5, <1>8 DEF Loop

LEMMA TerminateLoop == ASSUME Loop, Terminate PROVE Loop'
<1>2. Asked' = Asked
  BY Cmds DEF Terminate, Asked
<1>3. UiTypes'
  BY DEF Terminate, Loop, UiTypes
<1>4. Messages'
  <2>1. Found' = Found
    BY DEF Terminate, Found
  <2> QED
    BY <1>2, <2>1, Cmds DEF Terminate, Loop, Messages, batchVars
<1>5. Returned'
  BY DEF Terminate, Loop, Returned
<1> QED
  BY <1>2, <1>3, <1>4, <1>5, CmdSteps DEF Terminate, batchVars

LEMMA QuitLoop == ASSUME Loop, QuitMsg \/ LoopBreaks \/ RunReturns PROVE Loop'
<1>1. UNCHANGED <<main, targets, results, reported, db, inspectPending, backupPending,
                  attempted, failed, said, cmds, stage, fatal, userAborted, outside>>
  BY DEF QuitMsg, LoopBreaks, RunReturns, batchVars
<1>2. Asked' = Asked
  BY <1>1 DEF Asked
<1>3. UiTypes'
  BY <1>1 DEF QuitMsg, LoopBreaks, RunReturns, Loop, UiTypes, outside
<1>4. Messages'
  <2>1. Found' = Found
    BY <1>1 DEF Found
  <2>2. Quit \in cmds' \/ prog' = "ended" => Quit \in cmds \/ prog = "ended"
    BY <1>1 DEF QuitMsg, LoopBreaks, RunReturns, Handle
  <2> QED
    BY <1>1, <1>2, <2>1, <2>2 DEF Loop, Messages, outside
<1>5. Returned'
  <2>1. CASE QuitMsg
    BY <1>1, <2>1 DEF QuitMsg, Handle, Loop, Returned
  <2>2. CASE LoopBreaks
    BY <1>1, <2>2 DEF LoopBreaks, Loop, Returned
  <2>3. CASE RunReturns
    <3>1. prog = "ended" => terminated \/ fatal \/ userAborted \/ stage = "done"
      BY <2>3 DEF RunReturns, Loop, Messages
    <3>2. failed > 0 \/ failed = 0
      BY DEF Loop, Counting, UiTypes
    <3> QED
      BY <1>1, <2>3, <3>1, <3>2 DEF RunReturns, Loop, Returned, outside
  <2> QED
    BY <2>1, <2>2, <2>3
<1>6. prog' # "running"
  BY DEF QuitMsg, LoopBreaks, RunReturns
<1> QED
  BY <1>1, <1>2, <1>3, <1>4, <1>5, <1>6, CmdSteps

\* Nothing is told before the batch is called, and only of databases found.
LEMMA ToldAreFound ==
  ASSUME BatchFacts, Loop PROVE Told \subseteq Found /\ (main = "idle" => Told = {})
  BY DEF BatchFacts, Loop, Messages, Told

LEMMA ListMsgLoop == ASSUME BatchFacts, Loop, NEW names, ListMsg(names) PROVE Loop'
<1> DEFINE found == {i \in Target : DBName[i] \in names}
<1>1. stage = "checking" /\ ~Started /\ Ping \notin cmds /\ Asked = {} /\ RunBatch \notin cmds
      /\ main = "idle" /\ inspectPending = 0 /\ prog = "running"
  BY FS_EmptySet DEF ListMsg, Handle, Loop, Messages
<1>2. db' = [i \in Target |->
               [db[i] EXCEPT !.found = i \in found, !.inspecting = @ \/ i \in found]]
  BY DEF ListMsg
<1>3. db' \in [Target -> DbState] /\ Found' = found
  <2>1. db \in [Target -> DbState]
    BY DEF Loop, UiTypes
  <2>2. ASSUME NEW b \in BOOLEAN, NEW c \in BOOLEAN, NEW r \in DbState
        PROVE  [r EXCEPT !.found = b, !.inspecting = c] \in DbState
    BY DEF DbState
  <2>3. ASSUME NEW i \in Target PROVE db'[i] \in DbState /\ db'[i].found = (i \in found)
    <3>1. db'[i] = [db[i] EXCEPT !.found = i \in found,
                                 !.inspecting = db[i].inspecting \/ i \in found]
      BY <1>2
    <3>2. (i \in found) \in BOOLEAN /\ (db[i].inspecting \/ i \in found) \in BOOLEAN
      OBVIOUS
    <3>3. db[i] \in DbState
      BY <2>1
    <3>4. db'[i].found = (i \in found)
      BY <3>1, <3>3 DEF DbState
    <3> HIDE DEF found
    <3> QED
      BY <2>2, <3>1, <3>2, <3>3, <3>4
  <2>4. db' \in [Target -> DbState]
    BY <1>2, <2>3
  <2> QED
    BY <2>3, <2>4, Zenon DEF Found
<1>4. Cardinality(found) \in 0 .. N
  BY TargetsFinite
<1>5. inspectPending' = Cardinality(found)
  <2>1. inspectPending' = inspectPending + Cardinality(found)
    BY DEF ListMsg
  <2> QED
    BY <1>1, <1>4, <2>1
<1>6. /\ UNCHANGED <<main, targets, prog, exit, userAborted, backupPending, attempted, failed,
                    said, autoConfirm, terminated>>
  BY DEF ListMsg, batchVars, outside
<1>7. CASE found = {}
  <2>1. fatal' = TRUE /\ stage' = "report" /\ cmds' = (cmds \ {List}) \cup {Quit}
    BY <1>7 DEF ListMsg
  <2>2. Asked' = {}
    BY <1>1, <2>1, Cmds DEF Asked
  <2>3. UiTypes'
    BY <1>3, <1>4, <1>5, <1>6, <2>1 DEF Loop, UiTypes
  <2>4. Messages'
    BY <1>1, <1>5, <1>6, <1>7, <2>1, <2>2, Cmds DEF Loop, Messages
  <2>5. Counting' /\ Returned'
    BY <1>1, <1>3, <1>4, <1>6, <2>1 DEF Loop, Counting, Returned
  <2> QED
    BY <2>3, <2>4, <2>5 DEF Loop
<1>8. CASE found # {}
  <2>1. fatal' = fatal /\ stage' = "inspecting"
        /\ cmds' = (cmds \ {List}) \cup {Inspect(i) : i \in found}
    BY <1>8 DEF ListMsg
  <2>2. Asked' = found
    BY <1>1, <2>1, Cmds DEF Asked
  <2>3. UiTypes'
    <3>1. cmds' \subseteq {Ping, List, Quit, RunBatch} \cup {Inspect(i) : i \in Target}
      BY <2>1 DEF Loop, UiTypes
    <3> QED
      BY <1>3, <1>4, <1>5, <1>6, <2>1, <3>1 DEF Loop, UiTypes
  <2>4. Messages'
    <3>1. \A c \in {Ping, List, Quit, RunBatch} : c \in cmds' <=> c \in cmds /\ c # List
      BY <2>1, Cmds
    <3> QED
      BY <1>1, <1>5, <1>6, <2>1, <2>2, <3>1 DEF Loop, Messages
  <2>5. Counting' /\ Returned'
    BY <1>1, <1>3, <1>4, <1>6, <2>1 DEF Loop, Counting, Returned
  <2> QED
    BY <2>3, <2>4, <2>5 DEF Loop
<1> QED
  BY <1>7, <1>8

\* startBackups, for whichever message or key.
LEMMA StartLoop ==
  ASSUME BatchFacts, Loop, prog = "running", ~Started, main = "idle",
         NEW d \in [Target -> DbState], \A i \in Target : d[i].found = db[i].found,
         NEW others \in SUBSET cmds, Ping \notin others, List \notin others,
         \A i \in Target : Inspect(i) \notin others,
         StartBackups(d, others), inspectPending' = 0, said' \subseteq {"yes", "no"},
         UNCHANGED <<batchVars, prog, exit, fatal, userAborted, attempted, failed, outside>>
  PROVE  Loop'
<1>1. db' = [i \in Target |-> [d[i] EXCEPT !.backing = @ \/ d[i].found]]
  BY DEF StartBackups
<1>2. db' \in [Target -> DbState] /\ Found' = Found
  BY <1>1 DEF DbState, Found
<1>3. Cardinality(Found) \in 0 .. N /\ Cardinality({}) = 0
  BY TargetsFinite, FS_EmptySet DEF Found
<1>4. Found # {} => Cardinality(Found) # 0
  BY TargetsFinite, FS_EmptySet DEF Found
<1>5. backupPending = 0 /\ attempted = 0 /\ failed = 0
  BY DEF Loop, Counting
<1>6. backupPending' = Cardinality(Found)
  BY <1>3, <1>5 DEF StartBackups
<1>7. Told' = {} /\ Bad' = {}
  BY ToldAreFound DEF Told, Bad, batchVars
<1>8. UNCHANGED <<main, targets, prog, exit, fatal, userAborted, attempted, failed, autoConfirm,
                  terminated>>
  BY DEF batchVars, outside
<1>9. CASE Found = {}
  <2>1. stage' = "done" /\ cmds' = others \cup {Quit}
    BY <1>9 DEF StartBackups
  <2>2. Asked' = {}
    BY <2>1, Cmds DEF Asked
  <2>3. UiTypes'
    BY <1>2, <1>3, <1>6, <1>8, <2>1 DEF Loop, UiTypes
  <2>4. Messages'
    BY <1>2, <1>3, <1>6, <1>8, <1>9, <2>1, <2>2, Cmds DEF Loop, Messages
  <2>5. Counting' /\ Returned'
    BY <1>2, <1>3, <1>5, <1>6, <1>7, <1>8, <1>9, <2>1 DEF Loop, Counting, Returned
  <2> QED
    BY <2>3, <2>4, <2>5 DEF Loop
<1>10. CASE Found # {}
  <2>1. stage' = "backingUp" /\ cmds' = others \cup {RunBatch}
    BY <1>10 DEF StartBackups
  <2>2. Asked' = {}
    BY <2>1, Cmds DEF Asked
  <2>3. UiTypes'
    BY <1>2, <1>3, <1>6, <1>8, <2>1 DEF Loop, UiTypes
  <2>4. Messages'
    BY <1>2, <1>3, <1>6, <1>8, <2>1, <2>2, Cmds DEF Loop, Messages
  <2>5. Counting' /\ Returned'
    BY <1>2, <1>3, <1>4, <1>5, <1>6, <1>7, <1>8, <1>10, <2>1 DEF Loop, Counting, Returned
  <2> QED
    BY <2>3, <2>4, <2>5 DEF Loop
<1> QED
  BY <1>9, <1>10

LEMMA AnswerYesLoop == ASSUME BatchFacts, Loop, AnswerYes PROVE Loop'
<1>1. stage = "report" /\ prog = "running" /\ ~Started /\ main = "idle" /\ Asked = {}
      /\ Ping \notin cmds /\ List \notin cmds
  BY DEF AnswerYes, Loop, Messages
<1>2. inspectPending' = 0
  BY <1>1, FS_EmptySet DEF AnswerYes, Loop, Messages
<1>3. \A i \in Target : Inspect(i) \notin cmds
  BY <1>1 DEF Asked
<1>4. db \in [Target -> DbState] /\ StartBackups(db, cmds)
      /\ UNCHANGED <<batchVars, prog, exit, fatal, userAborted, attempted, failed, outside>>
  BY DEF AnswerYes, Loop, UiTypes
<1>5. said' \subseteq {"yes", "no"}
  BY DEF AnswerYes, Loop, UiTypes
<1> QED
  BY <1>1, <1>2, <1>3, <1>4, <1>5, StartLoop

LEMMA InspectMsgLoop == ASSUME BatchFacts, Loop, NEW i \in Target, InspectMsg(i) PROVE Loop'
<1> DEFINE seen == [db EXCEPT ![ByName(i)].inspecting = FALSE]
           others == cmds \ {Inspect(i)}
<1>1. prog = "running" /\ Inspect(i) \in cmds /\ i \in Asked
  BY DEF InspectMsg, Handle, Asked
<1>2. stage = "inspecting" /\ ~Started /\ main = "idle" /\ Ping \notin cmds /\ List \notin cmds
      /\ RunBatch \notin cmds
  BY <1>1 DEF Loop, Messages
<1>3. seen \in [Target -> DbState] /\ \A j \in Target : seen[j].found = db[j].found
  BY DEF Loop, UiTypes, DbState
<1>4. others \in SUBSET cmds /\ Ping \notin others /\ List \notin others
  BY <1>2
<1>5. {j \in Target : Inspect(j) \in others} = Asked \ {i}
  BY Cmds DEF Asked
<1>6. Cardinality(Asked \ {i}) = inspectPending - 1 /\ Cardinality(Asked \ {i}) \in 0 .. N
  <2>1. Asked \in SUBSET Target
    BY DEF Asked
  <2>2. IsFiniteSet(Asked) /\ Cardinality(Asked \ {i}) \in 0 .. N
    BY <2>1, TargetsFinite
  <2>3. Cardinality(Asked \ {i}) = Cardinality(Asked) - 1
    BY <1>1, <2>2, FS_RemoveElement
  <2> QED
    BY <2>2, <2>3 DEF Loop, Messages
<1>7. inspectPending' = inspectPending - 1
      /\ UNCHANGED <<batchVars, prog, exit, fatal, userAborted, attempted, failed, said, outside>>
  BY DEF InspectMsg
<1>10. said' \subseteq {"yes", "no"}
  BY <1>7 DEF Loop, UiTypes
<1>8. CASE inspectPending = 1 /\ StartBackups(seen, others)
  <2>1. Asked \ {i} = {}
    BY <1>6, <1>8, TargetsFinite, FS_EmptySet DEF Asked
  <2>2. \A j \in Target : Inspect(j) \notin others
    BY <1>5, <2>1
  <2>3. inspectPending' = 0
    BY <1>7, <1>8
  <2> HIDE DEF seen, others
  <2> QED
    BY <1>1, <1>2, <1>3, <1>4, <1>7, <1>8, <1>10, <2>2, <2>3, StartLoop
<1>9. CASE /\ db' = seen /\ cmds' = others
           /\ stage' = IF inspectPending > 1 THEN stage ELSE "report"
           /\ UNCHANGED backupPending
  <2>1. Asked' = Asked \ {i}
    BY <1>5, <1>9 DEF Asked
  <2>2. Found' = Found
    BY <1>3, <1>9 DEF Found
  <2>3. stage' = "inspecting" \/ (stage' = "report" /\ Asked \ {i} = {})
    <3>1. CASE inspectPending > 1
      BY <1>2, <1>9, <3>1
    <3>2. CASE ~(inspectPending > 1)
      <4>0. inspectPending \in Int
        BY DEF Loop, UiTypes
      <4>1. Asked \ {i} = {}
        BY <1>6, <3>2, <4>0, TargetsFinite, FS_EmptySet DEF Asked
      <4> QED
        BY <1>9, <3>2, <4>1
    <3> QED
      BY <3>1, <3>2
  <2>4. UiTypes'
    BY <1>2, <1>3, <1>4, <1>6, <1>7, <1>9, <2>3 DEF Loop, UiTypes, outside
  <2>5. Messages'
    BY <1>2, <1>4, <1>6, <1>7, <1>9, <2>1, <2>2, <2>3 DEF Loop, Messages, batchVars, outside
  <2>6. Counting' /\ Returned'
    BY <1>2, <1>7, <1>9, <2>2, <2>3 DEF Loop, Counting, Returned, outside
  <2> QED
    BY <2>4, <2>5, <2>6 DEF Loop
<1> QED
  BY <1>8, <1>9 DEF InspectMsg

LEMMA BatchCmdLoop == ASSUME BatchFacts, Loop, BatchCmd PROVE Loop'
<1>1. stage = "backingUp" /\ main' = "batch" /\ targets' = Found /\ cmds' = cmds \ {RunBatch}
      /\ UNCHANGED <<results, reported, prog, exit, stage, fatal, userAborted, db, inspectPending,
                    backupPending, attempted, failed, said, outside>>
  BY DEF BatchCmd, Batch!Invoke, Loop, Messages
<1>2. Found' = Found /\ Told' = Told /\ Bad' = Bad /\ Asked' = Asked
  BY <1>1, Cmds DEF Found, Told, Bad, Asked
<1>3. UiTypes'
  BY <1>1 DEF Loop, UiTypes, outside
<1>4. Messages'
  BY <1>1, <1>2, Cmds DEF Loop, Messages, outside
<1>5. Counting' /\ Returned'
  BY <1>1, <1>2 DEF Loop, Counting, Returned, outside
<1> QED
  BY <1>3, <1>4, <1>5 DEF Loop

\* Steps of the batch and messages about it keep Loop when they leave what was
\* told as it is.
LEMMA BatchLoop ==
  ASSUME Loop, db' \in [Target -> DbState], \A j \in Target : db'[j].found = db[j].found,
         UNCHANGED <<targets, prog, exit, cmds, stage, fatal, userAborted, inspectPending,
                     backupPending, attempted, failed, said, outside>>,
         main' = "idle" <=> main = "idle",
         Found \subseteq Told => Found \subseteq Told',
         prog = "running" \/ stage = "done" => Told' = Told /\ Bad' = Bad
  PROVE  Loop'
<1>1. Found' = Found /\ Asked' = Asked
  BY DEF Found, Asked
<1>2. UiTypes'
  BY DEF Loop, UiTypes, outside
<1>3. Messages'
  BY <1>1 DEF Loop, Messages, outside
<1>4. Counting' /\ Returned'
  BY <1>1 DEF Loop, Counting, Returned, outside
<1> QED
  BY <1>2, <1>3, <1>4 DEF Loop

LEMMA ProgressMsgLoop == ASSUME Loop, NEW i \in Target, ProgressMsg(i) PROVE Loop'
<1>1. db' \in [Target -> DbState] /\ \A j \in Target : db'[j].found = db[j].found
  BY DEF ProgressMsg, Loop, UiTypes, DbState
<1>2. Told' = Told /\ Bad' = Bad
  BY DEF ProgressMsg, batchVars, Told, Bad
<1> QED
  BY <1>1, <1>2, BatchLoop DEF ProgressMsg, batchVars

\* What a step of the batch does to what is told.
LEMMA BatchStepTells ==
  ASSUME BatchFacts, NEW i \in Target, BatchStep(i)
  PROVE  /\ UNCHANGED <<main, targets>> /\ UNCHANGED uiVars
         /\ dumped \subseteq dumped'
         /\ \A j \in Target : reported[j] = 1 => reported'[j] = 1 /\ results'[j] = results[j]
         /\ reported' = reported
              \/ (prog # "running" /\ pc[i] \in {"report", "skipReport"}
                   /\ \A j \in Target \ {i} : reported'[j] = reported[j])
<1>1. UNCHANGED uiVars
  BY DEF BatchStep
<1>2. CASE Batch!Spawn(i) \/ Batch!AcquireSlot(i) \/ Batch!DumpStarts(i) \/ Batch!ReleaseSlot(i)
             \/ Batch!GoroutineExits(i)
  BY <1>1, <1>2 DEF Batch!Spawn, Batch!AcquireSlot, Batch!DumpStarts, Batch!ReleaseSlot,
                    Batch!GoroutineExits
<1>3. CASE Batch!SeeCancel(i) \/ Batch!BackupReturns(i)
  <2>1. pc[i] \in {"select", "backup", "dump"} /\ UNCHANGED <<main, targets, reported, dumped>>
        /\ \E e : results' = [results EXCEPT ![i] = e]
    BY <1>3 DEF Batch!SeeCancel, Batch!BackupReturns
  <2>2. reported[i] # 1
    BY <2>1 DEF BatchFacts
  <2>3. \A j \in Target \ {i} : results'[j] = results[j]
    BY <2>1 DEF BatchFacts
  <2> QED
    BY <1>1, <2>1, <2>2, <2>3
<1>4. CASE prog \in {"ended", "broken"} /\ Batch!OnResult(i)
  <2>1. pc[i] \in {"report", "skipReport"} /\ UNCHANGED <<main, targets, results, dumped>>
        /\ reported' = [reported EXCEPT ![i] = @ + 1]
    BY <1>4 DEF Batch!OnResult
  <2>2. reported[i] = 0
    BY <2>1 DEF BatchFacts
  <2>3. \A j \in Target \ {i} : reported'[j] = reported[j]
    BY <2>1 DEF BatchFacts
  <2> QED
    BY <1>1, <1>4, <2>1, <2>2, <2>3
<1> QED
  BY <1>2, <1>3, <1>4 DEF BatchStep

LEMMA BatchStepLoop == ASSUME BatchFacts, Loop, NEW i \in Target, BatchStep(i) PROVE Loop'
<1>1. /\ UNCHANGED <<main, targets>> /\ UNCHANGED uiVars
      /\ \A j \in Target : reported[j] = 1 => reported'[j] = 1 /\ results'[j] = results[j]
      /\ reported' = reported
           \/ (prog # "running" /\ pc[i] \in {"report", "skipReport"}
                /\ \A j \in Target \ {i} : reported'[j] = reported[j])
  BY BatchStepTells
<1>2. Found \subseteq Told => Found \subseteq Told'
  BY <1>1 DEF Told, Found
<1>3. ASSUME prog = "running" \/ stage = "done" PROVE reported' = reported
  <2>1. CASE prog = "running"
    BY <1>1, <2>1
  <2>2. CASE stage = "done"
    <3>1. Found \subseteq Told
      BY <2>2 DEF Loop, Counting
    <3>2. pc[i] \in {"report", "skipReport"} => i \in Found /\ i \notin Told
      BY DEF BatchFacts, Loop, Messages, Told
    <3> QED
      BY <1>1, <3>1, <3>2
  <2> QED
    BY <1>3, <2>1, <2>2
<1>4. prog = "running" \/ stage = "done" => Told' = Told /\ Bad' = Bad
  BY <1>1, <1>3 DEF Told, Bad
<1>5. db' \in [Target -> DbState] /\ \A j \in Target : db'[j].found = db[j].found
  BY <1>1 DEF uiVars, Loop, UiTypes
<1> QED
  BY <1>1, <1>2, <1>4, <1>5, BatchLoop DEF uiVars

LEMMA BatchReturnsLoop == ASSUME Loop, BatchReturns \/ UNCHANGED vars PROVE Loop'
<1>1. UNCHANGED <<targets, results, reported>> /\ UNCHANGED uiVars /\ (main' = "idle" <=> main = "idle")
  BY DEF BatchReturns, Batch!WaitReturns, vars, batchVars
<1>2. Told' = Told /\ Bad' = Bad
  BY <1>1 DEF Told, Bad
<1>3. db' \in [Target -> DbState] /\ \A j \in Target : db'[j].found = db[j].found
  BY <1>1 DEF uiVars, Loop, UiTypes
<1> QED
  BY <1>1, <1>2, <1>3, BatchLoop DEF uiVars

\* One more database was told of; it is counted once.
LEMMA ToldOnce ==
  ASSUME BatchFacts, Loop, NEW i \in Target, BackupDoneMsg(i)
  PROVE  /\ UNCHANGED <<main, targets, results, dumped, prog, exit, fatal, userAborted,
                       inspectPending, said, outside>>
         /\ main # "idle" /\ i \in Found \ Told /\ prog = "running"
         /\ reported'[i] = 1 /\ \A j \in Target \ {i} : reported'[j] = reported[j]
         /\ Told' = Told \cup {i}
         /\ Bad' = IF Batch!OK(results[i]) THEN Bad ELSE Bad \cup {i}
<1>1. pc[i] \in {"report", "skipReport"} /\ reported' = [reported EXCEPT ![i] = @ + 1]
      /\ UNCHANGED <<main, targets, results, dumped>>
  BY DEF BackupDoneMsg, Batch!OnResult
<1>2. reported[i] = 0 /\ i \in targets /\ main # "idle"
  BY <1>1 DEF BatchFacts
<1>3. reported'[i] = 1 /\ \A j \in Target \ {i} : reported'[j] = reported[j]
  BY <1>1, <1>2 DEF BatchFacts
<1>4. i \in Found \ Told
  BY <1>2 DEF Loop, Messages, Told
<1>5. Told' = Told \cup {i}
  BY <1>3 DEF Told
<1>6. Bad' = IF Batch!OK(results[i]) THEN Bad ELSE Bad \cup {i}
  BY <1>1, <1>4, <1>5 DEF Bad
<1> QED
  BY <1>1, <1>2, <1>3, <1>4, <1>5, <1>6 DEF BackupDoneMsg

LEMMA BackupDoneMsgLoop ==
  ASSUME BatchFacts, Loop, NEW i \in Target, BackupDoneMsg(i) PROVE Loop'
<1>1. /\ UNCHANGED <<main, targets, prog, exit, fatal, userAborted, inspectPending, said,
                    outside>>
      /\ main # "idle" /\ i \in Found \ Told /\ prog = "running"
      /\ Told' = Told \cup {i}
      /\ Bad' = IF Batch!OK(results[i]) THEN Bad ELSE Bad \cup {i}
  BY ToldOnce
<1>2. stage = "backingUp" /\ Started
  BY <1>1 DEF Loop, Messages, Counting
<1>3. /\ attempted' = attempted + 1
      /\ failed' = failed + (IF Batch!OK(results[i]) THEN 0 ELSE 1)
      /\ backupPending' = backupPending - 1
      /\ stage' = IF backupPending = 1 THEN "done" ELSE stage
      /\ cmds' = IF backupPending = 1 THEN cmds \cup {Quit} ELSE cmds
  BY DEF BackupDoneMsg
<1>4. db' \in [Target -> DbState] /\ \A j \in Target : db'[j].found = db[j].found
  <2>1. results[i] \in Batch!Result
    BY DEF BatchFacts
  <2>2. db \in [Target -> DbState]
    BY DEF Loop, UiTypes
  <2>3. db' = [db EXCEPT ![ByName(i)].backing = FALSE, ![ByName(i)].done = TRUE,
                         ![ByName(i)].result = results[i]]
    BY DEF BackupDoneMsg
  <2> QED
    BY <2>1, <2>2, <2>3 DEF DbState
<1>5. Found' = Found /\ Asked' = Asked
  BY <1>3, <1>4, Cmds DEF Found, Asked
<1>6. /\ Cardinality(Told') = Cardinality(Told) + 1
      /\ Cardinality(Bad') = Cardinality(Bad) + (IF Batch!OK(results[i]) THEN 0 ELSE 1)
      /\ Cardinality(Told) \in 0 .. N /\ Cardinality(Bad) \in 0 .. N /\ Cardinality(Found) \in 0 .. N
  <2>1. IsFiniteSet(Told) /\ Cardinality(Told) \in 0 .. N /\ IsFiniteSet(Bad)
        /\ Cardinality(Bad) \in 0 .. N /\ Cardinality(Found) \in 0 .. N
    BY TargetsFinite DEF Told, Bad, Found
  <2>2. i \notin Told /\ i \notin Bad
    BY <1>1 DEF Bad
  <2>3. Cardinality(Told \cup {i}) = Cardinality(Told) + 1
    BY <2>1, <2>2, FS_AddElement
  <2>4. Cardinality(Bad \cup {i}) = Cardinality(Bad) + 1
    BY <2>1, <2>2, FS_AddElement
  <2> QED
    BY <1>1, <2>1, <2>3, <2>4
<1>7. /\ backupPending + attempted = Cardinality(Found) /\ backupPending > 0
      /\ attempted = Cardinality(Told) /\ failed = Cardinality(Bad) /\ failed <= attempted
      /\ failed >= 0 /\ backupPending \in Int /\ attempted \in Int /\ failed \in Int
  BY <1>1, <1>2 DEF Loop, Counting, UiTypes
<1>8. backupPending = 1 => Found \subseteq Told'
  <2> SUFFICES ASSUME backupPending = 1 PROVE Found \subseteq Told'
    OBVIOUS
  <2>1. Told' \subseteq Found /\ IsFiniteSet(Found)
    BY <1>1, ToldAreFound, TargetsFinite DEF Found
  <2>2. Cardinality(Told') = Cardinality(Found)
    BY <1>6, <1>7
  <2> QED
    BY <2>1, <2>2, FS_Subset
<1>9. UiTypes'
  <2>1. attempted' \in Int /\ failed' \in Int /\ backupPending' \in Int
    BY <1>3, <1>7
  <2> QED
    BY <1>1, <1>2, <1>3, <1>4, <2>1 DEF Loop, UiTypes, outside
<1>10. Messages'
  BY <1>1, <1>2, <1>3, <1>5, Cmds DEF Loop, Messages, outside
<1>11. Counting'
  <2>1. Found' = Found /\ prog' = prog
    BY <1>1, <1>5
  <2>2. attempted' = Cardinality(Told') /\ failed' = Cardinality(Bad')
    BY <1>3, <1>6, <1>7
  <2>3. backupPending' + attempted' = Cardinality(Found) /\ failed' >= 0 /\ failed' <= attempted'
    BY <1>3, <1>6, <1>7
  <2>4. attempted' <= Cardinality(Found)
    BY <1>3, <1>6, <1>7
  <2>5. stage' = "backingUp" => backupPending' > 0
    BY <1>2, <1>3, <1>7
  <2>6. stage' = "done" => backupPending' = 0 /\ Found' \subseteq Told'
    BY <1>2, <1>3, <1>7, <1>8, <2>1
  <2>7. Cardinality(Found') = Cardinality(Found)
    BY <2>1
  <2>8. Started'
    BY <1>2, <1>3
  <2> QED
    BY <2>1, <2>2, <2>3, <2>4, <2>5, <2>6, <2>7, <2>8, Zenon DEF Counting
<1>12. Returned'
  BY <1>1 DEF Loop, Returned
<1> QED
  BY <1>9, <1>10, <1>11, <1>12 DEF Loop

LEMMA LoopStep == BatchFacts /\ Loop /\ [Next]_vars => Loop'
<1> SUFFICES ASSUME BatchFacts, Loop, [Next]_vars PROVE Loop'
  OBVIOUS
<1>1. CASE AnswerNo \/ CtrlC
  BY <1>1, AbortLoop DEF AnswerNo, CtrlC
<1>2. CASE \E i \in Target : InspectMsg(i) \/ ProgressMsg(i) \/ BackupDoneMsg(i) \/ BatchStep(i)
  BY <1>2, InspectMsgLoop, ProgressMsgLoop, BackupDoneMsgLoop, BatchStepLoop
<1>3. CASE \E names \in SUBSET {DBName[i] : i \in Target} : ListMsg(names)
  BY <1>3, ListMsgLoop
<1>4. CASE PingMsg \/ ListFails \/ Terminate \/ QuitMsg \/ LoopBreaks \/ RunReturns
  BY <1>4, PingLoop, ListFailsLoop, TerminateLoop, QuitLoop
<1>5. CASE AnswerYes \/ BatchCmd \/ BatchReturns \/ UNCHANGED vars
  BY <1>5, AnswerYesLoop, BatchCmdLoop, BatchReturnsLoop
<1> QED
  BY <1>1, <1>2, <1>3, <1>4, <1>5, Zenon DEF Next, User, Exited

LEMMA Invariance == Spec => [](BatchFacts /\ Batch!TypeOK /\ Loop)
<1>1. BatchFacts /\ Loop /\ [Next]_vars => Loop'
  BY LoopStep
<1> QED
  BY <1>1, LoopInit, BatchInvariants, PTL DEF Spec

\* The variables keep their types and the counters stay between 0 and N, for any
\* databases, names and concurrency.
THEOREM TypeCorrect == Spec => []TypeOK
<1>1. Batch!TypeOK /\ Loop => TypeOK
  <2> SUFFICES ASSUME Batch!TypeOK, Loop PROVE TypeOK
    OBVIOUS
  <2>1. UiTypes /\ {inspectPending, backupPending, attempted, failed} \subseteq 0 .. N
    BY Bounds DEF Loop
  <2>2. db \in [Target -> [found : BOOLEAN, inspecting : BOOLEAN, backing : BOOLEAN,
                           current : BOOLEAN, done : BOOLEAN, result : Batch!Result]]
    BY <2>1 DEF UiTypes, DbState
  <2>3. {fatal, userAborted, autoConfirm, terminated} \subseteq BOOLEAN
    BY <2>1 DEF UiTypes
  <2> QED
    BY <2>1, <2>2, <2>3, Zenon DEF TypeOK, UiTypes
<1> QED
  BY <1>1, Invariance, PTL

\* Unless a SIGTERM ended the program, nil means that every database that was found
\* was backed up, whatever was pressed and in whichever order the results came.
THEOREM NilEarned == Spec => []NilIsEarned
<1>1. BatchFacts /\ Loop => NilIsEarned
  <2> SUFFICES ASSUME BatchFacts, Loop, ~terminated, exit = "nil", NEW i \in Found
               PROVE  Batch!OK(results[i]) /\ i \in dumped
    BY DEF NilIsEarned, NilMeansAllBackedUp
  <2>1. stage = "done" /\ failed = 0
    BY DEF Loop, Returned
  <2>2. i \in Told /\ Cardinality(Bad) = 0
    BY <2>1 DEF Loop, Counting, Messages
  <2>3. Bad = {}
    BY <2>2, TargetsFinite, FS_EmptySet DEF Bad, Told
  <2>4. Batch!OK(results[i])
    BY <2>2, <2>3 DEF Bad
  <2>5. pc[i] \in {"release", "exit", "done"}
    BY <2>2 DEF Told, BatchFacts
  <2> QED
    BY <2>2, <2>4, <2>5 DEF BatchFacts, Told
<1> QED
  BY <1>1, Invariance, PTL

\* Every target of the batch is pending or counted, once, as what it is, for any
\* number of databases.
THEOREM CountersAreExact == Spec => []CountersAgree
<1>1. Loop => CountersAgree
  BY DEF Loop, Messages, Counting, CountersAgree, Told, Bad
<1> QED
  BY <1>1, Invariance, PTL

\* What the user has said, and what came of it: nothing starts without a yes or
\* -yes, and nothing is dumped after a no that came before the start.
Answers ==
  /\ main = "idle" => dumped = {}
  /\ Started => autoConfirm \/ "yes" \in said
  /\ "no" \in said => userAborted /\ dumped = {}

LEMMA AnswersInit == Init => Answers
  BY DEF Init, Batch!Init, Answers

\* The batch has to be called before anything is dumped.
LEMMA DumpsFollowCall ==
  ASSUME BatchFacts, [Next]_vars PROVE main' = "idle" => main = "idle" /\ UNCHANGED dumped
<1>1. ASSUME NEW i \in Target, BackupDoneMsg(i) \/ BatchStep(i)
      PROVE  main' = "idle" => main = "idle" /\ UNCHANGED dumped
  BY <1>1 DEF BatchFacts, BackupDoneMsg, BatchStep, Batch!Spawn, Batch!AcquireSlot, Batch!SeeCancel,
              Batch!DumpStarts, Batch!BackupReturns, Batch!OnResult, Batch!ReleaseSlot,
              Batch!GoroutineExits
<1>2. ASSUME BatchCmd \/ BatchReturns \/ UNCHANGED vars
      PROVE  main' = "idle" => main = "idle" /\ UNCHANGED dumped
  BY <1>2 DEF BatchCmd, BatchReturns, Batch!Invoke, Batch!WaitReturns, vars, batchVars
<1>3. UNCHANGED batchVars => UNCHANGED <<main, dumped>>
  BY DEF batchVars
<1> QED
  BY <1>1, <1>2, <1>3, LoopSteps, CancellingSteps DEF Next, User, Exited

\* Only -yes at the last inspection, and the user's yes, start the backups.
LEMMA StartSteps ==
  ASSUME BatchFacts, Loop, Answers, [Next]_vars
  PROVE  Started' => autoConfirm' \/ "yes" \in said'
<1>1. ASSUME NEW i \in Target, InspectMsg(i) PROVE Started' => autoConfirm' \/ "yes" \in said'
  BY <1>1 DEF InspectMsg, Answers, outside
<1>2. ASSUME NEW names, ListMsg(names) PROVE ~Started'
  BY <1>2 DEF ListMsg
<1>3. CASE PingMsg \/ ListFails
  BY <1>3 DEF PingMsg, ListFails, Answers, outside
<1>4. ASSUME NEW i \in Target, BackupDoneMsg(i) PROVE Started' => autoConfirm' \/ "yes" \in said'
  <2>1. main # "idle" /\ UNCHANGED <<said, autoConfirm>>
    BY <1>4, ToldOnce DEF outside
  <2>2. Started
    BY <2>1 DEF Loop, Messages
  <2> QED
    BY <2>1, <2>2 DEF Answers
<1>5. CASE AnswerYes
  BY <1>5 DEF AnswerYes
<1>6. CASE CtrlC \/ AnswerNo
  BY <1>6 DEF CtrlC, AnswerNo, Abort, Answers, outside
<1>7. ASSUME UNCHANGED <<stage, said, autoConfirm>> PROVE Started' => autoConfirm' \/ "yes" \in said'
  BY <1>7 DEF Answers
<1>8. ASSUME NEW i \in Target, ProgressMsg(i) \/ BatchStep(i)
      PROVE  UNCHANGED <<stage, said, autoConfirm>>
  BY <1>8 DEF ProgressMsg, BatchStep, uiVars, outside
<1>9. ASSUME BatchCmd \/ BatchReturns \/ Terminate \/ QuitMsg \/ LoopBreaks \/ RunReturns \/ UNCHANGED vars
      PROVE  UNCHANGED <<stage, said, autoConfirm>>
  BY <1>9 DEF BatchCmd, BatchReturns, Terminate, QuitMsg, LoopBreaks, RunReturns, uiVars, vars, outside
<1> QED
  BY <1>1, <1>2, <1>3, <1>4, <1>5, <1>6, <1>7, <1>8, <1>9, Zenon DEF Next, User, Exited

\* A no is recorded by the key that cancels, before the backups have started.
LEMMA NoSteps ==
  ASSUME [Next]_vars
  PROVE  /\ userAborted => userAborted'
         /\ "no" \in said' => "no" \in said
              \/ (~Started /\ userAborted' /\ UNCHANGED dumped)
<1>1. CASE CtrlC \/ AnswerNo
  BY <1>1 DEF CtrlC, AnswerNo, Abort
<1>2. CASE AnswerYes
  BY <1>2 DEF AnswerYes
<1>3. ASSUME UNCHANGED <<userAborted, said>>
      PROVE  (userAborted => userAborted') /\ ("no" \in said' => "no" \in said)
  BY <1>3
<1>4. ASSUME PingMsg \/ ListFails \/ (\E names : ListMsg(names))
               \/ (\E i \in Target : InspectMsg(i) \/ ProgressMsg(i) \/ BackupDoneMsg(i) \/ BatchStep(i))
               \/ BatchCmd \/ BatchReturns \/ Terminate \/ QuitMsg \/ LoopBreaks \/ RunReturns
               \/ UNCHANGED vars
      PROVE  UNCHANGED <<userAborted, said>>
  BY <1>4 DEF PingMsg, ListFails, ListMsg, InspectMsg, ProgressMsg, BackupDoneMsg, BatchStep, BatchCmd,
              BatchReturns, Terminate, QuitMsg, LoopBreaks, RunReturns, uiVars, vars
<1> QED
  BY <1>1, <1>2, <1>3, <1>4, Zenon DEF Next, User, Exited

LEMMA AnswersStep == BatchFacts /\ Loop /\ Cancelled /\ Answers /\ [Next]_vars => Answers'
<1> SUFFICES ASSUME BatchFacts, Loop, Cancelled, Answers, [Next]_vars PROVE Answers'
  OBVIOUS
<1>1. main' = "idle" => dumped' = {}
  BY DumpsFollowCall DEF Answers
<1>2. Started' => autoConfirm' \/ "yes" \in said'
  BY StartSteps
<1>3. ASSUME "no" \in said' PROVE userAborted' /\ dumped' = {}
  <2>1. CASE "no" \in said
    <3>1. userAborted /\ dumped = {} /\ cancelled
      BY <2>1 DEF Answers, Cancelled
    <3> QED
      BY <3>1, NoSteps, DumpedSteps
  <2>2. CASE "no" \notin said
    <3>1. ~Started /\ userAborted' /\ UNCHANGED dumped
      BY <1>3, <2>2, NoSteps
    <3>2. main = "idle"
      BY <3>1 DEF Loop, Messages
    <3> QED
      BY <3>1, <3>2 DEF Answers
  <2> QED
    BY <2>1, <2>2
<1> QED
  BY <1>1, <1>2, <1>3 DEF Answers

LEMMA AnswersHold == Spec => []Answers
  BY AnswersInit, AnswersStep, AbortCancels, Invariance, PTL DEF Spec

\* The batch is called with the user's yes or with -yes, after every inspection
\* was shown, for the databases that were found and no others.
THEOREM ReportComesFirst == Spec => []BackupsFollowReport
<1>1. Loop /\ Answers => BackupsFollowReport
  <2> SUFFICES ASSUME Loop, Answers, main # "idle" PROVE BackupsFollowReport
    BY DEF BackupsFollowReport
  <2>1. Started /\ targets = Found /\ (autoConfirm \/ "yes" \in said)
    BY DEF Loop, Messages, Answers
  <2>2. Asked = {}
    BY <2>1 DEF Loop, Messages
  <2>3. inspectPending = 0
    BY <2>2, FS_EmptySet DEF Loop, Messages
  <2> QED
    BY <2>1, <2>2, <2>3 DEF BackupsFollowReport, Asked
<1> QED
  BY <1>1, AnswersHold, Invariance, PTL
-----------------------------------------------------------------------------
(* What the loop waits for.                                                *)

\* Each stage has the message that leads out of it under way; a quit, once there
\* is a reason for it, stays.
Coming ==
  /\ fatal \/ userAborted \/ terminated \/ stage = "done" => Quit \in cmds
  /\ stage = "pinging" => Ping \in cmds \/ fatal
  /\ stage = "checking" => List \in cmds \/ fatal
  /\ stage = "inspecting" => Asked # {}
  /\ stage = "backingUp" => RunBatch \in cmds \/ main # "idle"

LEMMA ComingInit == Init => Coming
  BY DEF Init, Coming

\* Steps that lose no command and keep the stage.
LEMMA ComingStays ==
  ASSUME Coming, cmds \subseteq cmds', stage' = stage, main' = main \/ main' # "idle",
         fatal' = fatal, userAborted' \/ terminated' => userAborted \/ terminated \/ Quit \in cmds'
  PROVE  Coming'
  BY DEF Coming, Asked

LEMMA StartComing ==
  ASSUME Coming, NEW d, NEW others, Quit \in cmds => Quit \in others, StartBackups(d, others),
         UNCHANGED <<fatal, userAborted, terminated>>
  PROVE  Coming'
  BY DEF Coming, StartBackups

LEMMA ComingStep == Loop /\ Loop' /\ Coming /\ [Next]_vars => Coming'
<1> SUFFICES ASSUME Loop, Loop', Coming, [Next]_vars PROVE Coming'
  OBVIOUS
<1>1. CASE PingMsg
  BY <1>1, Cmds DEF PingMsg, Handle, Coming, Loop, Messages, outside
<1>2. CASE ListFails
  BY <1>2, Cmds DEF ListFails, Coming, Asked, outside, batchVars
<1>3. ASSUME NEW names, ListMsg(names) PROVE Coming'
  <2> DEFINE found == {i \in Target : DBName[i] \in names}
  <2>1. CASE found = {}
    BY <1>3, <2>1, Cmds DEF ListMsg, Coming, outside
  <2>2. CASE found # {}
    <3>1. stage' = "inspecting" /\ cmds' = (cmds \ {List}) \cup {Inspect(i) : i \in found}
          /\ UNCHANGED <<fatal, userAborted, terminated>>
      BY <1>3, <2>2 DEF ListMsg, outside
    <3>2. Asked' # {}
      BY <2>2, <3>1 DEF Asked
    <3>3. stage = "checking"
      BY <1>3 DEF ListMsg, Handle, Loop, Messages
    <3> QED
      BY <3>1, <3>2, <3>3, Cmds DEF Coming
  <2> QED
    BY <2>1, <2>2
<1>4. ASSUME NEW i \in Target, InspectMsg(i) PROVE Coming'
  <2> DEFINE others == cmds \ {Inspect(i)}
  <2>1. UNCHANGED <<fatal, userAborted, terminated>> /\ inspectPending' = inspectPending - 1
    BY <1>4 DEF InspectMsg, outside
  <2>2. Quit \in cmds => Quit \in others
    BY Cmds
  <2>3. CASE inspectPending = 1 /\ autoConfirm
    BY <1>4, <2>1, <2>2, <2>3, StartComing DEF InspectMsg
  <2>4. CASE ~ (inspectPending = 1 /\ autoConfirm)
    <3>1. cmds' = others /\ stage' = IF inspectPending > 1 THEN stage ELSE "report"
      BY <1>4, <2>4 DEF InspectMsg
    <3>2. stage = "inspecting"
      BY <1>4 DEF InspectMsg, Handle, Loop, Messages, Asked
    <3>3. inspectPending > 1 => Asked' # {}
      <4>1. inspectPending \in Int /\ inspectPending' = Cardinality(Asked')
        BY DEF Loop, UiTypes, Messages
      <4> QED
        BY <2>1, <4>1, FS_EmptySet
    <3> QED
      BY <2>1, <2>2, <3>1, <3>2, <3>3 DEF Coming
  <2> QED
    BY <2>3, <2>4
<1>5. ASSUME NEW i \in Target, ProgressMsg(i) \/ BatchStep(i) PROVE Coming'
  <2>1. main' = main /\ UNCHANGED <<cmds, stage, fatal, userAborted, terminated>>
    BY <1>5 DEF ProgressMsg, BatchStep, batchVars, uiVars, outside, Batch!Spawn, Batch!AcquireSlot,
                Batch!SeeCancel, Batch!DumpStarts, Batch!BackupReturns, Batch!OnResult,
                Batch!ReleaseSlot, Batch!GoroutineExits
  <2> QED
    BY <2>1, ComingStays
<1>6. ASSUME NEW i \in Target, BackupDoneMsg(i) PROVE Coming'
  BY <1>6, Cmds DEF BackupDoneMsg, Batch!OnResult, Coming, Asked, outside
<1>7. CASE BatchCmd
  BY <1>7, Cmds DEF BatchCmd, Batch!Invoke, Coming, Asked, outside
<1>8. CASE BatchReturns
  BY <1>8, ComingStays DEF BatchReturns, Batch!WaitReturns, uiVars, outside
<1>9. CASE CtrlC \/ AnswerNo \/ Terminate
  BY <1>9, ComingStays DEF CtrlC, AnswerNo, Abort, Terminate, batchVars, outside
<1>10. CASE AnswerYes
  BY <1>10, StartComing DEF AnswerYes, outside
<1>11. CASE QuitMsg \/ LoopBreaks \/ RunReturns \/ UNCHANGED vars
  BY <1>11, ComingStays DEF QuitMsg, LoopBreaks, RunReturns, batchVars, uiVars, vars, outside
<1> QED
  BY <1>1, <1>2, <1>3, <1>4, <1>5, <1>6, <1>7, <1>8, <1>9, <1>10, <1>11, Zenon
     DEF Next, User, Exited

\* The batch inside does not deadlock, and is waited for.
LEMMA BatchGoesOn == Spec => [](Batch!SomebodyCanRun /\ Batch!NoGoroutineOutlivesCall)
<1>1. BatchProofs!Spec => []BatchProofs!SomebodyCanRun
  BY BatchProofs!NoDeadlock, BatchAssumptions
  DEF BatchProofs!NAssumption, BatchProofs!ConcurrencyAssumption,
      BatchProofs!CallbackAssumption, BatchProofs!DBNameAssumption
<1>2. BatchProofs!Spec => []BatchProofs!NoGoroutineOutlivesCall
  BY BatchProofs!WaitCoversAll, BatchAssumptions
  DEF BatchProofs!NAssumption, BatchProofs!ConcurrencyAssumption,
      BatchProofs!CallbackAssumption, BatchProofs!DBNameAssumption
<1>3. BatchProofs!SomebodyCanRun /\ BatchProofs!NoGoroutineOutlivesCall
        => Batch!SomebodyCanRun /\ Batch!NoGoroutineOutlivesCall
  BY DEF BatchProofs!SomebodyCanRun, Batch!SomebodyCanRun, BatchProofs!NoGoroutineOutlivesCall,
         Batch!NoGoroutineOutlivesCall, BatchProofs!Slots, Batch!Slots
<1> QED
  BY <1>1, <1>2, <1>3, SpecIsBatch, PTL

\* The program never waits for a message that nobody will send, for any number of
\* databases, any keys and any failures: a message is under way or the batch, which
\* does not deadlock (BatchGoesOn), owes a callback; and a quit follows whatever
\* ends the program.
THEOREM NeverWaitsInVain == Spec => []SomethingIsComing
<1>1. BatchFacts /\ Batch!TypeOK /\ Loop /\ Coming /\ Batch!NoGoroutineOutlivesCall
        /\ Batch!SomebodyCanRun => SomethingIsComing
  <2> SUFFICES ASSUME BatchFacts, Batch!TypeOK, Loop, Coming, Batch!NoGoroutineOutlivesCall,
                      Batch!SomebodyCanRun, prog = "running"
               PROVE  SomethingIsComing
    BY DEF SomethingIsComing
  <2>1. CASE stage # "backingUp"
    <3>1. stage \in {"pinging", "checking", "inspecting", "report", "done"}
      BY <2>1 DEF Loop, UiTypes
    <3> QED
      BY <3>1 DEF Coming, SomethingIsComing, Asked
  <2>2. CASE stage = "backingUp" /\ RunBatch \in cmds
    BY <2>2 DEF Coming, SomethingIsComing
  <2>3. CASE stage = "backingUp" /\ RunBatch \notin cmds
    <3>1. main # "idle" /\ targets = Found /\ Started
      BY <2>3 DEF Coming, Loop, Messages
    <3>2. backupPending > 0 /\ backupPending + Cardinality(Told) = Cardinality(Found)
      BY <2>3, <3>1 DEF Loop, Counting
    <3>3. \E i \in Found : i \notin Told
      <4>1. CASE Found \subseteq Told
        <5>1. IsFiniteSet(Told) /\ Cardinality(Told) \in Nat /\ Cardinality(Found) \in Nat
          BY TargetsFinite DEF Told, Found
        <5>2. Cardinality(Found) <= Cardinality(Told)
          BY <4>1, <5>1, FS_Subset
        <5>3. backupPending \in Int
          BY DEF Loop, UiTypes
        <5> QED
          BY <3>2, <5>1, <5>2, <5>3
      <4> QED
        BY <4>1
    <3>4. PICK i \in Found : reported[i] # 1
      BY <3>3 DEF Told, Found
    <3>5. i \in Target /\ i \in targets /\ reported[i] = 0
      BY <3>1, <3>4 DEF BatchFacts, Found
    <3>6. main = "batch"
      <4>1. pc[i] # "done"
        BY <3>5 DEF BatchFacts
      <4>2. main # "returned"
        BY <3>5, <4>1 DEF Batch!NoGoroutineOutlivesCall
      <4>3. main \in {"idle", "batch", "returned"}
        BY DEF Batch!TypeOK
      <4> QED
        BY <3>1, <4>2, <4>3
    <3> QED
      BY <3>5, <3>6 DEF Coming, SomethingIsComing
  <2> QED
    BY <2>1, <2>2, <2>3
<1> QED
  BY <1>1, ComingInit, ComingStep, Invariance, BatchGoesOn, PTL DEF Spec

-----------------------------------------------------------------------------
(* The screens, when no name was requested twice.                          *)

DistinctNames == \A i, j \in Target : DBName[i] = DBName[j] => i = j

\* What a dbState says is true of its database, and is said in time.
Shown ==
  /\ \A i \in Target :
       /\ db[i].inspecting => Inspect(i) \in cmds
       /\ db[i].done => reported[i] = 1 /\ db[i].result = results[i]
       /\ db[i].current => i \in dumped
       /\ prog = "running" /\ reported[i] = 1 => db[i].done
       /\ stage = "done" /\ db[i].found => db[i].done
  /\ failed > 0 => \E i \in Found : db[i].done /\ ~Batch!OK(db[i].result)

LEMMA OwnName == ASSUME DistinctNames, NEW i \in Target PROVE ByName(i) = i
<1>1. i \in Int
  BY TargetsFinite
<1>2. /\ DBName[i] = DBName[i]
      /\ \A k \in Target : DBName[k] = DBName[i] => k <= i
  BY <1>1 DEF DistinctNames
<1>3. \A j \in Target : DBName[j] = DBName[i] => j = i
  BY DEF DistinctNames
<1> HIDE DEF Target
<1> QED
  BY <1>2, <1>3 DEF ByName

LEMMA ShownInit == Init => Shown
<1> SUFFICES ASSUME Init PROVE Shown
  OBVIOUS
<1>1. \A i \in Target : ~db[i].inspecting /\ ~db[i].done /\ ~db[i].current /\ ~db[i].found
  BY DEF Init
<1>2. failed = 0 /\ \A i \in Target : reported[i] = 0
  BY DEF Init, Batch!Init
<1> QED
  BY <1>1, <1>2 DEF Shown

\* Steps that leave the databases alone.
LEMMA SameScreens ==
  ASSUME Shown, UNCHANGED <<db, failed>>,
         prog' = "running" => prog = "running", stage' = "done" => stage = "done",
         \A i \in Target : Inspect(i) \in cmds => Inspect(i) \in cmds',
         dumped \subseteq dumped',
         \A i \in Target : reported[i] = 1 => reported'[i] = 1 /\ results'[i] = results[i],
         prog' = "running" => UNCHANGED reported
  PROVE  Shown'
  BY DEF Shown, Found

LEMMA BatchScreens ==
  ASSUME BatchFacts, Shown, NEW i \in Target, BatchStep(i) PROVE Shown'
<1>1. /\ UNCHANGED <<db, failed, prog, stage, cmds>> /\ dumped \subseteq dumped'
      /\ \A j \in Target : reported[j] = 1 => reported'[j] = 1 /\ results'[j] = results[j]
      /\ prog = "running" => reported' = reported
  BY BatchStepTells DEF uiVars
<1> QED
  BY <1>1, SameScreens

LEMMA QuietScreens ==
  ASSUME Loop, Shown,
         PingMsg \/ ListFails \/ CtrlC \/ AnswerNo \/ Terminate \/ QuitMsg \/ LoopBreaks \/ RunReturns
           \/ BatchCmd \/ BatchReturns \/ UNCHANGED vars
  PROVE  Shown'
<1>1. UNCHANGED <<db, failed, results, reported, dumped>>
  BY DEF PingMsg, ListFails, CtrlC, AnswerNo, Abort, Terminate, QuitMsg, LoopBreaks, RunReturns, BatchCmd,
         BatchReturns, Batch!Invoke, Batch!WaitReturns, batchVars, uiVars, vars
<1>2. (prog' = "running" => prog = "running") /\ (stage' = "done" => stage = "done")
  BY DEF PingMsg, ListFails, CtrlC, AnswerNo, Abort, Terminate, QuitMsg, LoopBreaks, RunReturns, BatchCmd,
         BatchReturns, uiVars, vars
<1>3. ASSUME NEW i \in Target, Inspect(i) \in cmds PROVE Inspect(i) \in cmds'
  BY <1>3, Cmds DEF PingMsg, ListFails, CtrlC, AnswerNo, Abort, Terminate, QuitMsg, LoopBreaks, RunReturns,
         BatchCmd, BatchReturns, uiVars, vars
<1> QED
  BY <1>1, <1>2, <1>3, SameScreens

\* Until the backups are started nothing was told, so nothing is done.
LEMMA NothingDone ==
  ASSUME BatchFacts, Loop, Shown, ~Started
  PROVE  /\ failed = 0
         /\ \A i \in Target : ~db[i].done /\ reported[i] # 1
  BY ToldAreFound DEF Loop, Messages, Counting, Shown, Told

LEMMA ListScreens ==
  ASSUME BatchFacts, Loop, Shown, NEW names, ListMsg(names) PROVE Shown'
<1> DEFINE found == {i \in Target : DBName[i] \in names}
<1>1. stage = "checking" /\ ~Started /\ Asked = {}
  BY DEF ListMsg, Handle, Loop, Messages
<1>2. db' = [i \in Target |->
               [db[i] EXCEPT !.found = i \in found, !.inspecting = @ \/ i \in found]]
  BY DEF ListMsg
<1>3. ASSUME NEW i \in Target
      PROVE  /\ db'[i].done = db[i].done /\ db'[i].current = db[i].current
             /\ db'[i].inspecting = (db[i].inspecting \/ i \in found)
  <2>1. db[i] \in DbState
    BY DEF Loop, UiTypes
  <2>2. db'[i] = [db[i] EXCEPT !.found = i \in found,
                               !.inspecting = db[i].inspecting \/ i \in found]
    BY <1>2
  <2> HIDE DEF found
  <2> QED
    BY <2>1, <2>2 DEF DbState
<1>4. failed' = failed /\ UNCHANGED <<dumped, reported>> /\ stage' # "done"
  BY DEF ListMsg, batchVars
<1>5. \A i \in found : Inspect(i) \in cmds'
  BY DEF ListMsg
<1>6. \A i \in Target : ~db[i].inspecting
  BY <1>1 DEF Shown, Asked
<1> HIDE DEF found
<1>7. failed = 0 /\ \A i \in Target : ~db[i].done /\ reported[i] # 1
  BY <1>1, NothingDone
<1>8. \A i \in Target :
        /\ db'[i].inspecting => Inspect(i) \in cmds'
        /\ ~db'[i].done
        /\ db'[i].current => i \in dumped'
        /\ reported'[i] # 1
  BY <1>3, <1>4, <1>5, <1>6, <1>7 DEF Shown
<1> QED
  BY <1>4, <1>7, <1>8 DEF Shown

\* startBackups changes what is being backed up, and nothing that is done.
LEMMA StartScreens ==
  ASSUME BatchFacts, Loop, Shown, ~Started, UNCHANGED <<batchVars, failed>>,
         NEW d \in [Target -> DbState], NEW others,
         \A i \in Target : /\ d[i].found = db[i].found /\ d[i].done = db[i].done
                           /\ d[i].current = db[i].current
                           /\ d[i].inspecting => Inspect(i) \in others,
         StartBackups(d, others)
  PROVE  Shown'
<1>1. db' = [i \in Target |-> [d[i] EXCEPT !.backing = @ \/ d[i].found]]
  BY DEF StartBackups
<1>2. ASSUME NEW i \in Target
      PROVE  /\ db'[i].done = db[i].done /\ db'[i].current = db[i].current
             /\ db'[i].found = db[i].found /\ db'[i].inspecting = d[i].inspecting
  <2>1. d[i] \in DbState
    OBVIOUS
  <2>2. db'[i] = [d[i] EXCEPT !.backing = d[i].backing \/ d[i].found]
    BY <1>1
  <2> QED
    BY <2>1, <2>2 DEF DbState
<1>3. UNCHANGED <<dumped, reported>>
  BY DEF batchVars
<1>4. failed = 0 /\ \A i \in Target : ~db[i].done /\ reported[i] # 1
  BY NothingDone
<1>5. \A i \in Target : Inspect(i) \in others => Inspect(i) \in cmds'
  BY DEF StartBackups
<1>6. stage' = "done" => Found = {}
  BY DEF StartBackups
<1>7. \A i \in Target :
        /\ db'[i].inspecting => Inspect(i) \in cmds'
        /\ ~db'[i].done
        /\ db'[i].current => i \in dumped'
        /\ reported'[i] # 1
        /\ stage' = "done" => ~db'[i].found
  BY <1>2, <1>3, <1>4, <1>5, <1>6 DEF Shown, Found
<1> QED
  BY <1>4, <1>7 DEF Shown

LEMMA InspectScreens ==
  ASSUME DistinctNames, BatchFacts, Loop, Shown, NEW i \in Target, InspectMsg(i) PROVE Shown'
<1> DEFINE seen == [db EXCEPT ![i].inspecting = FALSE]
           others == cmds \ {Inspect(i)}
<1>1. prog = "running" /\ ~Started
  BY DEF InspectMsg, Handle, Loop, Messages, Asked
<1>2. db \in [Target -> DbState]
  BY DEF Loop, UiTypes
<1>3. seen \in [Target -> DbState]
      /\ \A j \in Target : /\ seen[j].found = db[j].found /\ seen[j].done = db[j].done
                           /\ seen[j].current = db[j].current
  BY <1>2 DEF DbState
<1>4. \A j \in Target : seen[j].inspecting => Inspect(j) \in others
  BY <1>2, Cmds DEF Shown, DbState
<1>5. UNCHANGED <<batchVars, failed>>
  BY DEF InspectMsg
<1>6. StartBackups(seen, others)
        \/ (db' = seen /\ cmds' = others /\ (stage' = stage \/ stage' = "report"))
  BY OwnName DEF InspectMsg
<1> HIDE DEF seen, others
<1>7. CASE StartBackups(seen, others)
  BY <1>1, <1>3, <1>4, <1>5, <1>7, StartScreens
<1>8. CASE db' = seen /\ cmds' = others /\ (stage' = stage \/ stage' = "report")
  <2>1. failed = 0 /\ \A j \in Target : ~db[j].done /\ reported[j] # 1
    BY <1>1, NothingDone
  <2>2. stage' # "done"
    BY <1>1, <1>8 DEF Loop, Messages
  <2>3. \A j \in Target :
          /\ db'[j].inspecting => Inspect(j) \in cmds'
          /\ ~db'[j].done
          /\ db'[j].current => j \in dumped'
          /\ reported'[j] # 1
    BY <1>3, <1>4, <1>5, <1>8, <2>1 DEF Shown, batchVars
  <2> QED
    BY <1>5, <2>1, <2>2, <2>3 DEF Shown
<1> QED
  BY <1>6, <1>7, <1>8

LEMMA ProgressScreens ==
  ASSUME DistinctNames, BatchFacts, Loop, Shown, NEW i \in Target, ProgressMsg(i) PROVE Shown'
<1>1. db' = [db EXCEPT ![i].current = TRUE] /\ pc[i] = "dump"
      /\ UNCHANGED <<results, reported, dumped, prog, cmds, stage, failed>>
  BY OwnName DEF ProgressMsg, batchVars
<1>2. i \in dumped
  BY <1>1 DEF BatchFacts
<1>3. db \in [Target -> DbState]
  BY DEF Loop, UiTypes
<1>4. \A j \in Target : /\ db'[j].found = db[j].found /\ db'[j].done = db[j].done
                        /\ db'[j].inspecting = db[j].inspecting
                        /\ db'[j].result = db[j].result
                        /\ db'[j].current => db[j].current \/ j = i
  BY <1>1, <1>3 DEF DbState
<1>5. Found' = Found
  BY <1>4 DEF Found
<1> QED
  BY <1>1, <1>2, <1>4, <1>5 DEF Shown

LEMMA DoneScreens ==
  ASSUME DistinctNames, BatchFacts, Loop, Shown, NEW i \in Target, BackupDoneMsg(i) PROVE Shown'
<1>1. db' = [db EXCEPT ![i].backing = FALSE, ![i].done = TRUE, ![i].result = results[i]]
  BY OwnName DEF BackupDoneMsg
<1>2. /\ UNCHANGED <<results, dumped, prog>> /\ prog = "running"
      /\ i \in Found \ Told
      /\ reported'[i] = 1 /\ \A j \in Target \ {i} : reported'[j] = reported[j]
      /\ Told' = Told \cup {i}
  BY ToldOnce
<1>3. db \in [Target -> DbState] /\ results[i] \in Batch!Result
  BY DEF Loop, UiTypes, BatchFacts
<1>4. db'[i].done /\ db'[i].result = results[i]
  BY <1>1, <1>3 DEF DbState
<1>5. \A j \in Target : /\ db'[j].found = db[j].found /\ db'[j].current = db[j].current
                        /\ db'[j].inspecting = db[j].inspecting
  BY <1>1, <1>3 DEF DbState
<1>6. \A j \in Target \ {i} : db'[j].done = db[j].done /\ db'[j].result = db[j].result
  BY <1>1, <1>3 DEF DbState
<1>7. \A j \in Target : Inspect(j) \in cmds => Inspect(j) \in cmds'
  BY DEF BackupDoneMsg
<1>8. stage' = "done" => Found \subseteq Told'
  BY BackupDoneMsgLoop, <1>5 DEF Loop, Counting, Found
<1>9. ASSUME NEW j \in Target
      PROVE  /\ db'[j].inspecting => Inspect(j) \in cmds'
             /\ db'[j].done => reported'[j] = 1 /\ db'[j].result = results'[j]
             /\ db'[j].current => j \in dumped'
             /\ reported'[j] = 1 => db'[j].done
  <2>1. CASE j = i
    BY <1>2, <1>4, <1>5, <1>7, <2>1 DEF Shown
  <2>2. CASE j # i
    BY <1>2, <1>5, <1>6, <1>7, <2>2 DEF Shown
  <2> QED
    BY <2>1, <2>2
<1>10. ASSUME NEW j \in Target, stage' = "done", db'[j].found PROVE db'[j].done
  <2>1. j \in Told'
    BY <1>5, <1>8, <1>10 DEF Found
  <2>2. reported'[j] = 1
    BY <2>1 DEF Told
  <2> QED
    BY <1>9, <2>2
<1>11. ASSUME failed' > 0
       PROVE  \E j \in Found' : db'[j].done /\ ~Batch!OK(db'[j].result)
  <2>1. Found' = Found
    BY <1>5 DEF Found
  <2>2. CASE Batch!OK(results[i])
    <3>1. failed' = failed
      BY <2>2 DEF BackupDoneMsg, Loop, UiTypes
    <3>2. PICK j \in Found : db[j].done /\ ~Batch!OK(db[j].result)
      BY <1>11, <3>1 DEF Shown
    <3>3. j # i
      BY <1>2, <3>2 DEF Shown, Found, Told
    <3> QED
      BY <1>6, <2>1, <3>2, <3>3 DEF Found
  <2>3. CASE ~Batch!OK(results[i])
    BY <1>2, <1>4, <2>1, <2>3
  <2> QED
    BY <2>2, <2>3
<1> QED
  BY <1>9, <1>10, <1>11 DEF Shown

LEMMA AnswerYesScreens == ASSUME BatchFacts, Loop, Shown, AnswerYes PROVE Shown'
<1>1. ~Started
  BY DEF AnswerYes, Loop, Messages
<1>2. db \in [Target -> DbState] /\ \A i \in Target : db[i].inspecting => Inspect(i) \in cmds
  BY DEF Loop, UiTypes, Shown
<1>3. StartBackups(db, cmds) /\ UNCHANGED <<batchVars, failed>>
  BY DEF AnswerYes
<1> QED
  BY <1>1, <1>2, <1>3, StartScreens

LEMMA ScreensStep ==
  ASSUME DistinctNames, BatchFacts, Loop, Shown, [Next]_vars PROVE Shown'
<1>1. CASE \E i \in Target : InspectMsg(i) \/ ProgressMsg(i) \/ BackupDoneMsg(i) \/ BatchStep(i)
  BY <1>1, InspectScreens, ProgressScreens, DoneScreens, BatchScreens
<1>2. CASE \E names \in SUBSET {DBName[i] : i \in Target} : ListMsg(names)
  BY <1>2, ListScreens
<1>3. CASE PingMsg \/ ListFails \/ CtrlC \/ AnswerNo \/ Terminate \/ QuitMsg \/ LoopBreaks \/ RunReturns
             \/ BatchCmd \/ BatchReturns \/ UNCHANGED vars
  BY <1>3, QuietScreens
<1>4. CASE AnswerYes
  BY <1>4, AnswerYesScreens
<1> QED
  BY <1>1, <1>2, <1>3, <1>4, Zenon DEF Next, User, Exited

\* What each invariant says of the screens.
LEMMA ScreensTell ==
  ASSUME BatchFacts, Loop, Answers, Shown PROVE ShownIsTrue
<1>1. ASSUME NEW i \in Target, db[i].done
      PROVE  reported[i] = 1 /\ db[i].result = results[i]
             /\ (Batch!OK(results[i]) => i \in dumped)
  <2>1. reported[i] = 1 /\ db[i].result = results[i]
    BY <1>1 DEF Shown
  <2>2. pc[i] \in {"release", "exit", "done"}
    BY <2>1 DEF BatchFacts
  <2> QED
    BY <2>1, <2>2 DEF BatchFacts
<1>2. ASSUME NEW i \in Target, Line(i) \in {"backed up", "failed"}
      PROVE  db[i].done /\ db[i].found /\ (Line(i) = "backed up" <=> Batch!OK(db[i].result))
  <2>1. CASE stage = "done"
    <3>1. Line(i) = SummaryLine(i)
      BY <1>2, <2>1 DEF Line
    <3>2. db[i].found /\ (Line(i) = "backed up" <=> Batch!OK(db[i].result))
      BY <1>2, <3>1 DEF SummaryLine
    <3> QED
      BY <2>1, <3>2 DEF Shown
  <2>2. CASE stage = "backingUp"
    <3>1. Line(i) = ProgressLine(i)
      BY <1>2, <2>2 DEF Line
    <3> QED
      BY <1>2, <3>1 DEF ProgressLine
  <2>3. CASE stage \notin {"done", "backingUp"}
    BY <1>2, <2>3 DEF Line, ReportLine
  <2> QED
    BY <2>1, <2>2, <2>3
<1>3. ASSUME NEW i \in Target, Line(i) = "dumping" PROVE i \in dumped
  <2>1. Line(i) = ProgressLine(i)
    BY <1>3 DEF Line, ReportLine, SummaryLine
  <2>2. db[i].current
    BY <1>3, <2>1 DEF ProgressLine
  <2> QED
    BY <2>2 DEF Shown
<1>4. ASSUME NEW i \in Target, stage = "report" PROVE Line(i) # "inspecting"
  <2>1. ~db[i].inspecting
    BY <1>4 DEF Shown, Loop, Messages, Asked
  <2> QED
    BY <1>4, <2>1 DEF Line, ReportLine
<1>5. ASSUME exit = "nil", ~terminated, NEW i \in Found PROVE Line(i) = "backed up"
  <2>1. stage = "done" /\ failed = 0 /\ ~fatal /\ ~userAborted
    BY <1>5 DEF Loop, Returned
  <2>2. i \in Told /\ Cardinality(Bad) = 0
    BY <2>1 DEF Loop, Counting, Messages
  <2>3. Bad = {}
    BY <2>2, TargetsFinite, FS_EmptySet DEF Bad, Told
  <2>4. db[i].done /\ db[i].found /\ i \in Target
    BY <2>1 DEF Shown, Found
  <2>5. Batch!OK(db[i].result)
    BY <1>1, <2>2, <2>3, <2>4 DEF Bad
  <2> QED
    BY <2>1, <2>4, <2>5 DEF Line, SummaryLine
<1>6. ASSUME exit = "failed" PROVE \E i \in Found : Line(i) = "failed"
  <2>1. ~fatal /\ ~userAborted /\ failed > 0
    BY <1>6 DEF Loop, Returned
  <2>2. PICK i \in Found : db[i].done /\ ~Batch!OK(db[i].result)
    BY <2>1 DEF Shown
  <2>3. stage \in {"backingUp", "done"}
    BY <2>1 DEF Loop, Counting, Messages
  <2>4. i \in Target /\ db[i].found
    BY DEF Found
  <2> QED
    BY <2>1, <2>2, <2>3, <2>4 DEF Line, SummaryLine, ProgressLine
<1>7. ASSUME NEW i \in Target
      PROVE  /\ Line(i) = "backed up" => Batch!OK(results[i]) /\ i \in dumped
             /\ Line(i) = "failed" => ~Batch!OK(results[i])
  BY <1>1, <1>2
<1>8. "no" \in said => dumped = {}
  BY DEF Answers
<1> QED
  BY <1>3, <1>4, <1>5, <1>6, <1>7, <1>8 DEF ShownIsTrue

\* When no name was requested twice, what the screens say of each database is true,
\* in every order of results, keys and quits; and "no backups were run" is true
\* whenever the user's no or ctrl+c came before the backups were started.  (Two
\* entries with one name share one dbState; a ctrl+c among the backups is the
\* subject of AbortSummaryIsTrue, which fails.)
THEOREM ScreensAreTrue == ASSUME DistinctNames PROVE Spec => []ShownIsTrue
<1>1. BatchFacts /\ Loop /\ Shown /\ [Next]_vars => Shown'
  BY ScreensStep
<1>2. BatchFacts /\ Loop /\ Answers /\ Shown => ShownIsTrue
  BY ScreensTell
<1> QED
  BY <1>1, <1>2, ShownInit, AnswersHold, Invariance, PTL DEF Spec
=============================================================================

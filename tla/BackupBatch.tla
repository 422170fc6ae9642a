----------------------------- MODULE BackupBatch -----------------------------
(***************************************************************************)
(* core.BackupAllWithProgress (core/manager.go): the caller's goroutine    *)
(* starts one goroutine per target and waits for all of them.  A buffered  *)
(* channel, sem, holds one token per running backup; a goroutine waiting   *)
(* for room in it also watches the context.  The provider's Backup is kept *)
(* to what the batch can see of it: it starts the dump tool unless the     *)
(* context is already done, and returns a result and an error.             *)
(***************************************************************************)
EXTENDS Integers, FiniteSets

CONSTANTS N,               \* length of the longest targets slice
          DBName,          \* DBName[i] is targets[i].Conn.DBName
          MaxConcurrency,  \* the maxConcurrency argument, of any sign
          HasCallback      \* is onResult non-nil?

Target == 1 .. N

ASSUME NAssumption == N \in Nat
ASSUME ConcurrencyAssumption == MaxConcurrency \in Int
ASSUME CallbackAssumption == HasCallback \in BOOLEAN
ASSUME DBNameAssumption ==
  /\ DOMAIN DBName = Target
  /\ \A i \in Target : DBName[i] # ""

VARIABLES main,       \* the caller: "idle", in the "batch", or "returned"
          targets,    \* positions of the slice it was called with
          pc,         \* where the goroutine of each target is
          sem,        \* tokens in the channel
          wg,         \* the wait group's counter
          cancelled,  \* has ctx been cancelled?
          results,    \* the slice BackupAllWithProgress returns
          reported,   \* calls of onResult that returned, per target
          dumped      \* history: targets whose dump tool was started

vars == <<main, targets, pc, sem, wg, cancelled, results, reported, dumped>>

Errors == {"nil", "failed", "ctx"}
\* The zero BackupResult: make() fills the slice with it, and its OK() is true.
Unset == [name |-> "", err |-> "nil"]
\* BackupResult.OK
OK(res) == res.err = "nil"

\* The names with an underscore are what the code would be after a plausible
\* slip; a property that a slip cannot break would say nothing about the code.
Slots_ZeroKept == IF MaxConcurrency < 0 THEN 1 ELSE MaxConcurrency

\* The capacity of sem.
Slots == IF MaxConcurrency <= 0 THEN 1 ELSE MaxConcurrency

Normalised_DropsErr(i, res, err) ==
  [name |-> IF res.name = "" THEN DBName[i] ELSE res.name, err |-> res.err]

\* What the goroutine makes of the pair p.Backup returned.
Normalised(i, res, err) ==
  [name |-> IF res.name = "" THEN DBName[i] ELSE res.name,
   err  |-> IF err # "nil" /\ OK(res) THEN err ELSE res.err]

-----------------------------------------------------------------------------
Init ==
  /\ main = "idle"
  /\ targets = {}
  /\ pc = [i \in Target |-> "unborn"]
  /\ sem = 0
  /\ wg = 0
  /\ cancelled = FALSE
  /\ results = [i \in Target |-> Unset]
  /\ reported = [i \in Target |-> 0]
  /\ dumped = {}

Invoke(ts) ==
  /\ main = "idle"
  /\ main' = "batch"
  /\ targets' = ts
  /\ UNCHANGED <<pc, sem, wg, cancelled, results, reported, dumped>>

Spawn_AddInGoroutine(i) ==
  /\ main = "batch"
  /\ i \in targets
  /\ pc[i] = "unborn"
  /\ \A j \in targets : j < i => pc[j] # "unborn"
  /\ pc' = [pc EXCEPT ![i] = "select"]
  /\ UNCHANGED <<main, targets, sem, wg, cancelled, results, reported, dumped>>

\* One iteration of the loop over the targets.
Spawn(i) ==
  /\ main = "batch"
  /\ i \in targets
  /\ pc[i] = "unborn"
  /\ \A j \in targets : j < i => pc[j] # "unborn"
  /\ wg' = wg + 1
  /\ pc' = [pc EXCEPT ![i] = "select"]
  /\ UNCHANGED <<main, targets, sem, cancelled, results, reported, dumped>>

AcquireSlot_OneTooMany(i) ==
  /\ pc[i] = "select"
  /\ sem <= Slots
  /\ sem' = sem + 1
  /\ pc' = [pc EXCEPT ![i] = "backup"]
  /\ UNCHANGED <<main, targets, wg, cancelled, results, reported, dumped>>

\* The two cases of the select; Go picks either when both are ready.
AcquireSlot(i) ==
  /\ pc[i] = "select"
  /\ sem < Slots
  /\ sem' = sem + 1
  /\ pc' = [pc EXCEPT ![i] = "backup"]
  /\ UNCHANGED <<main, targets, wg, cancelled, results, reported, dumped>>

SeeCancel_NotStored(i) ==
  /\ pc[i] = "select"
  /\ cancelled
  /\ pc' = [pc EXCEPT ![i] = IF HasCallback THEN "skipReport" ELSE "exit"]
  /\ UNCHANGED <<main, targets, sem, wg, cancelled, results, reported, dumped>>

SeeCancel_NotTold(i) ==
  /\ pc[i] = "select"
  /\ cancelled
  /\ results' = [results EXCEPT ![i] = [name |-> DBName[i], err |-> "ctx"]]
  /\ pc' = [pc EXCEPT ![i] = "exit"]
  /\ UNCHANGED <<main, targets, sem, wg, cancelled, reported, dumped>>

SeeCancel(i) ==
  /\ pc[i] = "select"
  /\ cancelled
  /\ results' = [results EXCEPT ![i] = [name |-> DBName[i], err |-> "ctx"]]
  /\ pc' = [pc EXCEPT ![i] = IF HasCallback THEN "skipReport" ELSE "exit"]
  /\ UNCHANGED <<main, targets, sem, wg, cancelled, reported, dumped>>

\* Inside p.Backup: exec refuses to start a command whose context is done.
DumpStarts(i) ==
  /\ pc[i] = "backup"
  /\ ~cancelled
  /\ pc' = [pc EXCEPT ![i] = "dump"]
  /\ dumped' = dumped \cup {i}
  /\ UNCHANGED <<main, targets, sem, wg, cancelled, results, reported>>

BackupReturns_ReleasedByHand(i) ==
  /\ pc[i] \in {"backup", "dump"}
  /\ \E res \in [name : {DBName[i], ""}, err : {"nil", "failed"}], err \in Errors :
       /\ pc[i] = "backup" => err # "nil" \/ ~OK(res)
       /\ err = "ctx" => cancelled
       /\ results' = [results EXCEPT ![i] = Normalised(i, res, err)]
       /\ pc' = [pc EXCEPT ![i] = CASE err # "nil" -> "exit"
                                    [] err = "nil" /\ HasCallback -> "report"
                                    [] OTHER -> "release"]
  /\ UNCHANGED <<main, targets, sem, wg, cancelled, reported, dumped>>

\* p.Backup returns: always an error if it never started the dump tool.
BackupReturns(i) ==
  /\ pc[i] \in {"backup", "dump"}
  /\ \E res \in [name : {DBName[i], ""}, err : {"nil", "failed"}], err \in Errors :
       /\ pc[i] = "backup" => err # "nil" \/ ~OK(res)
       /\ err = "ctx" => cancelled
       /\ results' = [results EXCEPT ![i] = Normalised(i, res, err)]
  /\ pc' = [pc EXCEPT ![i] = IF HasCallback THEN "report" ELSE "release"]
  /\ UNCHANGED <<main, targets, sem, wg, cancelled, reported, dumped>>

\* onResult returns; the goroutine still holds its slot unless it was skipped.
OnResult(i) ==
  /\ pc[i] \in {"report", "skipReport"}
  /\ reported' = [reported EXCEPT ![i] = @ + 1]
  /\ pc' = [pc EXCEPT ![i] = IF @ = "report" THEN "release" ELSE "exit"]
  /\ UNCHANGED <<main, targets, sem, wg, cancelled, results, dumped>>

\* The deferred receive from sem, and then the deferred wg.Done.
ReleaseSlot(i) ==
  /\ pc[i] = "release"
  /\ sem' = sem - 1
  /\ pc' = [pc EXCEPT ![i] = "exit"]
  /\ UNCHANGED <<main, targets, wg, cancelled, results, reported, dumped>>

GoroutineExits(i) ==
  /\ pc[i] = "exit"
  /\ wg' = wg - 1
  /\ pc' = [pc EXCEPT ![i] = "done"]
  /\ UNCHANGED <<main, targets, sem, cancelled, results, reported, dumped>>

\* The loop is over and wg.Wait finds the counter at zero.
WaitReturns ==
  /\ main = "batch"
  /\ \A i \in targets : pc[i] # "unborn"
  /\ wg = 0
  /\ main' = "returned"
  /\ UNCHANGED <<targets, pc, sem, wg, cancelled, results, reported, dumped>>

\* Whoever owns ctx cancels it; this may happen at any time.
Cancel ==
  /\ ~cancelled
  /\ cancelled' = TRUE
  /\ UNCHANGED <<main, targets, pc, sem, wg, results, reported, dumped>>

Goroutine(i) ==
  \/ AcquireSlot(i)
  \/ SeeCancel(i)
  \/ DumpStarts(i)
  \/ BackupReturns(i)
  \/ OnResult(i)
  \/ ReleaseSlot(i)
  \/ GoroutineExits(i)

\* The call is over: nothing is left to do.
Finished == main = "returned" /\ UNCHANGED vars

Next ==
  \/ \E ts \in SUBSET Target : Invoke(ts)
  \/ \E i \in Target : Spawn(i) \/ Goroutine(i)
  \/ WaitReturns
  \/ Cancel
  \/ Finished

\* The Go scheduler runs every goroutine that can run, the dump tool ends, and
\* onResult returns.  Weak fairness is enough for the channel: each goroutine
\* sends to it once, so room cannot come and go forever.
Fairness ==
  /\ \A i \in Target : WF_vars(Spawn(i)) /\ WF_vars(Goroutine(i))
  /\ WF_vars(WaitReturns)

Spec == Init /\ [][Next]_vars
FairSpec == Spec /\ Fairness
-----------------------------------------------------------------------------
PC == {"unborn", "select", "backup", "dump", "report", "skipReport",
       "release", "exit", "done"}
Result == [name : {""} \cup {DBName[i] : i \in Target}, err : Errors]

TypeOK ==
  /\ main \in {"idle", "batch", "returned"}
  /\ targets \subseteq Target
  /\ pc \in [Target -> PC]
  /\ sem \in 0 .. Slots
  /\ wg \in 0 .. N
  /\ cancelled \in BOOLEAN
  /\ results \in [Target -> Result]
  /\ reported \in [Target -> 0 .. 1]
  /\ dumped \subseteq Target

\* At most Slots goroutines are inside p.Backup at the same time.
\* (BackupAll: "up to maxConcurrency at a time", values <= 0 meaning 1.)
SlotsRespected == Cardinality({i \in Target : pc[i] \in {"backup", "dump"}}) <= Slots

\* When the call returns no goroutine of it is still running: nothing writes
\* to the returned slice, or calls onResult, behind the caller's back.
NoGoroutineOutlivesCall ==
  main = "returned" => \A i \in targets : pc[i] = "done"

\* Each target has its own result, under its own name and at its own position,
\* and onResult, if there is one, was called exactly once for it.
ResultsComplete ==
  main = "returned" =>
    \A i \in targets : /\ results[i].name = DBName[i]
                       /\ reported[i] = IF HasCallback THEN 1 ELSE 0

\* A result that reads as a success belongs to a dump that was really started.
\* The zero BackupResult reads as one, so a forgotten store would break this.
OkMeansDumped ==
  main = "returned" => \A i \in targets : OK(results[i]) => i \in dumped

\* A result, once stored, is never overwritten: the two paths through the
\* goroutine (slot or cancellation) exclude each other.
StoredOnce ==
  [][\A i \in Target : results[i] # Unset => results'[i] = results[i]]_vars

\* Nobody waits for a slot that nobody will give back, and wg.Wait waits for
\* nobody in vain: while the call lasts the loop has a goroutine to start, Wait
\* finds zero, or a goroutine can go on, and nobody needs to cancel for that.
SomebodyCanRun ==
  main = "batch" =>
    \/ wg = 0
    \/ \E i \in targets : pc[i] # "done" /\ (pc[i] = "select" => sem < Slots)

\* The call always returns, cancelled or not, whatever fails.
CallReturns == main = "batch" ~> main = "returned"

\* The goroutines, the channel and the wait group keep what the callers of
\* BackupAllWithProgress rely on, stated in BatchContract.
Contract == INSTANCE BatchContract WITH
  phase    <- IF main = "batch" THEN "running" ELSE main,
  called   <- targets,
  active   <- {i \in Target : pc[i] \in {"backup", "dump"}},
  outcome  <- results,
  stored   <- {i \in Target : results[i] # Unset},
  told     <- reported,
  Outcomes <- [i \in Target |-> [name : {DBName[i]}, err : Errors]],
  Skipped  <- [i \in Target |-> [name |-> DBName[i], err |-> "ctx"]],
  Telling  <- HasCallback

ImplementsContract == Contract!Spec
=============================================================================

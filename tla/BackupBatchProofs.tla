-------------------------- MODULE BackupBatchProofs --------------------------
(***************************************************************************)
(* Proofs about core.BackupAllWithProgress, for any number of targets, any *)
(* maxConcurrency, with and without a callback.  The argument: sem and wg  *)
(* count goroutines, so the channel bounds how many are inside p.Backup    *)
(* and the wait group reaches zero only when none is left; and a goroutine *)
(* past p.Backup, or past the skip, has stored its one result.             *)
(***************************************************************************)
EXTENDS BackupBatch, FiniteSetTheorems, TLAPS

HoldingPC == {"backup", "dump", "report", "release"}
LivePC == PC \ {"unborn", "done"}

\* The targets at one of the places, with p for pc.
At(p, places) == {i \in Target : p[i] \in places}
Holding == At(pc, HoldingPC)
Live == At(pc, LivePC)

\* Before a goroutine has a result to store, and after.
Undecided == {"unborn", "select", "backup", "dump"}

Types ==
  /\ main \in {"idle", "batch", "returned"}
  /\ targets \subseteq Target
  /\ pc \in [Target -> PC]
  /\ sem \in Int
  /\ wg \in Int
  /\ cancelled \in BOOLEAN
  /\ results \in [Target -> Result]
  /\ reported \in [Target -> 0 .. 1]
  /\ dumped \subseteq Target

\* The channel and the wait group count goroutines.
Counts ==
  /\ sem = Cardinality(Holding)
  /\ sem <= Slots
  /\ wg = Cardinality(Live)

\* Where the goroutines are, given where the caller is.
Places ==
  /\ \A i \in Target : pc[i] # "unborn" => i \in targets /\ main # "idle"
  /\ NoGoroutineOutlivesCall

\* What goroutine i has done by the time it is where it is.
Stored(i) ==
  IF pc[i] \in Undecided
    THEN results[i] = Unset
    ELSE results[i].name = DBName[i] /\ (OK(results[i]) => i \in dumped)

Told(i) ==
  /\ pc[i] \in {"report", "skipReport"} => HasCallback
  /\ reported[i] =
       IF HasCallback /\ pc[i] \in {"release", "exit", "done"} THEN 1 ELSE 0

Work == \A i \in Target : Stored(i) /\ Told(i) /\ (pc[i] = "dump" => i \in dumped)

IInv == Types /\ Counts /\ Places /\ Work
-----------------------------------------------------------------------------
\* Target is finite, so the goroutines at a place can be counted.
LEMMA TargetFinite == IsFiniteSet(Target) /\ Cardinality(Target) = N
  BY FS_Interval, NAssumption DEF Target

\* One goroutine moving changes a count of goroutines by what it leaves and
\* what it enters.
LEMMA Move ==
  ASSUME NEW p \in [Target -> PC], NEW q \in [Target -> PC], NEW i \in Target,
         \A j \in Target \ {i} : q[j] = p[j], NEW places
  PROVE  Cardinality(At(q, places)) =
           Cardinality(At(p, places)) + (IF q[i] \in places THEN 1 ELSE 0)
                                      - (IF p[i] \in places THEN 1 ELSE 0)
<1>1. IsFiniteSet(At(p, places)) /\ Cardinality(At(p, places)) \in Nat
  BY TargetFinite, FS_Subset, FS_CardinalityType DEF At
<1>2. CASE p[i] \notin places /\ q[i] \in places
  <2>1. At(q, places) = At(p, places) \cup {i} /\ i \notin At(p, places)
    BY <1>2 DEF At
  <2>2. Cardinality(At(q, places)) = Cardinality(At(p, places)) + 1
    BY <1>1, <2>1, FS_AddElement
  <2> QED BY <1>1, <1>2, <2>2
<1>3. CASE p[i] \in places /\ q[i] \notin places
  <2>1. At(q, places) = At(p, places) \ {i} /\ i \in At(p, places)
    BY <1>3 DEF At
  <2>2. Cardinality(At(q, places)) = Cardinality(At(p, places)) - 1
    BY <1>1, <2>1, FS_RemoveElement
  <2> QED BY <1>1, <1>3, <2>2
<1>4. CASE (p[i] \in places) = (q[i] \in places)
  <2>1. At(q, places) = At(p, places)
    BY <1>4 DEF At
  <2> QED BY <1>1, <1>4, <2>1
<1> QED BY <1>2, <1>3, <1>4

\* The capacity of the channel is at least one.
LEMMA SlotsPositive == Slots \in Nat /\ Slots >= 1
  BY ConcurrencyAssumption DEF Slots
-----------------------------------------------------------------------------
\* Before the call the counters are zero and nothing is stored.
LEMMA InitIInv == Init => IInv
<1> SUFFICES ASSUME Init PROVE IInv
  OBVIOUS
<1>1. Types
  <2>1. Unset \in Result
    BY DEF Unset, Result, Errors
  <2>2. results \in [Target -> Result]
    BY <2>1 DEF Init
  <2>3. reported \in [Target -> 0 .. 1]
    BY DEF Init
  <2>4. pc \in [Target -> PC]
    BY DEF Init, PC
  <2>5. cancelled \in BOOLEAN
    BY DEF Init
  <2>6. main \in {"idle", "batch", "returned"} /\ sem \in Int /\ wg \in Int
    BY DEF Init
  <2>7. targets \subseteq Target /\ dumped \subseteq Target
    BY DEF Init
  <2> QED BY <2>2, <2>3, <2>4, <2>5, <2>6, <2>7 DEF Types
<1>2. Holding = {} /\ Live = {}
  BY DEF Init, Holding, Live, At, HoldingPC, LivePC
<1>3. Counts
  BY <1>2, FS_EmptySet, SlotsPositive DEF Init, Counts
<1>4. Places /\ Work
  BY DEF Init, Places, NoGoroutineOutlivesCall, Work, Stored, Told, Undecided
<1> QED BY <1>1, <1>3, <1>4 DEF IInv

\* Goroutine i is at s next, and no other goroutine moves.
Moves(i, s) ==
  /\ pc' \in [Target -> PC]
  /\ pc'[i] = s
  /\ \A j \in Target \ {i} : pc'[j] = pc[j]

\* What every step of a goroutine does to the counts and to the caller's view.
LEMMA GoroutineMoves ==
  ASSUME IInv, NEW i \in Target, NEW s \in PC, Moves(i, s)
  PROVE  /\ Cardinality(Holding') = sem + (IF s \in HoldingPC THEN 1 ELSE 0)
              - (IF pc[i] \in HoldingPC THEN 1 ELSE 0)
         /\ Cardinality(Live') = wg + (IF s \in LivePC THEN 1 ELSE 0)
              - (IF pc[i] \in LivePC THEN 1 ELSE 0)
<1>1. /\ pc \in [Target -> PC]
      /\ sem = Cardinality(Holding)
      /\ wg = Cardinality(Live)
  BY DEF IInv, Types, Counts
<1>2. Cardinality(Holding') = Cardinality(Holding)
           + (IF pc'[i] \in HoldingPC THEN 1 ELSE 0)
           - (IF pc[i] \in HoldingPC THEN 1 ELSE 0)
  BY <1>1, Move DEF Moves, Holding
<1>3. Cardinality(Live') = Cardinality(Live)
           + (IF pc'[i] \in LivePC THEN 1 ELSE 0)
           - (IF pc[i] \in LivePC THEN 1 ELSE 0)
  BY <1>1, Move DEF Moves, Live
<1> QED BY <1>1, <1>2, <1>3 DEF Moves

\* A goroutine that is under way belongs to the call that is under way.
LEMMA UnderWay ==
  ASSUME IInv, NEW i \in Target, pc[i] \notin {"unborn", "done"}
  PROVE  i \in targets /\ main = "batch"
  BY DEF IInv, Types, Places, NoGoroutineOutlivesCall

\* The call begins: no goroutine yet, so nothing is counted.
LEMMA InvokeIInv ==
  ASSUME IInv, NEW ts \in SUBSET Target, Invoke(ts)
  PROVE  IInv'
<1> USE DEF Invoke
<1>1. Types'
  BY DEF IInv, Types
<1>2. Holding' = Holding /\ Live' = Live
  BY DEF Holding, Live, At
<1>3. Counts'
  BY <1>2 DEF IInv, Counts
<1>4. Places'
  BY DEF IInv, Places, NoGoroutineOutlivesCall
<1>5. Work'
  BY DEF IInv, Work, Stored, Told
<1> QED BY <1>1, <1>3, <1>4, <1>5 DEF IInv

\* The wait group is at zero, so every goroutine of the call is done.
LEMMA WaitReturnsIInv ==
  ASSUME IInv, WaitReturns
  PROVE  IInv'
<1> USE DEF WaitReturns
<1>1. Types'
  BY DEF IInv, Types
<1>2. Holding' = Holding /\ Live' = Live
  BY DEF Holding, Live, At
<1>3. Counts'
  BY <1>2 DEF IInv, Counts
<1>4. Live = {}
  <2>1. IsFiniteSet(Live)
    BY TargetFinite, FS_Subset DEF Live, At
  <2> QED BY <2>1, FS_EmptySet DEF IInv, Counts
<1>5. \A i \in targets : pc[i] = "done"
  BY <1>4 DEF IInv, Types, Live, LivePC, At
<1>6. Places'
  BY <1>5 DEF IInv, Places, NoGoroutineOutlivesCall
<1>7. Work'
  BY DEF IInv, Work, Stored, Told
<1> QED BY <1>1, <1>3, <1>6, <1>7 DEF IInv

\* wg.Add before the go statement: the new goroutine is counted from its birth.
LEMMA SpawnIInv ==
  ASSUME IInv, NEW i \in Target, Spawn(i)
  PROVE  IInv'
<1> DEFINE s == "select"
<1>1. s \in PC /\ Moves(i, s) /\ UNCHANGED <<main, targets>>
  BY DEF Spawn, Moves, IInv, Types, PC
<1>2. i \in targets /\ main = "batch" /\ pc[i] = "unborn"
  BY DEF Spawn
<1>3. Counts'
  BY <1>1, <1>2, GoroutineMoves, SlotsPositive
     DEF Spawn, HoldingPC, LivePC, PC, IInv, Types, Counts
<1>4. Types'
  BY DEF Spawn, IInv, Types, PC
<1>5. Places'
  BY <1>1, <1>2 DEF Moves, IInv, Places, NoGoroutineOutlivesCall
<1>6. Work'
  BY <1>2 DEF Spawn, IInv, Types, Work, Stored, Told, Undecided
<1> QED BY <1>3, <1>4, <1>5, <1>6 DEF IInv

\* The send to sem succeeds only below its capacity.
LEMMA AcquireSlotIInv ==
  ASSUME IInv, NEW i \in Target, AcquireSlot(i)
  PROVE  IInv'
<1> DEFINE s == "backup"
<1>1. s \in PC /\ Moves(i, s) /\ UNCHANGED <<main, targets>>
  BY DEF AcquireSlot, Moves, IInv, Types, PC
<1>2. i \in targets /\ main = "batch" /\ pc[i] \in {"select"}
  BY UnderWay DEF AcquireSlot
<1>3. Counts'
  BY <1>1, <1>2, GoroutineMoves, SlotsPositive
     DEF AcquireSlot, HoldingPC, LivePC, PC, IInv, Types, Counts
<1>4. Types'
  BY DEF AcquireSlot, IInv, Types, PC
<1>5. Places'
  BY <1>1, <1>2 DEF Moves, IInv, Places, NoGoroutineOutlivesCall
<1>6. Work'
  BY <1>2 DEF AcquireSlot, IInv, Types, Work, Stored, Told, Undecided
<1> QED BY <1>3, <1>4, <1>5, <1>6 DEF IInv

\* The skip path stores its result and takes no slot.
LEMMA SeeCancelIInv ==
  ASSUME IInv, NEW i \in Target, SeeCancel(i)
  PROVE  IInv'
<1> DEFINE s == IF HasCallback THEN "skipReport" ELSE "exit"
<1>1. s \in PC /\ Moves(i, s) /\ UNCHANGED <<main, targets>>
  BY DEF SeeCancel, Moves, IInv, Types, PC
<1>2. i \in targets /\ main = "batch" /\ pc[i] \in {"select"}
  BY UnderWay DEF SeeCancel
<1>3. Counts'
  BY <1>1, <1>2, GoroutineMoves, SlotsPositive
     DEF SeeCancel, HoldingPC, LivePC, PC, IInv, Types, Counts
<1>4. PICK r \in Result : /\ results' = [results EXCEPT ![i] = r]
                          /\ r.name = DBName[i] /\ ~OK(r)
  <2> DEFINE skipped == [name |-> DBName[i], err |-> "ctx"]
  <2>1. skipped \in Result /\ skipped.name = DBName[i] /\ ~OK(skipped)
    BY DEF Result, Errors, OK
  <2>2. results' = [results EXCEPT ![i] = skipped]
    BY DEF SeeCancel
  <2> QED BY <2>1, <2>2
<1>5. Types'
  BY <1>1, <1>4 DEF SeeCancel, Moves, IInv, Types
<1>6. Places'
  BY <1>1, <1>2 DEF Moves, IInv, Places, NoGoroutineOutlivesCall
<1>7. Work'
  <2> SUFFICES ASSUME NEW j \in Target
               PROVE  Stored(j)' /\ Told(j)' /\ (pc'[j] = "dump" => j \in dumped')
    BY DEF Work
  <2>1. CASE j = i
    BY <1>1, <1>2, <1>4, <2>1, CallbackAssumption
       DEF SeeCancel, Moves, IInv, Types, Work, Stored, Told, Undecided, OK
  <2>2. CASE j # i
    BY <1>1, <1>4, <2>2
       DEF SeeCancel, Moves, IInv, Types, Work, Stored, Told, Undecided, OK
  <2> QED BY <2>1, <2>2
<1> QED BY <1>3, <1>5, <1>6, <1>7 DEF IInv

\* The dump tool is started with the slot held.
LEMMA DumpStartsIInv ==
  ASSUME IInv, NEW i \in Target, DumpStarts(i)
  PROVE  IInv'
<1> DEFINE s == "dump"
<1>1. s \in PC /\ Moves(i, s) /\ UNCHANGED <<main, targets>>
  BY DEF DumpStarts, Moves, IInv, Types, PC
<1>2. i \in targets /\ main = "batch" /\ pc[i] \in {"backup"}
  BY UnderWay DEF DumpStarts
<1>3. Counts'
  BY <1>1, <1>2, GoroutineMoves, SlotsPositive
     DEF DumpStarts, HoldingPC, LivePC, PC, IInv, Types, Counts
<1>4. Types'
  BY DEF DumpStarts, IInv, Types, PC
<1>5. Places'
  BY <1>1, <1>2 DEF Moves, IInv, Places, NoGoroutineOutlivesCall
<1>6. Work'
  BY <1>2 DEF DumpStarts, IInv, Types, Work, Stored, Told, Undecided
<1> QED BY <1>3, <1>4, <1>5, <1>6 DEF IInv

\* p.Backup returns: its one result is stored; it reads OK only after a dump.
LEMMA BackupReturnsIInv ==
  ASSUME IInv, NEW i \in Target, BackupReturns(i)
  PROVE  IInv'
<1> DEFINE s == IF HasCallback THEN "report" ELSE "release"
<1>1. s \in PC /\ Moves(i, s) /\ UNCHANGED <<main, targets>>
  BY DEF BackupReturns, Moves, IInv, Types, PC
<1>2. i \in targets /\ main = "batch" /\ pc[i] \in {"backup", "dump"}
  BY UnderWay DEF BackupReturns
<1>3. Counts'
  <2>1. UNCHANGED <<sem, wg>>
    BY DEF BackupReturns
  <2> QED BY <1>1, <1>2, <2>1, GoroutineMoves, SlotsPositive
          DEF HoldingPC, LivePC, PC, IInv, Types, Counts
<1>4. PICK r \in Result : /\ results' = [results EXCEPT ![i] = r]
                          /\ r.name = DBName[i] /\ (OK(r) => i \in dumped)
  <2>1. PICK res \in [name : {DBName[i], ""}, err : {"nil", "failed"}], err \in Errors :
          /\ pc[i] = "backup" => err # "nil" \/ ~OK(res)
          /\ results' = [results EXCEPT ![i] = Normalised(i, res, err)]
    BY DEF BackupReturns
  <2>2. Normalised(i, res, err) \in Result /\ Normalised(i, res, err).name = DBName[i]
    BY DBNameAssumption DEF Normalised, Result, Errors, OK
  <2>3. OK(Normalised(i, res, err)) => pc[i] = "dump"
    BY <1>2, <2>1 DEF Normalised, OK
  <2>4. pc[i] = "dump" => i \in dumped
    BY DEF IInv, Work
  <2> QED BY <2>1, <2>2, <2>3, <2>4
<1>5. Types'
  BY <1>1, <1>4 DEF BackupReturns, Moves, IInv, Types
<1>6. Places'
  BY <1>1, <1>2 DEF Moves, IInv, Places, NoGoroutineOutlivesCall
<1>7. Work'
  <2> SUFFICES ASSUME NEW j \in Target
               PROVE  Stored(j)' /\ Told(j)' /\ (pc'[j] = "dump" => j \in dumped')
    BY DEF Work
  <2>1. CASE j = i
    BY <1>1, <1>2, <1>4, <2>1, CallbackAssumption
       DEF BackupReturns, Moves, IInv, Types, Work, Stored, Told, Undecided, OK
  <2>2. CASE j # i
    BY <1>1, <1>4, <2>2
       DEF BackupReturns, Moves, IInv, Types, Work, Stored, Told, Undecided, OK
  <2> QED BY <2>1, <2>2
<1> QED BY <1>3, <1>5, <1>6, <1>7 DEF IInv

\* The callback returns; it had not been called for this target before.
LEMMA OnResultIInv ==
  ASSUME IInv, NEW i \in Target, OnResult(i)
  PROVE  IInv'
<1> DEFINE s == IF pc[i] = "report" THEN "release" ELSE "exit"
<1>1. s \in PC /\ Moves(i, s) /\ UNCHANGED <<main, targets>>
  BY DEF OnResult, Moves, IInv, Types, PC
<1>2. i \in targets /\ main = "batch" /\ pc[i] \in {"report", "skipReport"}
  BY UnderWay DEF OnResult
<1>3. Counts'
  BY <1>1, <1>2, GoroutineMoves, SlotsPositive
     DEF OnResult, HoldingPC, LivePC, PC, IInv, Types, Counts
<1>4. Types'
  <2>1. reported[i] = 0
    BY <1>2 DEF IInv, Work, Told
  <2>2. reported' \in [Target -> 0 .. 1]
    BY <2>1 DEF OnResult, IInv, Types
  <2> QED BY <1>1, <2>2 DEF OnResult, Moves, IInv, Types
<1>5. Places'
  BY <1>1, <1>2 DEF Moves, IInv, Places, NoGoroutineOutlivesCall
<1>6. Work'
  BY <1>2 DEF OnResult, IInv, Types, Work, Stored, Told, Undecided
<1> QED BY <1>3, <1>4, <1>5, <1>6 DEF IInv

\* The deferred receive gives the slot back.
LEMMA ReleaseSlotIInv ==
  ASSUME IInv, NEW i \in Target, ReleaseSlot(i)
  PROVE  IInv'
<1> DEFINE s == "exit"
<1>1. s \in PC /\ Moves(i, s) /\ UNCHANGED <<main, targets>>
  BY DEF ReleaseSlot, Moves, IInv, Types, PC
<1>2. i \in targets /\ main = "batch" /\ pc[i] \in {"release"}
  BY UnderWay DEF ReleaseSlot
<1>3. Counts'
  BY <1>1, <1>2, GoroutineMoves, SlotsPositive
     DEF ReleaseSlot, HoldingPC, LivePC, PC, IInv, Types, Counts
<1>4. Types'
  BY DEF ReleaseSlot, IInv, Types, PC
<1>5. Places'
  BY <1>1, <1>2 DEF Moves, IInv, Places, NoGoroutineOutlivesCall
<1>6. Work'
  BY <1>2 DEF ReleaseSlot, IInv, Types, Work, Stored, Told, Undecided
<1> QED BY <1>3, <1>4, <1>5, <1>6 DEF IInv

\* The deferred wg.Done is the goroutine's last step.
LEMMA GoroutineExitsIInv ==
  ASSUME IInv, NEW i \in Target, GoroutineExits(i)
  PROVE  IInv'
<1> DEFINE s == "done"
<1>1. s \in PC /\ Moves(i, s) /\ UNCHANGED <<main, targets>>
  BY DEF GoroutineExits, Moves, IInv, Types, PC
<1>2. i \in targets /\ main = "batch" /\ pc[i] \in {"exit"}
  BY UnderWay DEF GoroutineExits
<1>3. Counts'
  BY <1>1, <1>2, GoroutineMoves, SlotsPositive
     DEF GoroutineExits, HoldingPC, LivePC, PC, IInv, Types, Counts
<1>4. Types'
  BY DEF GoroutineExits, IInv, Types, PC
<1>5. Places'
  BY <1>1, <1>2 DEF Moves, IInv, Places, NoGoroutineOutlivesCall
<1>6. Work'
  BY <1>2 DEF GoroutineExits, IInv, Types, Work, Stored, Told, Undecided
<1> QED BY <1>3, <1>4, <1>5, <1>6 DEF IInv
-----------------------------------------------------------------------------
\* The invariant is inductive: one case per action.
LEMMA Inductive == IInv /\ [Next]_vars => IInv'
<1> SUFFICES ASSUME IInv, [Next]_vars PROVE IInv'
  OBVIOUS
<1>1. CASE Cancel
  <2>1. Types'
    BY <1>1 DEF Cancel, IInv, Types
  <2>2. Holding' = Holding /\ Live' = Live
    BY <1>1 DEF Cancel, Holding, Live
  <2>3. (Counts /\ Places /\ Work)'
    BY <1>1, <2>2 DEF Cancel, IInv, Counts, Places, NoGoroutineOutlivesCall,
                      Work, Stored, Told
  <2> QED BY <2>1, <2>3 DEF IInv
<1>2. CASE UNCHANGED vars
  <2>1. Types'
    BY <1>2 DEF vars, IInv, Types
  <2>2. Holding' = Holding /\ Live' = Live
    BY <1>2 DEF vars, Holding, Live
  <2>3. (Counts /\ Places /\ Work)'
    BY <1>2, <2>2 DEF vars, IInv, Counts, Places, NoGoroutineOutlivesCall,
                      Work, Stored, Told
  <2> QED BY <2>1, <2>3 DEF IInv
<1>3. ASSUME NEW i \in Target, Goroutine(i) PROVE IInv'
  BY <1>3, AcquireSlotIInv, SeeCancelIInv, DumpStartsIInv, BackupReturnsIInv,
     OnResultIInv, ReleaseSlotIInv, GoroutineExitsIInv DEF Goroutine
<1> QED BY <1>1, <1>2, <1>3, InvokeIInv, SpawnIInv, WaitReturnsIInv
        DEF Next, Finished

\* IInv holds in every reachable state.
THEOREM Invariance == Spec => []IInv
  BY InitIInv, Inductive, PTL DEF Spec

\* The semaphore bounds the backups in progress, whatever maxConcurrency is.
THEOREM SlotsAreRespected == Spec => []SlotsRespected
<1>1. IInv => SlotsRespected
  <2> SUFFICES ASSUME IInv PROVE SlotsRespected
    OBVIOUS
  <2> DEFINE busy == {i \in Target : pc[i] \in {"backup", "dump"}}
  <2>1. busy \subseteq Holding /\ Holding \subseteq Target
    BY DEF Holding, At, HoldingPC
  <2>2. /\ IsFiniteSet(Holding)
        /\ Cardinality(busy) <= Cardinality(Holding)
        /\ Cardinality(busy) \in Nat /\ Cardinality(Holding) \in Nat
    BY <2>1, TargetFinite, FS_Subset, FS_CardinalityType
  <2> QED BY <2>2, SlotsPositive DEF SlotsRespected, IInv, Counts
<1> QED BY <1>1, Invariance, PTL

\* The wait group covers every goroutine of the call.
THEOREM WaitCoversAll == Spec => []NoGoroutineOutlivesCall
  BY Invariance, PTL DEF IInv, Places

\* The returned slice is complete, in the caller's order and under the caller's
\* names, and onResult was called once for each entry.
THEOREM ResultsAreComplete == Spec => []ResultsComplete
<1>1. IInv => ResultsComplete
  BY CallbackAssumption DEF IInv, Types, Places, NoGoroutineOutlivesCall, Work,
     Stored, Told, Undecided, ResultsComplete
<1> QED BY <1>1, Invariance, PTL

\* An entry that reads OK belongs to a dump tool that was started.
THEOREM OkIsDumped == Spec => []OkMeansDumped
<1>1. IInv => OkMeansDumped
  BY DEF IInv, Types, Places, NoGoroutineOutlivesCall, Work, Stored, Undecided,
     OkMeansDumped
<1> QED BY <1>1, Invariance, PTL

\* The call does not deadlock, whatever maxConcurrency is: the channel is full
\* only while somebody holds a slot, and who holds one waits for nothing.
THEOREM NoDeadlock == Spec => []SomebodyCanRun
<1>1. IInv => SomebodyCanRun
  <2> SUFFICES ASSUME IInv, main = "batch", wg # 0
               PROVE  \E i \in targets : pc[i] # "done" /\ (pc[i] = "select" => sem < Slots)
    BY DEF SomebodyCanRun
  <2>1. CASE sem < Slots
    <3>1. Live # {}
      BY FS_EmptySet DEF IInv, Counts
    <3>2. PICK i \in Target : pc[i] \notin {"unborn", "done"}
      BY <3>1 DEF Live, LivePC, At
    <3>3. i \in targets /\ pc[i] # "done"
      BY <3>2, UnderWay
    <3> QED
      BY <2>1, <3>3
  <2>2. CASE sem = Slots
    <3>1. Cardinality(Holding) # 0
      BY <2>2, SlotsPositive DEF IInv, Counts
    <3>2. PICK i \in Target : pc[i] \in HoldingPC
      BY <3>1, FS_EmptySet DEF Holding, At
    <3>3. pc[i] \notin {"unborn", "done", "select"}
      BY <3>2 DEF HoldingPC
    <3>4. i \in targets
      BY <3>3, UnderWay
    <3> QED
      BY <3>3, <3>4
  <2> QED
    BY <2>1, <2>2, SlotsPositive DEF IInv, Types, Counts
<1> QED BY <1>1, Invariance, PTL

\* How far the caller and a goroutine are.
CallerAt(s) == CASE s = "idle" -> 0 [] s = "batch" -> 1 [] OTHER -> 2
GoroutineAt(s) ==
  CASE s = "unborn" -> 0 [] s = "select" -> 1 [] s = "backup" -> 2 [] s = "dump" -> 3
    [] s \in {"report", "skipReport"} -> 4 [] s = "release" -> 5 [] s = "exit" -> 6
    [] OTHER -> 7

\* The caller or one goroutine gets nearer to its end, and nobody goes back.
Advances ==
  \/ /\ CallerAt(main) < CallerAt(main') /\ pc' = pc
  \/ /\ main' = main
     /\ \E i \in Target : /\ GoroutineAt(pc[i]) < GoroutineAt(pc'[i])
                          /\ \A j \in Target \ {i} : pc'[j] = pc[j]

\* The call ends after a bounded number of steps, two of the caller and seven of
\* each goroutine, a single cancellation aside: nobody retries, spins or goes
\* back to wait for a slot.  With NoDeadlock, what runs does not stop before
\* the call returns.
THEOREM StepsAreBounded == Spec => [][Advances \/ Cancel]_vars
<1>1. IInv /\ [Next]_vars => [Advances \/ Cancel]_vars
  <2> SUFFICES ASSUME IInv, Next, ~ UNCHANGED vars
               PROVE  Advances \/ Cancel
    OBVIOUS
  <2>1. ASSUME NEW ts, Invoke(ts) PROVE Advances
    BY <2>1 DEF Invoke, Advances, CallerAt
  <2>2. CASE WaitReturns
    BY <2>2 DEF WaitReturns, Advances, CallerAt
  <2>3. ASSUME NEW i \in Target, Spawn(i) \/ Goroutine(i) PROVE Advances
    <3>1. pc \in [Target -> PC]
      BY DEF IInv, Types
    <3>2. main' = main /\ \A j \in Target \ {i} : pc'[j] = pc[j]
      BY <2>3, <3>1 DEF Spawn, Goroutine, AcquireSlot, SeeCancel, DumpStarts, BackupReturns,
                  OnResult, ReleaseSlot, GoroutineExits
    <3>3. GoroutineAt(pc[i]) < GoroutineAt(pc'[i])
      <4>1. CASE Spawn(i) \/ AcquireSlot(i) \/ DumpStarts(i) \/ ReleaseSlot(i) \/ GoroutineExits(i)
        BY <3>1, <4>1 DEF Spawn, AcquireSlot, DumpStarts, ReleaseSlot, GoroutineExits, GoroutineAt
      <4>2. CASE SeeCancel(i)
        BY <3>1, <4>2 DEF SeeCancel, GoroutineAt
      <4>3. CASE BackupReturns(i)
        <5>1. pc[i] \in {"backup", "dump"} /\ pc'[i] \in {"report", "release"}
          BY <3>1, <4>3 DEF BackupReturns
        <5> QED
          BY <5>1 DEF GoroutineAt
      <4>4. CASE OnResult(i)
        <5>1. pc[i] \in {"report", "skipReport"} /\ pc'[i] \in {"release", "exit"}
          BY <3>1, <4>4 DEF OnResult
        <5> QED
          BY <5>1 DEF GoroutineAt
      <4> QED
        BY <2>3, <4>1, <4>2, <4>3, <4>4 DEF Goroutine
    <3> QED
      BY <3>2, <3>3 DEF Advances
  <2> QED
    BY <2>1, <2>2, <2>3 DEF Next, Finished
<1> QED BY <1>1, Invariance, PTL DEF Spec

\* Every variable keeps its type; sem and wg stay within their bounds.
THEOREM TypeCorrect == Spec => []TypeOK
<1>1. IInv => TypeOK
  <2> SUFFICES ASSUME IInv PROVE TypeOK
    OBVIOUS
  <2>1. Cardinality(Live) \in Nat /\ Cardinality(Live) <= N
    BY TargetFinite, FS_Subset, FS_CardinalityType DEF Live, At
  <2>2. Cardinality(Holding) \in Nat
    BY TargetFinite, FS_Subset, FS_CardinalityType DEF Holding, At
  <2>3. sem \in 0 .. Slots /\ wg \in 0 .. N
    BY <2>1, <2>2, SlotsPositive, NAssumption DEF IInv, Counts
  <2> QED BY <2>3 DEF IInv, Types, TypeOK
<1> QED BY <1>1, Invariance, PTL

\* A stored result is never overwritten.
THEOREM StoredOnlyOnce == Spec => StoredOnce
<1> DEFINE Kept == \A i \in Target : results[i] # Unset => results'[i] = results[i]
<1>1. IInv /\ [Next]_vars => Kept
  <2> SUFFICES ASSUME IInv, [Next]_vars, NEW j \in Target, results[j] # Unset
               PROVE  results'[j] = results[j]
    OBVIOUS
  <2>1. pc[j] \notin Undecided
    BY DEF IInv, Work, Stored
  <2>2. CASE UNCHANGED results
    BY <2>2
  <2>3. ASSUME NEW i \in Target, SeeCancel(i) \/ BackupReturns(i)
        PROVE  results'[j] = results[j]
    <3>1. i # j
      BY <2>1, <2>3 DEF SeeCancel, BackupReturns, Undecided
    <3> QED BY <2>3, <3>1 DEF SeeCancel, BackupReturns, IInv, Types
  <2> QED BY <2>2, <2>3 DEF Next, Goroutine, Invoke, Spawn, AcquireSlot, DumpStarts,
             OnResult, ReleaseSlot, GoroutineExits, WaitReturns, Cancel, Finished, vars
<1> QED BY <1>1, Invariance, PTL DEF Spec, StoredOnce
-----------------------------------------------------------------------------
\* The refinement: inside p.Backup is "active", everything else a goroutine does
\* between its result and its end is invisible or tells the caller.
Active == {i \in Target : pc[i] \in {"backup", "dump"}}

\* The initial states correspond.
LEMMA ContractInit == Init => Contract!Init
  BY DEF Init, Contract!Init

\* Which targets are active after goroutine i has moved to s.
LEMMA ActiveMoves ==
  ASSUME IInv, NEW i \in Target, NEW s \in PC, Moves(i, s)
  PROVE  Active' = IF s \in {"backup", "dump"} THEN Active \cup {i} ELSE Active \ {i}
<1>1. CASE s \in {"backup", "dump"}
  BY <1>1 DEF Moves, Active
<1>2. CASE s \notin {"backup", "dump"}
  BY <1>2 DEF Moves, Active
<1> QED BY <1>1, <1>2

\* The entries of the slice that hold a result.
Entered == {i \in Target : results[i] # Unset}

\* A step that writes one entry at most enters one target at most.
LEMMA OneEntered ==
  ASSUME IInv, NEW i \in Target, NEW r, results' = [results EXCEPT ![i] = r],
         results[i] = Unset
  PROVE  Entered' \in {Entered, Entered \cup {i}}
<1>1. \A j \in Target \ {i} : results'[j] = results[j]
  BY DEF IInv, Types
<1>2. Entered' \subseteq Entered \cup {i} /\ Entered \subseteq Entered'
  BY <1>1 DEF Entered
<1> QED BY <1>2

\* Taking a slot is the contract's Start.
LEMMA AcquireSlotStarts ==
  ASSUME IInv, NEW i \in Target, AcquireSlot(i)
  PROVE  Contract!Start(i)
<1>1. Moves(i, "backup") /\ "backup" \in PC /\ pc[i] = "select"
  BY DEF AcquireSlot, Moves, IInv, Types, PC
<1>2. Active' = Active \cup {i} /\ i \notin Active
  BY <1>1, ActiveMoves DEF Active
<1>3. i \in targets /\ main = "batch" /\ results[i] = Unset
  BY <1>1, UnderWay DEF IInv, Work, Stored, Undecided
<1>4. Cardinality(Active) < Slots
  <2>1. Active \subseteq Holding /\ Holding \subseteq Target
    BY DEF Active, Holding, At, HoldingPC
  <2>2. /\ Cardinality(Active) <= Cardinality(Holding)
        /\ Cardinality(Active) \in Nat /\ Cardinality(Holding) \in Nat
    BY <2>1, TargetFinite, FS_Subset, FS_CardinalityType
  <2> QED BY <2>2, SlotsPositive DEF AcquireSlot, IInv, Counts
<1> QED BY <1>2, <1>3, <1>4
        DEF AcquireSlot, Contract!Start, Active, Contract!Cardinality, Cardinality

\* Seeing the cancellation is its Skip.
LEMMA SeeCancelSkips ==
  ASSUME IInv, NEW i \in Target, SeeCancel(i)
  PROVE  Contract!Skip(i)
<1> DEFINE s == IF HasCallback THEN "skipReport" ELSE "exit"
<1>1. Moves(i, s) /\ s \in PC /\ pc[i] = "select"
  BY DEF SeeCancel, Moves, IInv, Types, PC
<1>2. Active' = Active /\ i \notin Active
  BY <1>1, ActiveMoves DEF Active
<1>3. i \in targets /\ main = "batch" /\ results[i] = Unset
  BY <1>1, UnderWay DEF IInv, Work, Stored, Undecided
<1>4. Entered' \in {Entered, Entered \cup {i}}
  BY <1>3, OneEntered DEF SeeCancel
<1> QED BY <1>2, <1>3, <1>4 DEF SeeCancel, Contract!Skip, Active, Entered

\* Storing the result of p.Backup is its Finish.
LEMMA BackupReturnsFinishes ==
  ASSUME IInv, NEW i \in Target, BackupReturns(i)
  PROVE  Contract!Finish(i)
<1> DEFINE s == IF HasCallback THEN "report" ELSE "release"
<1>1. Moves(i, s) /\ s \in PC /\ pc[i] \in {"backup", "dump"}
  BY DEF BackupReturns, Moves, IInv, Types, PC
<1>2. Active' = Active \ {i} /\ i \in Active
  BY <1>1, ActiveMoves DEF Active
<1>3. i \in targets /\ main = "batch"
  BY <1>1, UnderWay
<1>4. PICK res \in [name : {DBName[i], ""}, err : {"nil", "failed"}], err \in Errors :
        results' = [results EXCEPT ![i] = Normalised(i, res, err)]
  BY DEF BackupReturns
<1>5. Normalised(i, res, err) \in [name : {DBName[i]}, err : Errors]
  BY DEF Normalised, Errors, OK
<1>6. results[i] = Unset
  BY <1>1 DEF IInv, Work, Stored, Undecided
<1>7. Entered' \in {Entered, Entered \cup {i}}
  BY <1>4, <1>6, OneEntered
<1> QED BY <1>2, <1>3, <1>4, <1>5, <1>7 DEF BackupReturns, Contract!Finish, Active, Entered

\* A result that carries a name is not the zero result.
LEMMA NamedIsSet ==
  ASSUME NEW r, NEW i \in Target, r.name = DBName[i]
  PROVE  r # Unset
<1>1. Unset.name = ""
  BY DEF Unset
<1>2. DBName[i] # ""
  BY DBNameAssumption
<1> QED BY <1>1, <1>2

\* The callback is its Tell.
LEMMA OnResultTells ==
  ASSUME IInv, NEW i \in Target, OnResult(i)
  PROVE  Contract!Tell(i)
<1> DEFINE s == IF pc[i] = "report" THEN "release" ELSE "exit"
<1>1. Moves(i, s) /\ s \in PC /\ pc[i] \in {"report", "skipReport"}
  BY DEF OnResult, Moves, IInv, Types, PC
<1>2. Active' = Active
  BY <1>1, ActiveMoves DEF Active
<1>3. results[i].name = DBName[i] /\ reported[i] = 0
  BY <1>1 DEF IInv, Work, Stored, Told, Undecided
<1>4. i \in targets /\ main = "batch" /\ results[i] # Unset
  BY <1>1, <1>3, UnderWay, NamedIsSet
<1> QED BY <1>2, <1>3, <1>4 DEF OnResult, Contract!Tell, Active, IInv, Types

\* The end of wg.Wait is its Return.
LEMMA WaitReturnsReturns ==
  ASSUME IInv, WaitReturns
  PROVE  Contract!Return
<1>1. \A i \in targets : pc[i] = "done"
  BY WaitReturnsIInv DEF WaitReturns, IInv, Places, NoGoroutineOutlivesCall
<1>2. Active = {} /\ Active' = Active
  BY <1>1 DEF WaitReturns, IInv, Places, Active
<1>3. \A i \in targets : /\ i \in Target /\ results[i].name = DBName[i]
                         /\ HasCallback => reported[i] = 1
  BY <1>1 DEF IInv, Types, Work, Stored, Told, Undecided
<1>4. ASSUME NEW i \in targets PROVE results[i] # Unset
  <2>1. i \in Target /\ results[i].name = DBName[i]
    BY <1>3
  <2> QED BY <2>1, NamedIsSet
<1>5. main = "batch" /\ main' = "returned" /\ UNCHANGED <<targets, pc, results, reported>>
  BY DEF WaitReturns
<1>6. targets \subseteq Entered
  BY <1>3, <1>4 DEF Entered
<1> QED BY <1>2, <1>3, <1>5, <1>6 DEF Contract!Return, Active, Entered

\* The steps that the contract does not see.
LEMMA Invisible ==
  ASSUME IInv, NEW i \in Target,
         Spawn(i) \/ DumpStarts(i) \/ ReleaseSlot(i) \/ GoroutineExits(i)
  PROVE  UNCHANGED Contract!contractVars
<1>1. Active' = Active
  BY DEF Spawn, DumpStarts, ReleaseSlot, GoroutineExits, Active, IInv, Types
<1> QED BY <1>1 DEF Spawn, DumpStarts, ReleaseSlot, GoroutineExits,
                    Contract!contractVars, Active

\* BackupAllWithProgress keeps what its callers rely on: it implements BatchContract.
THEOREM Refinement == Spec => ImplementsContract
<1>1. IInv /\ [Next]_vars => [Contract!Next]_(Contract!contractVars)
  <2> SUFFICES ASSUME IInv, [Next]_vars
               PROVE  [Contract!Next]_(Contract!contractVars)
    OBVIOUS
  <2>1. ASSUME NEW ts \in SUBSET Target, Invoke(ts)
        PROVE  Contract!Call(ts)
    BY <2>1 DEF Invoke, Contract!Call
  <2>2. CASE Cancel \/ UNCHANGED vars
    BY <2>2 DEF Cancel, vars, Contract!contractVars
  <2> QED BY <2>1, <2>2, AcquireSlotStarts, SeeCancelSkips, BackupReturnsFinishes,
             OnResultTells, WaitReturnsReturns, Invisible
          DEF Next, Goroutine, Finished, Contract!Next
<1> QED BY <1>1, ContractInit, Invariance, PTL
        DEF Spec, ImplementsContract, Contract!Spec
=============================================================================

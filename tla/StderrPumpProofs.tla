-------------------------- MODULE StderrPumpProofs --------------------------
(***************************************************************************)
(* Proofs about runWithProgress and the verdict of Restore, for any tool   *)
(* that writes any lines through a pipe of any capacity.  The argument:    *)
(* lines are delivered after they are read and read after they are         *)
(* written, the caller returns after the reader has stopped, and a summary *)
(* that was read is the last line, so that nothing is missing before it.   *)
(***************************************************************************)
EXTENDS StderrPump, TLAPS

USE RunsAssumption, PipeAssumption

Counts ==
  /\ called \in Nat /\ got \in Nat /\ out \in Nat
  /\ called <= got /\ got <= out /\ out <= Len(child.lines)

Kinds ==
  /\ child \in Runs
  /\ process \in {"running", "exited", "killed"}
  /\ open \in BOOLEAN /\ cancelled \in BOOLEAN
  /\ scanner \in {"scanning", "stopped"}
  /\ waiter \in {"waiting", "reaped", "returned"}

\* A process that exited has written everything; who returned has waited for the
\* process and for the reader.
Order ==
  /\ process = "exited" => out = Len(child.lines)
  /\ waiter # "waiting" => process # "running"
  /\ waiter = "returned" => scanner = "stopped"

IInv == Counts /\ Kinds /\ Order

LEMMA Lengths == child \in Runs => Len(child.lines) \in Nat
  OBVIOUS

LEMMA Invariance == Spec => []IInv
<1>1. Init => IInv
  <2> SUFFICES ASSUME Init PROVE IInv
    OBVIOUS
  <2>1. open \in BOOLEAN /\ cancelled \in BOOLEAN
    BY Zenon DEF Init
  <2>2. Counts
    BY Lengths DEF Init, Counts
  <2>3. /\ child \in Runs /\ process = "running"
        /\ scanner = "scanning" /\ waiter = "waiting"
    BY DEF Init
  <2> QED
    BY <2>1, <2>2, <2>3 DEF IInv, Kinds, Order
<1>2. IInv /\ [Next]_vars => IInv'
  <2> SUFFICES ASSUME IInv, [Next]_vars PROVE IInv'
    OBVIOUS
  <2> USE Lengths DEF IInv, Counts, Kinds, Order
  <2>1. CASE ChildWrites
    BY <2>1 DEF ChildWrites
  <2>2. CASE ChildExits
    BY <2>2 DEF ChildExits
  <2>3. CASE Cancel
    BY <2>3 DEF Cancel
  <2>4. CASE ChildKilled
    BY <2>4 DEF ChildKilled
  <2>5. CASE Read
    BY <2>5 DEF Read
  <2>6. CASE Deliver
    BY <2>6 DEF Deliver
  <2>7. CASE ScanEnds
    BY <2>7 DEF ScanEnds
  <2>8. CASE WaitReaps
    BY <2>8 DEF WaitReaps
  <2>9. CASE Returns
    BY <2>9 DEF Returns
  <2>10. CASE UNCHANGED vars
    BY <2>10 DEF vars
  <2> QED
    BY <2>1, <2>2, <2>3, <2>4, <2>5, <2>6, <2>7, <2>8, <2>9, <2>10 DEF Next, Finished
<1> QED
  BY <1>1, <1>2, PTL DEF Spec

\* What was collected is a beginning of what was written, all of it if all was
\* read.
LEMMA CollectedLines ==
  ASSUME child \in Runs, got \in Nat, got <= Len(child.lines)
  PROVE  /\ Len(Collected) = got
         /\ \A n \in 1 .. got : Collected[n] = child.lines[n]
         /\ got = Len(child.lines) => Collected = child.lines
<1>1. child.lines \in Seq(LineKinds)
  OBVIOUS
<1>2. Len(Collected) = got /\ \A n \in 1 .. got : Collected[n] = child.lines[n]
  BY <1>1 DEF Collected
<1>3. Collected \in Seq(LineKinds)
  BY <1>1 DEF Collected
<1> QED
  BY <1>1, <1>2, <1>3

\* The summary is the last that pg_restore writes; what it quotes before is free.
SummaryIsLast ==
  \A r \in Runs : r.tool # "psql" =>
    \A n \in 1 .. Len(r.lines) : r.lines[n] = "summary" => n = Len(r.lines)

LEMMA WarnedReadAll ==
  ASSUME SummaryIsLast, IInv, Verdict = "warned", ~Mentions(Collected, {"quoted"})
  PROVE  got = Len(child.lines)
<1>1. IgnoredErrors /\ ~Plain
  BY DEF Verdict
<1>2. PICK n \in DOMAIN Collected : Collected[n] = "summary"
  BY <1>1 DEF IgnoredErrors, Mentions
<1>3. Collected \in Seq(LineKinds)
  BY DEF Collected, IInv, Kinds, Counts
<1>4. n \in 1 .. got /\ child.lines[n] = "summary" /\ got <= Len(child.lines)
  BY <1>2, <1>3, CollectedLines DEF IInv, Kinds, Counts
<1>5. n = Len(child.lines)
  BY <1>1, <1>4 DEF SummaryIsLast, Plain, IInv, Kinds, Counts
<1> QED
  BY <1>4, <1>5 DEF IInv, Counts
-----------------------------------------------------------------------------
\* Lines are delivered after they are read and read after they are written, and
\* the other variables keep their types.
THEOREM TypeCorrect == Spec => []TypeOK
<1>1. IInv => TypeOK
  BY Lengths DEF IInv, Counts, Kinds, TypeOK
<1> QED
  BY <1>1, Invariance, PTL

\* Once runWithProgress has returned onLine is not called any more.
THEOREM NoLateCallback == Spec => NoCallbackAfterReturn
<1>1. IInv /\ [Next]_vars => [waiter = "returned" => called' = called]_vars
  BY DEF IInv, Order, Next, ChildWrites, ChildExits, Cancel, ChildKilled, Read, Deliver,
         ScanEnds, WaitReaps, Returns, Finished, vars
<1> QED
  BY <1>1, Invariance, PTL DEF Spec, NoCallbackAfterReturn

\* With a success that rests on the summary come all the errors that were skipped,
\* however much of the text was lost with the pipe, provided that pg_restore writes
\* its summary last.
THEOREM WarningsAreComplete ==
  ASSUME SummaryIsLast
  PROVE  Spec => []WarningsComplete
<1>1. IInv => WarningsComplete
  BY WarnedReadAll, CollectedLines, Lengths
     DEF WarningsComplete, Warnings, IInv, Counts, Kinds
<1> QED
  BY <1>1, Invariance, PTL
-----------------------------------------------------------------------------
(* Termination, as far as it does not rest on fairness.                    *)

\* bufio.Scanner takes every line.
NoLongLine == \A r \in Runs : \A n \in 1 .. Len(r.lines) : r.lines[n] # "long"

\* While the process runs the pipe is open and the reader reads it.
PipeIsRead == process = "running" => open /\ scanner = "scanning"

\* Who waits for done finds the pipe closed, which ends the reader.
PipeIsClosed == waiter # "waiting" => ~open

LEMMA PipeInvariance == ASSUME NoLongLine PROVE Spec => [](PipeIsRead /\ PipeIsClosed)
<1>1. Init => PipeIsRead /\ PipeIsClosed
  BY DEF Init, PipeIsRead, PipeIsClosed
<1>2. IInv /\ PipeIsRead /\ PipeIsClosed /\ [Next]_vars => (PipeIsRead /\ PipeIsClosed)'
  <2> SUFFICES ASSUME IInv, PipeIsRead, PipeIsClosed, [Next]_vars
               PROVE  (PipeIsRead /\ PipeIsClosed)'
    OBVIOUS
  <2>1. CASE Deliver
    <3>1. called + 1 \in 1 .. Len(child.lines)
      BY <2>1, Lengths DEF Deliver, IInv, Counts, Kinds
    <3>2. child.lines[called + 1] # "long"
      BY <3>1 DEF NoLongLine, IInv, Kinds
    <3> QED
      BY <2>1, <3>2 DEF Deliver, PipeIsRead, PipeIsClosed
  <2>2. CASE ChildWrites \/ ChildExits \/ Cancel \/ ChildKilled \/ Read \/ UNCHANGED vars
    BY <2>2 DEF ChildWrites, ChildExits, Cancel, ChildKilled, Read, vars, PipeIsRead, PipeIsClosed
  <2>3. CASE ScanEnds \/ WaitReaps \/ Returns
    BY <2>3 DEF ScanEnds, WaitReaps, Returns, IInv, Order, PipeIsRead, PipeIsClosed
  <2> QED
    BY <2>1, <2>2, <2>3 DEF Next, Finished
<1> QED
  BY <1>1, <1>2, Invariance, PTL DEF Spec

\* The tool, the reader and the caller do not deadlock, whatever is written and
\* however little the pipe holds, provided that no line is too long for the
\* scanner; a reader that such a line has stopped leaves a full pipe to the tool.
THEOREM NoDeadlock ==
  ASSUME NoLongLine
  PROVE  Spec => []SomebodyCanRun
<1>1. IInv /\ PipeIsRead /\ PipeIsClosed => SomebodyCanRun
  BY Lengths DEF IInv, Counts, Kinds, Order, PipeIsRead, PipeIsClosed, SomebodyCanRun
<1> QED
  BY <1>1, Invariance, PipeInvariance, PTL

\* How far the tool, the reader and the caller are.
ToolAt(s) == IF s = "running" THEN 0 ELSE 1
ReaderAt(s) == IF s = "scanning" THEN 0 ELSE 1
CallerAt(s) == CASE s = "waiting" -> 0 [] s = "reaped" -> 1 [] OTHER -> 2

\* One more line is written, read or delivered, or one of the three gets nearer
\* to its end; and nobody goes back.
Advances ==
  /\ child' = child
  /\ out <= out' /\ got <= got' /\ called <= called'
  /\ ToolAt(process) <= ToolAt(process')
  /\ ReaderAt(scanner) <= ReaderAt(scanner')
  /\ CallerAt(waiter) <= CallerAt(waiter')
  /\ \/ out < out' \/ got < got' \/ called < called'
     \/ ToolAt(process) < ToolAt(process')
     \/ ReaderAt(scanner) < ReaderAt(scanner')
     \/ CallerAt(waiter) < CallerAt(waiter')

\* runWithProgress takes a bounded number of steps, three for each line of the
\* tool and four to end, a single cancellation aside.
THEOREM StepsAreBounded == Spec => [][Advances \/ Cancel]_vars
<1>1. IInv /\ [Next]_vars => [Advances \/ Cancel]_vars
  <2> SUFFICES ASSUME IInv, Next, ~ UNCHANGED vars PROVE Advances \/ Cancel
    OBVIOUS
  <2> USE Lengths DEF IInv, Counts, Kinds, Advances, ToolAt, ReaderAt, CallerAt
  <2>1. CASE ChildWrites \/ Read
    BY <2>1 DEF ChildWrites, Read
  <2>2. CASE ChildExits \/ ChildKilled
    BY <2>2 DEF ChildExits, ChildKilled
  <2>3. CASE Deliver \/ ScanEnds
    BY <2>3 DEF Deliver, ScanEnds
  <2>4. CASE WaitReaps \/ Returns
    BY <2>4 DEF WaitReaps, Returns
  <2> QED
    BY <2>1, <2>2, <2>3, <2>4 DEF Next, Finished
<1> QED
  BY <1>1, Invariance, PTL DEF Spec
=============================================================================

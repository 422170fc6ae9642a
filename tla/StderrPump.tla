----------------------------- MODULE StderrPump -----------------------------
(***************************************************************************)
(* runWithProgress (providers/postgres/postgres.go) and what Restore makes *)
(* of its outcome.  The child process (pg_dump, pg_restore, psql) writes   *)
(* lines to a pipe of bounded capacity; a goroutine reads them in chunks,  *)
(* through a TeeReader that keeps the text, and hands each line to onLine; *)
(* the caller waits for the process, and then for the goroutine.           *)
(*                                                                         *)
(* os/exec is external: Wait closes the reading end of the pipe as soon as *)
(* the process has been reaped, whatever is left in it; cancelling the     *)
(* context kills the process.  A bufio.Scanner gives up at a line longer   *)
(* than its buffer (64 KiB).                                               *)
(***************************************************************************)
EXTENDS Integers, Sequences

CONSTANTS Runs,      \* what the child may do: records [tool, lines, code]
          PipeCap    \* lines the pipe holds before a write blocks

\* What a line is: the start of a table, an error, pg_restore's count of ignored
\* errors, a statement that quotes its words, a line over 64 KiB, anything else.
LineKinds == {"table", "error", "summary", "quoted", "long", "other"}

ASSUME RunsAssumption == \A r \in Runs : r.lines \in Seq(LineKinds)
ASSUME PipeAssumption == PipeCap \in Nat \ {0}

VARIABLES child,      \* the run of the child, chosen when it starts
          out,        \* lines written to the pipe
          process,    \* "running", "exited" or "killed"
          open,       \* is the reading end open?
          got,        \* lines read from the pipe, now in buf
          called,     \* lines handed to onLine
          scanner,    \* "scanning" or "stopped" (done is closed)
          waiter,     \* the caller: "waiting", "reaped" or "returned"
          cancelled

vars == <<child, out, process, open, got, called, scanner, waiter, cancelled>>

Init ==
  /\ child \in Runs
  /\ out = 0 /\ got = 0 /\ called = 0
  /\ process = "running" /\ open = TRUE
  /\ scanner = "scanning" /\ waiter = "waiting"
  /\ cancelled = FALSE

\* The child writes its next line, or blocks while the pipe is full.
ChildWrites ==
  /\ process = "running"
  /\ out < Len(child.lines) /\ out - got < PipeCap
  /\ out' = out + 1
  /\ UNCHANGED <<child, process, open, got, called, scanner, waiter, cancelled>>

ChildExits ==
  /\ process = "running" /\ out = Len(child.lines)
  /\ process' = "exited"
  /\ UNCHANGED <<child, out, open, got, called, scanner, waiter, cancelled>>

Cancel ==
  /\ ~cancelled
  /\ cancelled' = TRUE
  /\ UNCHANGED <<child, out, process, open, got, called, scanner, waiter>>

ChildKilled ==
  /\ cancelled /\ process = "running"
  /\ process' = "killed"
  /\ UNCHANGED <<child, out, open, got, called, scanner, waiter, cancelled>>

Read_AfterWait ==
  /\ scanner = "scanning" /\ called = got
  /\ process # "running"
  /\ open /\ got < out
  /\ got' \in got + 1 .. out
  /\ UNCHANGED <<child, out, process, open, called, scanner, waiter, cancelled>>

\* The scanner has used up what it had and reads some of what the pipe holds.
Read ==
  /\ scanner = "scanning" /\ called = got
  /\ open /\ got < out
  /\ got' \in got + 1 .. out
  /\ UNCHANGED <<child, out, process, open, called, scanner, waiter, cancelled>>

Deliver_EndsAtError ==
  /\ scanner = "scanning" /\ called < got
  /\ IF child.lines[called + 1] \in {"long", "error"}
       THEN scanner' = "stopped" /\ UNCHANGED called
       ELSE called' = called + 1 /\ UNCHANGED scanner
  /\ UNCHANGED <<child, out, process, open, got, waiter, cancelled>>

\* scanner.Scan returns a line and onLine runs; too long a line ends the loop.
Deliver ==
  /\ scanner = "scanning" /\ called < got
  /\ IF child.lines[called + 1] = "long"
       THEN scanner' = "stopped" /\ UNCHANGED called
       ELSE called' = called + 1 /\ UNCHANGED scanner
  /\ UNCHANGED <<child, out, process, open, got, waiter, cancelled>>

\* The read returns EOF, or the error of a closed file.
ScanEnds ==
  /\ scanner = "scanning" /\ called = got
  /\ ~open \/ (process # "running" /\ got = out)
  /\ scanner' = "stopped"
  /\ UNCHANGED <<child, out, process, open, got, called, waiter, cancelled>>

\* cmd.Wait.
WaitReaps ==
  /\ waiter = "waiting" /\ process # "running"
  /\ waiter' = "reaped" /\ open' = FALSE
  /\ UNCHANGED <<child, out, process, got, called, scanner, cancelled>>

Returns_NotWaitingForDone ==
  /\ waiter = "reaped"
  /\ waiter' = "returned"
  /\ UNCHANGED <<child, out, process, open, got, called, scanner, cancelled>>

\* The receive from done, and the return.
Returns ==
  /\ waiter = "reaped" /\ scanner = "stopped"
  /\ waiter' = "returned"
  /\ UNCHANGED <<child, out, process, open, got, called, scanner, cancelled>>

Finished == waiter = "returned" /\ UNCHANGED vars

Next ==
  \/ ChildWrites \/ ChildExits \/ Cancel \/ ChildKilled
  \/ Read \/ Deliver \/ ScanEnds
  \/ WaitReaps \/ Returns \/ Finished

\* The child goes on unless it blocks, the kernel delivers, goroutines run.
Fairness ==
  /\ WF_vars(ChildWrites \/ ChildExits \/ ChildKilled)
  /\ WF_vars(Read \/ Deliver \/ ScanEnds)
  /\ WF_vars(WaitReaps \/ Returns)

Spec == Init /\ [][Next]_vars
FairSpec == Spec /\ Fairness
-----------------------------------------------------------------------------
Collected_LastLines ==
  SubSeq(child.lines, IF got > 2 THEN got - 1 ELSE 1, got)

\* What buf holds.
Collected == SubSeq(child.lines, 1, got)

Mentions(text, kinds) == \E n \in DOMAIN text : text[n] \in kinds

\* ignoredErrorsRe matches anywhere in the text, so also in a statement that
\* pg_restore quotes after "Command was:".
IgnoredErrors == Mentions(Collected, {"summary", "quoted"})

Warnings == SelectSeq(Collected, LAMBDA line : line = "error")

Plain == child.tool = "psql"

ExitedCleanly == process = "exited" /\ child.code = 0

\* What Restore returns, once runWithProgress has.
Verdict ==
  CASE waiter # "returned" -> "none"
    [] waiter = "returned" /\ ExitedCleanly -> "ok"
    [] waiter = "returned" /\ ~ExitedCleanly /\ IgnoredErrors /\ ~Plain -> "warned"
    [] OTHER -> "failed"

TypeOK ==
  /\ child \in Runs
  /\ called \in 0 .. got /\ got \in 0 .. out /\ out \in 0 .. Len(child.lines)
  /\ process \in {"running", "exited", "killed"}
  /\ open \in BOOLEAN /\ cancelled \in BOOLEAN
  /\ scanner \in {"scanning", "stopped"}
  /\ waiter \in {"waiting", "reaped", "returned"}

\* The tool came to its end and its text ends in the summary.
RanToCompletion ==
  process = "exited" /\ child.lines # <<>> /\ child.lines[Len(child.lines)] = "summary"

\* What parseIgnoredErrors is said to report: a non-zero exit that counts as a
\* success is that of a tool that "ran to completion and only skipped individual
\* failing statements".  The code looks for the words anywhere in the text, so a
\* quotation of them before the tool fails, or is killed, is enough.
WarnedMeansCompleted == Verdict = "warned" => RanToCompletion

\* With a success that rests on the summary come all the errors that were
\* skipped, none is lost.
WarningsComplete ==
  Verdict = "warned" /\ ~Mentions(Collected, {"quoted"}) =>
    Warnings = SelectSeq(child.lines, LAMBDA line : line = "error")

\* Once runWithProgress has returned onLine is not called any more: the caller
\* may end the program that its callback sends to.
NoCallbackAfterReturn == [][waiter = "returned" => called' = called]_vars

\* The tool, the reader and the caller do not wait for each other in a circle: a
\* full pipe has a reader, a reader without text a tool that still writes or an
\* end to see, and who waits for done a reader that will close it.
SomebodyCanRun ==
  waiter # "returned" =>
    \/ process = "running" /\ (out = Len(child.lines) \/ out - got < PipeCap)
    \/ scanner = "scanning" /\ (called < got \/ ~open \/ got < out \/ process # "running")
    \/ waiter = "waiting" /\ process # "running"
    \/ waiter = "reaped" /\ scanner = "stopped"

\* Lines reach onLine "as it arrives (rather than only after the process
\* exits)": a running child does not wait for ever on a line it has written;
\* and runWithProgress returns.
NothingBlocks ==
  /\ \A n \in 1 .. 6 : out >= n /\ process = "running" ~> called >= n \/ process # "running"
  /\ waiter = "waiting" ~> waiter = "returned"
=============================================================================

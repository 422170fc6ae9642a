# iko-dbsnap in TLA+

`dbsnap` backs up and restores PostgreSQL databases by driving `pg_dump`,
`pg_restore` and `psql`. It is a small program, but most of what can go wrong
in it happens between actors: goroutines that share a channel and a slice, a
terminal event loop that owns the state while commands run beside it, a pipe
read by one goroutine and closed by another, a server that other clients change
between two steps of a restore. These modules model those parts, TLC checks
them on small instances, and TLAPS proves the core for every instance.

Paths below are relative to the repository (`src/` in `PROJECT.json`).

## Inventory

| Component | State it keeps | Operations | What is hard |
|---|---|---|---|
| `core.BackupAllWithProgress` (`core/manager.go`) | result slice, `sem` channel, wait group | spawn a goroutine per target, acquire a slot or see the cancellation, back up, store, call `onResult`, wait | interleavings, cancellation racing a free slot, errors normalised into results |
| `tui.Run` (`internal/tui/backup.go`) | `model`: stage, dbStates, pending counters, `userAborted` | ping, list, inspect, report, confirm, batch, progress, summary; keys | asynchronous quit, messages after it, callbacks that block on the loop, SIGTERM |
| `postgres.runWithProgress` and the verdict of `Restore` (`providers/postgres/postgres.go`) | pipe, buffer, `done` | read lines, call `onLine`, `Wait`, judge the text | pipe closed before it is drained, a full pipe nobody reads, a text that decides success |
| restore plan (`core/restore.go`, `InspectArchive`) | none (reads the file and the list of databases) | inspect, resolve the name, check existence, suggest | stale list, two inferences of the format, length limit |
| `postgres.Restore` / `CreateDatabase` | the server's databases | validate, create, start the tool, judge | create and connect are separate, crashes, lost answers, other clients |
| `tui.RunRestore` (`internal/tui/restore.go`) | `restoreModel`: stage, result, `userAborted` | confirm, restore, verify, summarize; keys | as in `tui.Run`; a zero result that reads OK |
| `cmd/dbsnap` | the flags' values | parse arguments, pre-flight, choose interactive or plain, exit code | arguments parsed twice, offered commands |
| `postgres.Backup` | the output directory | name, dump, check the file | names with one-second resolution, partial files |
| `postgres.Inspect` (`providers/postgres/inspect.go`) | list of tables, `sem`, wait group, counts, errors | list, one goroutine per table, first error, group by schema | bounded fan-out, an error beside successes |
| wrapper script (`docs/ugreen-nas.md`) | dump files by age | back up, prune | pruning of another database's dumps |
| rendering (`View` functions) | none (reads the model) | one screen per stage | a zero value that reads as success; modelled as far as a screen makes a claim |
| registry, connection strings, `core.CheckDatabases`, deployment script, Dockerfile | none that changes | | not modelled, see the end |

How they interact: `runBackup` calls `BackupAll` directly or through `tui.Run`,
whose command runs the batch and whose callbacks send messages to the loop; the
batch calls `Provider.Backup`, which runs `pg_dump` under `runWithProgress`;
the wrapper script reads the exit code and prunes the directory. Before the
confirmation `tui.Run` calls `Inspect` for each database it found.
`runRestore` calls `PlanRestore`, then `Provider.Restore` directly or through
`tui.RunRestore`; `Restore` creates the database and runs a tool under
`runWithProgress`. Cancellation travels by context from the event loop to the
processes.

What makes each one correct: the batch returns one result per target, its own,
never more processes than slots, nothing left running, no failure that reads as
success; the two interactive programs end, start their work once and only after
the confirmation, and report only what is true; the pump returns a text that
supports the verdict and never blocks the tool; the restore writes only to a
database that it created, changes nothing when it refuses, and offers a command
that works; a backup that is reported OK is a whole dump of that database, and
pruning spares what the pruning job itself relies on; an inspection reports
every table once or fails as a whole; arguments mean the same on both sides of
the file.

## Modules

| Module | Models | State and actions |
|---|---|---|
| `BatchContract` | what a caller of `BackupAllWithProgress` relies on, target by target; the order of storing and telling, which the doc comment and the code give differently, is left open. `InspectTables` implements it as well | `Call`, `Start`, `Finish`, `Skip`, `Store`, `Tell`, `Return` |
| `BackupBatch` | `BackupAllWithProgress` | `main` is the caller, `pc[i]` the goroutine of target i, `sem` the tokens, `wg` the wait group, `results` the slice; one action per step of the goroutine |
| `BackupBatchProofs` | proofs about `BackupBatch` | |
| `BackupTui` | `tui.Run`, composed with `BackupBatch` | the fields of `model`, `cmds` for the commands whose message is outstanding, `autoConfirm` for `-yes`, the history variables `terminated` for a SIGTERM and `said` for the keys that answered the report (set by the keys, never by what starts the batch); one action per message handler and key, `LoopBreaks` for an event loop that ends with an error; `Line(i)` is what the screen says of database i |
| `BackupTuiProofs` | proofs about `BackupTui`, on top of those about the batch | |
| `StderrPump` | `runWithProgress`, `parseIgnoredErrors`, the end of `Restore` | `out`, `got`, `called` count the lines written, read and delivered; the child, the goroutine and the caller each have their actions |
| `StderrPumpProofs` | proofs about `StderrPump` | |
| `RestorePlan` | the pure decisions: format, name, suggestion, offered command | operators only |
| `RestoreRun` | `dbsnap restore` for several invocations on one server | `oid` maps names to databases, `maker` says who created one, `written` which tool wrote to which; one action per step of the command, of its tool and of other clients |
| `RestoreRunProofs` | proofs about `RestoreRun` | |
| `RestoreTui` | `runRestore` and `tui.RunRestore`, composed with `RestoreRun` | the fields of `restoreModel`, `autoConfirm`, `terminated` and `LoopBreaks` as in `BackupTui`; the steps of `Restore` are those of `RestoreRun`; `Screen` is what is shown |
| `RestoreTuiProofs` | proofs about `RestoreTui`, on top of those about `RestoreRun` | |
| `DumpFiles` | `Provider.Backup`, call by call, and the directory it writes to | `asked`, `dump` and `outcome` of each call, `files` by name; `Fork`, `Return` are the code's, `Open`, `Exit` those of `pg_dump` |
| `Retention` | jobs of several databases over `DumpFiles`: `dbsnap backup`, its exit code and the wrapper script | `job`, `list`, `format`, `status` of each job; `Launch`, `Backup`, `JobExits`, `Script`, `Die`, and the clock |
| `RetentionProofs` | proofs about `Retention` | |
| `InspectTables` | `postgres.Inspect` | as `BackupBatch`: `main`, `pc`, `sem`, `wg`, `cells`; then the grouping loop over `schemas` |
| `InspectTablesProofs` | proofs about `InspectTables` | |
| `CommandArgs` | the parsers of `backup` and `restore`, their checks, `restoreCommand` | `args` is what is left to parse, `flags`, `file`; one action per flag, the second pass, the checks, the run of an offered command |
| `CommandArgsProofs` | proofs about `CommandArgs` | |
| `MC*` | instances for TLC | |

A definition named `X_Slip` (for example `Spawn_AddInGoroutine`) is a plausible
slip in the code that `X` models. No specification uses it; replacing the body
of `X` by it must make a property fail, which shows that the property watches
that code.

External behaviour, modelled from how the code uses it: bubbletea (one message
at a time; `tea.Quit` is itself a command, so messages may be handled between
it and the end; `Send` to an ended program returns; SIGTERM becomes a quit),
`os/exec` (`Wait` closes the pipe, a cancelled context kills the process),
`bufio.Scanner` (stops at a line over 64 KiB), the `flag` package (stops at the
first argument that is not a flag, or after `--`), `pg_dump` (creates or
truncates its file, may fail at any moment, outlives a parent that was killed),
PostgreSQL (`CREATE DATABASE` is
atomic and refuses a name that is taken; a database in use is neither renamed
nor dropped).

Abstractions worth knowing:

- `Provider.Backup` inside the batch is the pair it returns (a result, an
  error) and whether it started the dump tool. `DumpStarts` joins the context
  check of `exec.CommandContext` and the fork.
- In `BackupTui` a failed inspection and a good one are the same step: the
  program only displays the difference. Tables and row counts are not modelled.
- In `StderrPump` a line is a kind: a table, an error, the summary, a quotation
  that contains the summary's words, a line that is too long, anything else.
- In `RestorePlan` a name is a sequence, a base name followed by one number for
  each `_restore_<date>` suffix; `Bytes` gives its length back. All commands run
  on one date, the hardest case for the suggestion.
- In `RestoreRun` stat errors, missing binaries and refused connections are a
  nondeterministic refusal at the step where they occur. A tool's success is
  possible when it can read the file at all; skipped statements are
  `StderrPump`'s subject.
- In `RestoreTui` the CREATE statement that was sent before ctrl+c may still be
  executed (`sent`); the error that Restore reports may come before or after.
- In `DumpFiles` one tick is both the second of the file names and the day of
  the pruning: a second is where names meet and a day is where files age, and
  the properties need no more than their order. The local time is set back by
  one once, at `SetBackAt`, as in autumn. The formats are those that write one
  file; a file holds nothing, a whole dump, a part, or what two writers mixed.
- In `Retention` the batch of a job is its set of concurrent calls; that they
  all return is `BackupBatch`'s subject.
- In `InspectTables` the list the server answers with is any one of
  `Databases`; that it is sorted is not used.
- In `CommandArgs` an argument is a string with a `Meaning`: a word, a bare
  flag, a flag with `=`, and so on; `Number` gives the value of those that are
  numbers, which `-port` and `-concurrency` take and which is printed back
  without its leading zeros. The values of boolean flags are not checked. A file
  given as the empty string is no file to the code (`cmd/dbsnap/main.go:208`),
  and the reference reads it so.

## Runs

Passing runs:

| Run | Question | Bounds |
|---|---|---|
| `batch_core` | Is the batch bounded and complete, does it return and tell the truth, and does it implement `BatchContract`? | 3 targets, 2 slots, callback, cancellation at any moment: a target waits for a slot while two hold one |
| `tui` | Does the program end, never wait in vain, start backups once and only when told, and do its result and its screens say what happened to each database? | 2 databases with distinct names, `maxConcurrency` 0, which the code makes one slot; any subset found, with and without `-yes`, any key and a SIGTERM at any moment |
| `pump_usual` | Does a success that rests on the summary lose no warning? Do lines arrive as they are written, does it return, do the tool, the reader and the caller never wait for each other in a circle? | `pg_restore` and `psql` writing 2 to 5 lines, a quotation of the summary among them, a pipe that holds 2, so writes block; a kill at any moment |
| `restore_race` | Does a restore write only to its own database, is what it restored there, does a refusal leave the server untouched, do offered commands lead to a free name, and does every invocation end? | 3 invocations, from different files or running what was offered, the first two suggestions taken, another one over 63 bytes; other clients creating one more, any invocation killed |
| `restore_tui` | Does the interactive restore end, never wait in vain, respect a no, report the truth, and take only steps of `RestoreRun`? | with and without `-yes`, any key and a SIGTERM at any moment, beside a plain invocation that wants the same name, which may be a template's; others dropping their database or renaming it to that name |
| `dump_retention` | Is what was reported OK a whole dump until it is old, and does a job that prunes keep fresh copies of its own databases? | a scripted job of two databases and one by hand of one of them, 3 calls; clock 0 to 3, window 1, runs of at most 1, the clock set back at 2; custom and plain |
| `inspect_tables` | Is the report exact or the first error of the list, does it always come, without deadlock, and do the goroutines keep `BatchContract`? | no table, or 4 in 3 schemas, on 2 slots; counts 0 and 7, failures and a cancellation at any moment |
| `command_args` | Do two passes read what one reading from left to right would, is nothing dropped silently, and does an offered command ask for the same? | every line of up to 4 arguments from 19 of all kinds, the empty string and a port with a leading zero among them, for both commands, and then every command a refusal may offer |

Three targets and two slots are enough for the batch because its actors differ
only in their index: a third contends while the others hold both slots; the
inspection adds a fourth table so that a schema has two and another follows.
The restore needs two invocations for a race and a third to act on what the
first two left. `MaxDatabases` bounds what other clients create. In
`dump_retention` the scripted job has a database that the other shares and one
of its own; with a window of 1 the clock must reach 3 for a file of either to
be pruned and for a repeated hour to lie in between (`MaxTime`). Four arguments
hold a flag with its value, the file, and one more on either side (`MaxArgs`).
Every other quantity is bounded by the program itself.

Runs that end in a violation, each of one statement of the repository that the
code does not keep; the quotations are in `PROJECT.json` under `findings`:

| Run | What TLC shows |
|---|---|
| `tui_sigterm` | a SIGTERM makes `Run` return nil with backups undone |
| `tui_abort_summary` | ctrl+c among the backups: the summary says "no backups were run" when some were (`internal/tui/backup.go:475`) |
| `pump_quoting` | a `pg_restore` that fails after quoting a statement with the summary's words is reported as a success (`providers/postgres/postgres.go:329`) |
| `prune_last_copy` | the pruning after a successful run of one database deletes the last dump of another, whose own backups fail (`docs/ugreen-nas.md:114-115,132-134`) |

What the passing runs take from these: `NilIsEarned` and `NilMeansRestored` are
stated of endings without a SIGTERM, and `PruneSparesOwn` of the databases of
the job that prunes. `ShownIsTrue` claims of the line "no backups were run" that
it is true after a no, or a ctrl+c at the report; after a later ctrl+c it is
`AbortSummaryIsTrue`'s matter. `ImplementsContract` leaves the order of storing
and telling open. `WarningsComplete` is stated of texts without a quotation of
the summary, and `pump_usual` has no line over 64 KiB. `OfferRuns` compares the
flags that the code rebuilds, all of which say what is restored and where.

What they take from the divergences below: other clients create, drop and rename
databases, but leave those that an invocation made alone (`"ours" \notin
OthersMay`), `OkIsGood` is stated of calls that share their file name with no
other, and `OfferRuns` of names and files that `-db` and the parser can take.

## Divergences recorded without a run

Met while modelling, and left to the reader: the first statement of each line
is the code's, the second the document's, where there is one.

- `core/manager.go:48,63`: the result is stored before `onResult` is called;
  lines 25-26 say after. The models follow the code, and `BatchContract` allows
  either order.
- `core/manager.go:50`: the skip path calls `onResult` without a slot, so after
  a cancellation callbacks overlap with one slot too; lines 28-29 tie that to
  `maxConcurrency > 1`.
- `internal/tui/backup.go:317`: ctrl+c gives `ErrAborted` at every stage; lines
  22-23 speak of the confirmation.
- `internal/tui/backup.go:139`: a name given twice shares one `dbState`; the
  first entry keeps the zero result and is shown as backed up.
- `internal/tui/restore.go:52`: after a SIGTERM `RunRestore` returns nil in the
  middle of a restore, because the zero result reads OK (`core/types.go:132`).
- `internal/tui/restore.go:51`: ctrl+c during the verification of a finished
  restore gives the error that says "aborted mid-restore".
- `providers/postgres/postgres.go:206`: `Wait` closes the pipe, which may still
  hold text; lines 182-183 promise the full text. If what is lost is the
  summary, a restore that only skipped statements is reported as failed, where
  lines 220-222 say that it counts as OK.
- `providers/postgres/postgres.go:198`: after a line over 64 KiB nobody reads
  the pipe; a tool that goes on writing blocks, and `Wait` with it. Lines
  181-182 promise each line as it arrives.
- `providers/postgres/postgres.go:274`: the tool connects by name after CREATE
  DATABASE; if another client renames that database away and one of its own
  into its place, the tool writes to an existing one. `README.md:110-112` says
  never.
- `providers/postgres/postgres.go:114`: the file name has the local time without
  its zone, to the second. Two backups of one database that share it (`-db
  a,a`, two processes, the repeated hour) write to one file, the second
  truncating it, and both report OK.
- `providers/postgres/postgres.go:278`: `-jobs` with a plain script is ignored;
  lines 225-226 say rejected.
- `providers/postgres/inspect.go:112`: templates are not listed, so `-db
  template1` passes the pre-flight check; `internal/tui/restore.go:14-16` says
  the target is known not to exist.
- `core/restore.go:111`: the suggestion can exceed 63 bytes, and `Restore`
  refuses it; `README.md:136-137` promises a command to copy.
- `providers/postgres/inspect.go:237`: `InspectArchive` judges by the path alone,
  so `-format plain` does not help a script without `.sql`: the plan runs
  `pg_restore -l` on it and fails. `README.md:191` offers `-format` for when the
  detection is wrong.
- `cmd/dbsnap/main.go:73`: `backup` reads nothing after its first argument that
  is not a flag: in `-db a, b -yes` the second name and `-yes` are dropped
  without a word.
- `cmd/dbsnap/main.go:319`: the offered command is refused when the name from
  the backup has a `,` or a `=`, and misread when the file's name looks like a
  flag; line 305 calls it ready to run.
- `cmd/dbsnap/main.go:341`: the offered command leaves `-format`, `-jobs`,
  `-yes` and `-non-interactive` out; lines 326-327 say that it is the command
  the user ran.
- `cmd/dbsnap/main.go:190`: a `--` before the file does not end the flags; the
  second pass parses what follows the file again.

## Fairness

Weak fairness only, on what runs without anybody's help: goroutines, which the
Go scheduler runs; the event loop, which takes any message that waits (they
share a channel); commands, whose network calls end with an answer or an error;
a child that is not blocked, which goes on writing or exits. Nothing obliges
the user to press a key, a signal to arrive, a context to be cancelled or
another client to act, and no property relies on it. `NeverHangs` therefore
ends at the confirmation step, and `InvocationEnds` is about a plain invocation
(`Confirm` is answered at once there); for the interactive one there is
`RestoreEnds`. In `InspectTables` every query ends, with an answer or an error,
and a free slot is taken by somebody: one goroutine may lose it again and again,
but each holder gives it back and there are finitely many. `Retention` and
`CommandArgs` state no fairness and no liveness: jobs die and users stop.
Choices inside an action are not fair: a retry
loop is not excused because it might have failed.

## Proofs

`BackupBatchProofs` proves, for every number of targets N, every
`maxConcurrency` (0 and below included) and with or without a callback:

- `TypeCorrect`, `SlotsAreRespected`, `WaitCoversAll`, `ResultsAreComplete`,
  `OkIsDumped`: the invariants `TypeOK`, `SlotsRespected`,
  `NoGoroutineOutlivesCall`, `ResultsComplete`, `OkMeansDumped`;
- `StoredOnlyOnce`: no result is overwritten (`StoredOnce`, which no run checks by
  itself because `ImplementsContract` implies it);
- `Refinement`: `Spec => ImplementsContract`, the batch implements
  `BatchContract`;
- `NoDeadlock` and `StepsAreBounded`: `SomebodyCanRun`, and the safety core of
  `CallReturns` (see below).

None of the invariants is inductive alone: that the channel's count bounds the
goroutines inside `Backup` needs to know which control states hold a token;
that `Wait` returning means that all are done needs the wait group to count the
goroutines that are not; that a result is never overwritten needs to know in
which control states it is still unset. The strengthening `IInv` says those
three things, as equations between `sem`, `wg` and the cardinality of sets of
goroutines, and relates `results`, `reported` and `dumped` to `pc`. `Invariance`
proves it: one step per action of `Next`, with the counting left to lemmas
about the cardinality of the set of goroutines at given control states when one
goroutine moves. The refinement then maps every action to one of the contract
or to a stutter.

`RestoreRunProofs` proves, for any set of invocations, any command lines, any
databases and any other clients unless said otherwise:

- `TypeCorrect`: the invariant `TypeOK`, with names that stand for different
  databases and tools connected to databases that exist;
- `RefusalsTouchNothing`: `RefusedTouchedNothing`;
- `OnlyOwnDatabasesWritten` and `RestoredStays`: `NeverWritesExisting` and
  `RestoredIsThere`, under the hypothesis that the other clients drop and rename
  only databases that no invocation made. It is needed: a client that renames
  the new database away and another into its place, between CREATE DATABASE and
  the connection of the tool, redirects the restore;
- `OffersAreFree`: `OfferedIsFree`, when no template is named like a suggestion
  (the list that is asked for leaves the templates out);
- `StepsAreBounded`: nothing is tried again, whatever fails.

Most steps of an invocation move it on, or end it, and leave the server and the
tools alone; `Quiet` says so once, and each such action has a lemma that it is
quiet. What is left are CREATE DATABASE, the start of the tool, the steps of
the tool and those of other clients. `NeverWritesExisting` speaks of what was
written; the strengthening `Owned` adds where the writing comes from: from
CREATE DATABASE to the end of the tool the name of an invocation stands for a
database that it made, and that is what the tool is connected to. `Innocent`
says that before CREATE DATABASE there is no database and no tool; without it
a second CREATE of one invocation could not be excluded. `OffersAreFree` rests on
`Lines`: there are finitely many databases, and what a command line asks for is
a name. Of one more suffix than there are names, one is not taken
(`SuggestionIsFree`, by the pigeonhole principle), so the loop of
`SuggestRestoreName` ends.

`RestoreTuiProofs` proves, for any files, servers and other invocations:

- `Refinement`: `Spec => ImplementsRun`, the interactive restore implements
  `RestoreRun`. The invariant `InStep` is needed for the "yes" at the report and
  for the exit: as long as the report is shown the plan is made and nothing was
  started.
- `TypeCorrect`, `AbortsTouchNothing`, `NoIsFinal`, and, under the same hypothesis
  about the other clients, `NilIsTrue`: `TypeOK`, `AbortedTouchedNothing`,
  `DeclineIsFinal`, `NilMeansRestored`.
- `NeverWaitsInVain`: `SomethingIsComing`.

The module instantiates `RestoreRunProofs`: through the refinement its theorems
hold of the invocation inside (`RestoredIsThere`, `RefusedTouchedNothing`). What
is left is that the fields of `restoreModel` agree with what `Restore` did:
`Screens` says that the report stands before any step of `Restore`, that a
result that reads OK was set by a `Restore` that returned OK (the zero value
reads OK too, which is why the stage has to be known), and that the program
ends only after a SIGTERM, an abort, or at the last stage.

`BackupTuiProofs` proves, for any databases, names and concurrency:

- `BatchRefinement`: the batch inside the interactive backup takes only steps of
  `BackupBatch`, so the theorems about the batch hold of it;
- `DeclinedIsFinal`: `DeclineIsFinal`, from the invariant that whoever aborted
  has cancelled the context, which a dump has to find alive to start;
- `TypeCorrect`, `NilEarned`, `CountersAreExact`, `ReportComesFirst`: `TypeOK`,
  `NilIsEarned`, `CountersAgree`, `BackupsFollowReport`;
- `ScreensAreTrue`: `ShownIsTrue`, when no name was requested twice, the summary
  after a ctrl+c among the backups aside;
- `NeverWaitsInVain`: `SomethingIsComing`.

Here too the theorems of `BackupBatchProofs` are taken through the refinement
(`BatchFacts`). The invariant about the loop has four parts. `Messages`: each
command is outstanding at its own stage only, so that a ping, a list or an
inspection cannot come back late, and `inspectPending` counts the inspections
that are out. `Counting`: every database that was found is pending or counted,
the counted ones are those whose callback was taken, and `done` is reached when
none is pending; without the part about the callbacks a result could be counted
twice. `Returned`: what `Run` returns is what the fields said when the loop
ended. `Answers`: the backups were started with `-yes` or after a yes to the
report, and after a no nothing has been dumped; it needs that nothing is dumped
before the batch is called. None of them needs distinct names, so the counters
and the error are right even with `-db a,a`; `Shown`, which relates a `dbState`
to the one database it stands for, does.

`RetentionProofs` proves, for any jobs, lists, formats and clock, `TypeCorrect`
(`TypeOK`), `OkStaysGood` (`OkIsGood`) and `PrunersKeepTheirOwn`
(`PruneSparesOwn`). The strengthening `IInv` adds to the types: what a call was
asked for, how far its `pg_dump` is and what it returned go together
(`CallsInv`); the calls of a job are for its list, and a status of 0 means that
they all were OK (`JobsInv`); no call under way is older than the longest run
(`Timely`), which is no longer than the window, so what a job has just written
is not old when it prunes; who is named as a file's writer has opened it
(`FilesInv`); and `Good`: the file of a call that shares its name with no other
is its own from `Open` on, whole once `pg_dump` has completed, until it is old
(`Kept`). `NamesDiffer` carries it: a name is equal to another only if
database, second and extension are, so nobody else's `Open`, `Exit`, `Delete`
or pruning of young files touches it. `OkIsGood` is not inductive because it
starts at the return of `Backup`; the file has to be followed from its creation.

`InspectTablesProofs` proves, for any list, any number of slots and any counts,
`TypeCorrect` (`TypeOK`), `ReportsAreExact` (`ReportIsExact`) and `Refinement`
(`ImplementsContract`). `sem` and `wg` count goroutines, as in the batch, so
the caller reads the cells after the last was written (`Places`); `Groups` says
that after n turns of the grouping loop the first n tables are in the result,
each once and under its schema, and that no schema is named twice. That there
is a first error to return uses that a set of positions has a least one.

`StderrPumpProofs` proves, for any tool, any lines and any capacity of the pipe,
`TypeCorrect` and `NoLateCallback` (`NoCallbackAfterReturn`); and, provided that
`pg_restore` writes its summary as its last line only (`SummaryIsLast`),
`WarningsAreComplete` (`WarningsComplete`): a summary that was read is the end of
the text, so the whole text was read, whatever `Wait` did to the pipe. That such
a success is one of a tool that ran to completion is not proved, because it is
not so: `pump_quoting` shows it.

`CommandArgsProofs` proves, for lines of any length, `ParsedAsWritten`
(`ReadsAsWritten`) and `OffersRun` (`OfferRuns`). What is still to be parsed is
always the end of the line, from a position that is nobody's value, and what was
parsed up to there has had the effect that the reference gives it (`Settled`
says so of the flags, last setting first). The reference reads the line by a
function that recurs over the arguments; that it exists at all is an induction
over data, done here by a least counterexample: of the lengths up to which no
reading exists one is the least, and the reading of one argument less extends
to it. The proof of `ReadsAsWritten` needed to know what becomes of an empty
file name: the reference had not said, and was corrected with an instance of
its own in `command_args`. `OffersRun` follows the offered command part by part,
each there or not: the invariant `Offering` says of what was rebuilt that it is
made of values that the parser had taken (`Printed`; a port is printed as a
number, and `NumberAssumption` says that a printed number is read as the same
number), and one lemma per part (`OptionReached`, `SwitchReached`) that reading
it leads to the next.

**The safety core of the liveness properties.** Liveness under fairness is not
for this prover, but what makes it true is. Two facts are proved of each group
of actors that wait for each other, for every value of the constants. The
first: somebody can always go on. `NoDeadlock` says so of the batch, of the
inspection and of the pump (`SomebodyCanRun`): the channel is full only while
somebody holds a slot, and who holds one waits for nobody; a full pipe has a
reader, as long as no line is too long for the scanner (`NoLongLine`, the
hypothesis of that theorem: the divergence at `postgres.go:198` is what happens
without it). `NeverWaitsInVain` says so of the two event loops
(`SomethingIsComing`), which take what the batch and the restore inside them
owe: each stage has the message that leads out of it under way, and a quit that
has a reason stays until the loop ends. For the backup `SomethingIsComing`
includes the batch's `SomebodyCanRun`, which TLC therefore checks in `tui`; its
proof takes the exact count of pending results (a count too high would wait for
a callback that was already taken) and `NoDeadlock` of the batch inside
(`BatchGoesOn`). Of `RestoreRun` the type invariant says it: whoever loads has a
tool that was started. The second fact is `StepsAreBounded`, of the batch, the
inspection, the pump and the restore: every step brings some actor nearer to its
end, and nobody goes back or tries again. What fairness adds is only that who can go on
does; that is the part TLC checks.

The assumptions are the named ones of each module on its constants.

The type invariants are proved for every module that has one. TLC checks those of
the two backup modules in `tui`, and those of `RestoreRun` and `Retention` in
`restore_race` and `dump_retention`; that of `RestoreTui`, `InspectTables` and
`StderrPump` is left to the proof.

Only model-checked: the liveness properties themselves (`CallReturns`,
`NeverHangs`, `NothingBlocks`, `InvocationEnds`, `RestoreEnds`,
`InspectReturns`). Every invariant and every action property of the passing
runs, and every refinement, is proved.

## Plan

Done, in this order: `BatchContract`, `BackupBatch`, `BackupTui`, `StderrPump`,
`RestorePlan`, `RestoreRun`, `RestoreTui`, `DumpFiles`, `Retention`,
`InspectTables`, `CommandArgs`, with proofs about every state machine:
first what decides whether a backup is real, then what tells the user,
then what protects existing databases, then files, inspection and arguments.

Left: the directory format, whose dump is many files written by several workers;
and bounds on the steps of the two event loops, as they are proved for what
runs inside them.

Each run asks one question of one module; a new module is expected to need one
passing run and at most one that ends in a violation.

## Not modelled

- The provider registry: filled by `init` functions, then constant.
- `connArgs`, `connEnv`, `connString`: formatting for external programs.
- `core.CheckDatabases`: nothing in the repository calls it.
- The directory format of `pg_dump`: no extension, no single file to judge.
- The layout of the screens, row counts and sizes on them, and the wording of
  messages: only what a screen claims about a database.
- `scripts/deploy-nas.sh` and the Dockerfile: linear scripts of external
  commands with no state of dbsnap's own.

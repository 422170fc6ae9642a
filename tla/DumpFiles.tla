------------------------------ MODULE DumpFiles ------------------------------
(***************************************************************************)
(* Calls of Provider.Backup (providers/postgres/postgres.go) and the       *)
(* directory they write to.  A call names its file after the database and  *)
(* the second at which it runs pg_dump, and judges what it finds.          *)
(*                                                                         *)
(* pg_dump is external: it creates or truncates its file when it starts,   *)
(* writes, and exits; it may fail at any moment, and it outlives a dbsnap  *)
(* process that is killed.  The formats are those that write one file.     *)
(* One tick of the clock stands for the second of the file names and for   *)
(* the days of the retention alike.                                        *)
(***************************************************************************)
EXTENDS Integers

CONSTANTS Calls,      \* each is one call of Provider.Backup
          Databases,
          Formats,    \* the formats asked for
          SetBackAt,  \* when the local time is set back by one (summer time)
          MaxTime     \* bound on the clock

ASSUME FormatsAssumption == Formats \subseteq {"custom", "plain", "tar"}
ASSUME TimesAssumption == SetBackAt \in Nat /\ MaxTime \in Nat

VARIABLES now,       \* the clock
          asked,     \* asked[c]: the database, the time and the format
          dump,      \* dump[c]: the pg_dump of c
          outcome,   \* what c returned
          files      \* the directory: files[f] says who created f last, what
                     \* is in it, and when it was last written

callVars == <<asked, dump, outcome>>
dumpVars == <<now, callVars, files>>

NotAsked == [db |-> "", at |-> 0, format |-> ""]

\* formatExt.
Ext(format) ==
  CASE format = "custom" -> ".dump"
    [] format = "plain" -> ".sql"
    [] OTHER -> ".tar"

\* start.Format: the local time, without its zone.
Stamp(t) == IF t < SetBackAt THEN t ELSE t - 1

FileName_NoDatabase(r) == <<"backup", Stamp(r.at), Ext(r.format)>>

\* <db>_<YYYYMMDDThhmmss><ext>: the time has a fixed length, so that names are
\* equal only if all three parts are.
FileName(r) == <<r.db, Stamp(r.at), Ext(r.format)>>

FileOf(c) == FileName(asked[c])

Present(c) == FileOf(c) \in DOMAIN files

InitDumps ==
  /\ now = 0
  /\ asked = [c \in Calls |-> NotAsked]
  /\ dump = [c \in Calls |-> "none"]
  /\ outcome = [c \in Calls |-> "none"]
  /\ files = [f \in {} |-> 0]
-----------------------------------------------------------------------------
\* No binary, an unknown format, a directory that cannot be made.
Refuse(c) ==
  /\ outcome[c] = "none" /\ asked[c] = NotAsked
  /\ outcome' = [outcome EXCEPT ![c] = "refused"]
  /\ UNCHANGED <<now, asked, dump, files>>

\* cmd.Start; its failure is that of a pg_dump that fails at once.
Fork(c, d, format) ==
  /\ outcome[c] = "none" /\ asked[c] = NotAsked
  /\ asked' = [asked EXCEPT ![c] = [db |-> d, at |-> now, format |-> format]]
  /\ dump' = [dump EXCEPT ![c] = "forked"]
  /\ UNCHANGED <<now, outcome, files>>

Put(f, file) ==
  files' = [g \in DOMAIN files \cup {f} |-> IF g = f THEN file ELSE files[g]]

\* -f: pg_dump creates its file, or truncates what is there.
Open(c) ==
  /\ dump[c] = "forked"
  /\ Put(FileOf(c), [by |-> c, holds |-> "nothing", mtime |-> now])
  /\ dump' = [dump EXCEPT ![c] = "open"]
  /\ UNCHANGED <<now, asked, outcome>>

\* c writes, what makes up a whole dump or not, to a file that is its own or
\* that another call has truncated or written to; it may be deleted by now.
Write(c, what) ==
  IF Present(c)
    THEN LET file == files[FileOf(c)]
             own == file.by = c /\ file.holds = "nothing"
         IN Put(FileOf(c), [file EXCEPT !.holds = IF own THEN what ELSE "mixed",
                                        !.mtime = now])
    ELSE UNCHANGED files

\* pg_dump exits; "hollow" is a success without output.
Exit(c) ==
  /\ dump[c] \in {"forked", "open"}
  /\ \/ /\ dump[c] = "open"
        /\ dump' = [dump EXCEPT ![c] = "complete"]
        /\ Write(c, "dump")
     \/ /\ \E s \in {"hollow", "failed"} : dump' = [dump EXCEPT ![c] = s]
        /\ UNCHANGED files
     \/ /\ dump[c] = "open"
        /\ dump' = [dump EXCEPT ![c] = "failed"]
        /\ Write(c, "part")
  /\ UNCHANGED <<now, asked, outcome>>

\* What Backup makes of pg_dump's exit and of what os.Stat finds.
Verdict(c) ==
  CASE ~Present(c) -> "nofile"
    [] Present(c) /\ dump[c] = "failed" -> "partial"
    [] Present(c) /\ dump[c] # "failed" /\ files[FileOf(c)].holds = "nothing" -> "empty"
    [] OTHER -> "ok"

Return_NoWait(c) ==
  /\ asked[c] # NotAsked /\ outcome[c] = "none"
  /\ outcome' = [outcome EXCEPT ![c] = Verdict(c)]
  /\ UNCHANGED <<now, asked, dump, files>>

Return(c) ==
  /\ dump[c] \in {"complete", "hollow", "failed"} /\ outcome[c] = "none"
  /\ outcome' = [outcome EXCEPT ![c] = Verdict(c)]
  /\ UNCHANGED <<now, asked, dump, files>>

\* "an incomplete file was left behind - delete it before retrying".
Delete(c) ==
  /\ outcome[c] = "partial" /\ Present(c)
  /\ files' = [f \in DOMAIN files \ {FileOf(c)} |-> files[f]]
  /\ UNCHANGED <<now, callVars>>
-----------------------------------------------------------------------------
Outcomes == {"none", "refused", "nofile", "partial", "empty", "ok"}

\* Nobody else asked for the same database in the same second and format.
Unshared(c) ==
  \A k \in Calls \ {c} :
    ~ /\ asked[k].db = asked[c].db /\ asked[k].format = asked[c].format
      /\ Stamp(asked[k].at) = Stamp(asked[c].at)

\* f is a whole dump of one database.
Whole(f) == f \in DOMAIN files /\ files[f].holds = "dump"

\* There is a whole dump of d that was reported.
Copy(d) ==
  \E c \in Calls :
    /\ asked[c].db = d /\ outcome[c] = "ok"
    /\ Whole(FileOf(c)) /\ files[FileOf(c)].by = c
=============================================================================

---------------------------- MODULE RestorePlan ----------------------------
(***************************************************************************)
(* The decisions a restore takes before it touches the server: how the     *)
(* backup is read, which database it will create, which name is offered    *)
(* when that one is taken (core/restore.go, providers/postgres, main.go).  *)
(*                                                                         *)
(* A database name is a sequence: a base name, then one number for each    *)
(* suffix added to it, so Append(n, 1) is n_restore_<date> and             *)
(* Append(n, k) is n_restore_<date>_k.  <<>> is the empty name.            *)
(*                                                                         *)
(* A backup is a record: ext is what its path looks like ("dir", "sql" or  *)
(* "dump"), is what it holds ("custom", "tar", "directory", "plain" or     *)
(* "empty"), recorded the database name in its header.                     *)
(***************************************************************************)
EXTENDS Integers, Sequences, FiniteSets, FiniteSetsExt

CONSTANTS BaseBytes,         \* the length of each base name
          MaxIdentifierLen   \* 63 in the code

NoName == <<>>

\* A base name and its suffixes; <<>> is one.
IsName(n) == n \in Seq({n[i] : i \in DOMAIN n})

\* A command line, and what there is to know of its file.
IsRequest(r) ==
  /\ DOMAIN r = {"db", "format", "jobs", "file"}
  /\ IsName(r.db) /\ IsName(r.file.recorded)

\* "_restore_20260721" has 17 bytes, and "_2" two more.
Bytes(name) ==
  BaseBytes[name[1]] + 17 * (Len(name) - 1)
    + 2 * Cardinality({i \in 2 .. Len(name) : name[i] > 1})

TooLong(name) == Bytes(name) > MaxIdentifierLen

ArchiveFormats == {"custom", "tar", "directory"}

\* The format asked for, or what the path suggests: tar passes for custom.
ResolveRestoreFormat(explicit, file) ==
  CASE explicit # "" -> explicit
    [] explicit = "" /\ file.ext = "dir" -> "directory"
    [] explicit = "" /\ file.ext = "sql" -> "plain"
    [] OTHER -> "custom"

\* InspectArchive goes by the path alone, whatever -format says; pg_restore -l
\* then has to understand the file.
InspectedFormat(file) == ResolveRestoreFormat("", file)

ArchiveIsReadable(file) ==
  /\ file.is # "empty"
  /\ InspectedFormat(file) = "plain" \/ file.is \in ArchiveFormats

ArchiveName(file) == IF InspectedFormat(file) = "plain" THEN NoName ELSE file.recorded

ResolveRestoreName(requested, file) ==
  IF requested # NoName THEN requested ELSE ArchiveName(file)

SuggestRestoreName_TriesTwice(base, existing) ==
  Append(base, IF Append(base, 1) \in existing THEN 2 ELSE 1)

\* The first of n_restore_<date>, n_restore_<date>_2, ... that is not taken.
SuggestRestoreName(base, existing) ==
  Append(base, Min({k \in 1 .. Cardinality(existing) + 1 : Append(base, k) \notin existing}))

\* The command an error offers: -format and -jobs are not in it.
RestoreCommand(request, name) ==
  [request EXCEPT !.db = name, !.format = "", !.jobs = FALSE]

\* psql is run for the plain format only, pg_restore for the others.
UsesPsql(request) == ResolveRestoreFormat(request.format, request.file) = "plain"

\* -jobs is looked at only when pg_restore is used.
JobsAllowed(request) ==
  \/ ~request.jobs \/ UsesPsql(request)
  \/ ResolveRestoreFormat(request.format, request.file) \in {"custom", "directory"}

\* Can the tool load the file at all?  pg_restore refuses -j for a tar archive.
CanLoad(request) ==
  IF UsesPsql(request)
    THEN request.file.is = "plain"
    ELSE request.file.is \in ArchiveFormats /\ ~(request.jobs /\ request.file.is = "tar")
=============================================================================

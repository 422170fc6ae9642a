----------------------------- MODULE RestoreRun -----------------------------
(***************************************************************************)
(* Invocations of `dbsnap restore` against one server, with other clients  *)
(* of that server around them: runRestore (cmd/dbsnap/main.go),            *)
(* PlanRestore (core/restore.go), ListDatabases, CreateDatabase and        *)
(* Restore (providers/postgres).                                           *)
(*                                                                         *)
(* The server is external: a name stands for at most one database at a     *)
(* time, CREATE DATABASE is atomic and refuses a name that is taken, and a *)
(* database with a connection can be neither renamed nor dropped.  A       *)
(* database is identified by its number, maker[o] created it.              *)
(***************************************************************************)
EXTENDS RestorePlan, Functions

CONSTANTS Invocations,   \* each is started at most once
          Requests,      \* command lines: records [db, format, jobs, file]
          Initially,     \* the names of the databases there are, numbered
          Templates,     \* those of them that are templates
          OthersMay,     \* what other clients do: "create", "drop", "rename"; and
                         \* "ours", if they drop and rename what invocations made too
          MaxDatabases   \* bound on what others have created

ASSUME InvocationsAssumption == "other" \notin Invocations
ASSUME InitiallyAssumption ==
  /\ Initially \in Seq(Range(Initially)) /\ IsInjective(Initially)
  /\ NoName \notin Range(Initially)
  /\ Templates \subseteq Range(Initially)
ASSUME RequestsAssumption == \A r \in Requests : IsRequest(r)
ASSUME OthersAssumption == OthersMay \subseteq {"create", "drop", "rename", "ours"}
ASSUME BoundAssumption == MaxDatabases \in Nat

VARIABLES oid,      \* oid[name]: the database of that name
          maker,    \* maker[o]: the invocation that created o, or "other"
          written,  \* <<p, o>>: the tool p started wrote to o
          pc,       \* where invocation p is
          req,      \* its command line
          name,     \* conn.DBName
          outcome,  \* what it reported
          offered,  \* the command it offered, if any: a set of at most one
          loader,   \* the psql or pg_restore it started
          target    \* the database the tool is connected to

vars == <<oid, maker, written, pc, req, name, outcome, offered, loader, target>>
server == <<oid, maker, written>>
tool == <<loader, target>>

AnyRequest == CHOOSE r \in Requests : TRUE

Init ==
  /\ oid = [n \in Range(Initially) |-> CHOOSE o \in DOMAIN Initially : Initially[o] = n]
  /\ maker = [o \in DOMAIN Initially |-> "other"]
  /\ written = {}
  /\ pc = [p \in Invocations |-> "idle"]
  /\ req = [p \in Invocations |-> AnyRequest]
  /\ name = [p \in Invocations |-> NoName]
  /\ outcome = [p \in Invocations |-> "none"]
  /\ offered = [p \in Invocations |-> {}]
  /\ loader = [p \in Invocations |-> "none"]
  /\ target = [p \in Invocations |-> 0]

\* p ends with outcome o, offering the commands cs.
End(p, o, cs) ==
  /\ pc' = [pc EXCEPT ![p] = "done"]
  /\ outcome' = [outcome EXCEPT ![p] = o]
  /\ offered' = [offered EXCEPT ![p] = cs]

\* CREATE DATABASE n, by who.
NewDatabase(n, who) ==
  /\ n \notin DOMAIN oid
  /\ oid' = [m \in DOMAIN oid \cup {n} |-> IF m = n THEN Len(maker) + 1 ELSE oid[m]]
  /\ maker' = Append(maker, who)

Go(p, to) ==
  /\ pc' = [pc EXCEPT ![p] = to]
  /\ UNCHANGED <<outcome, offered>>

-----------------------------------------------------------------------------
(* The command.                                                            *)

\* The user runs a command, or one that an earlier invocation offered.
Start(p) ==
  /\ pc[p] = "idle"
  /\ \E r \in Requests \cup UNION {offered[q] : q \in Invocations} :
       req' = [req EXCEPT ![p] = r]
  /\ Go(p, "args")
  /\ UNCHANGED <<server, name, tool>>

\* PlanRestore up to the resolved name; os.Stat may fail.
ReadBackup(p) ==
  /\ pc[p] = "args"
  /\ LET file == req[p].file
         resolved == ResolveRestoreName(req[p].db, file)
     IN \/ /\ End(p, "refused", {})
           /\ UNCHANGED name
        \/ /\ ~ArchiveIsReadable(file)
           /\ End(p, "unreadable", {})
           /\ UNCHANGED name
        \/ /\ ArchiveIsReadable(file) /\ resolved = NoName
           /\ End(p, "noname", {RestoreCommand(req[p], <<"mydb">>)})
           /\ UNCHANGED name
        \/ /\ ArchiveIsReadable(file) /\ resolved # NoName
           /\ name' = [name EXCEPT ![p] = resolved]
           /\ Go(p, "listing")
  /\ UNCHANGED <<server, req, tool>>

\* ListDatabases leaves templates out.
Listed == DOMAIN oid \ Templates

\* The existence check of PlanRestore; the connection may fail.
List(p) ==
  /\ pc[p] = "listing"
  /\ \/ End(p, "refused", {})
     \/ /\ name[p] \in Listed
        /\ End(p, "exists", {RestoreCommand(req[p], SuggestRestoreName(name[p], Listed))})
     \/ name[p] \notin Listed /\ Go(p, "planned")
  /\ UNCHANGED <<server, req, name, tool>>

\* The confirmation, which -yes and plain output skip.
Confirm(p) ==
  /\ pc[p] = "planned"
  /\ Go(p, "restoring") \/ End(p, "declined", {})
  /\ UNCHANGED <<server, req, name, tool>>

Validate_CreatesFirst(p) ==
  /\ pc[p] = "restoring"
  /\ IF name[p] \in DOMAIN oid
       THEN End(p, "refused", {}) /\ UNCHANGED server
       ELSE /\ IF TooLong(name[p]) \/ ~JobsAllowed(req[p])
                 THEN End(p, "refused", {})
                 ELSE Go(p, "created")
            /\ NewDatabase(name[p], p)
            /\ UNCHANGED written
  /\ UNCHANGED <<req, name, tool>>

\* The checks of Restore; the file or the tool may be missing too.
Validate(p) ==
  /\ pc[p] = "restoring"
  /\ \/ End(p, "refused", {})
     \/ ~TooLong(name[p]) /\ JobsAllowed(req[p]) /\ Go(p, "creating")
  /\ UNCHANGED <<server, req, name, tool>>

Create_IfNotExists(p) ==
  /\ pc[p] = "creating"
  /\ IF name[p] \in DOMAIN oid
       THEN UNCHANGED server
       ELSE NewDatabase(name[p], p) /\ UNCHANGED written
  /\ Go(p, "created")
  /\ UNCHANGED <<req, name, tool>>

\* CREATE DATABASE succeeds; the answer may be lost, which is an error.
Create(p) ==
  /\ pc[p] = "creating"
  /\ NewDatabase(name[p], p)
  /\ Go(p, "created") \/ End(p, "failed", {})
  /\ UNCHANGED <<written, req, name, tool>>

CreateFails_Retries(p) ==
  /\ pc[p] = "creating" /\ name[p] \in DOMAIN oid
  /\ Go(p, "restoring")
  /\ UNCHANGED <<server, req, name, tool>>

\* The name is taken by now, or the connection fails.
CreateFails(p) ==
  /\ pc[p] = "creating"
  /\ End(p, "failed", {}) \/ (name[p] \in DOMAIN oid /\ End(p, "duplicate", {}))
  /\ UNCHANGED <<server, req, name, tool>>

Fork_ErrorIgnored(p) ==
  /\ pc[p] = "created"
  /\ Go(p, "loading")
  /\ loader' \in {[loader EXCEPT ![p] = "connecting"], loader}
  /\ UNCHANGED <<server, req, name, target>>

\* cmd.Start of psql or pg_restore, or its failure.
Fork(p) ==
  /\ pc[p] = "created"
  /\ \/ Go(p, "loading") /\ loader' = [loader EXCEPT ![p] = "connecting"]
     \/ End(p, "failed", {}) /\ UNCHANGED loader
  /\ UNCHANGED <<server, req, name, target>>

Return_ExitIgnored(p) ==
  /\ pc[p] = "loading" /\ loader[p] \in {"complete", "partial"}
  /\ End(p, "restored", {})
  /\ UNCHANGED <<server, req, name, tool>>

\* Restore returns what became of the tool.
Return(p) ==
  /\ pc[p] = "loading" /\ loader[p] \in {"complete", "partial"}
  /\ End(p, IF loader[p] = "complete" THEN "restored" ELSE "failed", {})
  /\ UNCHANGED <<server, req, name, tool>>

\* The process is killed; what it started lives on.
Die(p) ==
  /\ pc[p] \notin {"idle", "done"}
  /\ End(p, "dead", {})
  /\ UNCHANGED <<server, req, name, tool>>

-----------------------------------------------------------------------------
(* The tool, and the other clients.                                        *)

\* -d conn.DBName: the tool finds its database by name.
LoaderConnects(p) ==
  /\ loader[p] = "connecting"
  /\ \/ /\ name[p] \in DOMAIN oid
        /\ loader' = [loader EXCEPT ![p] = "writing"]
        /\ target' = [target EXCEPT ![p] = oid[name[p]]]
     \/ loader' = [loader EXCEPT ![p] = "partial"] /\ UNCHANGED target
  /\ UNCHANGED <<server, pc, req, name, outcome, offered>>

LoaderWrites(p) ==
  /\ loader[p] = "writing" /\ CanLoad(req[p])
  /\ written' = written \cup {<<p, target[p]>>}
  /\ UNCHANGED <<oid, maker, pc, req, name, outcome, offered, tool>>

LoaderEnds(p) ==
  /\ loader[p] = "writing"
  /\ \/ loader' = [loader EXCEPT ![p] = "partial"]
     \/ <<p, target[p]>> \in written /\ loader' = [loader EXCEPT ![p] = "complete"]
  /\ target' = [target EXCEPT ![p] = 0]
  /\ UNCHANGED <<server, pc, req, name, outcome, offered>>

InUse(o) == \E p \in Invocations : target[p] = o

\* May another client take the name n away from its database?
Theirs(n) == "ours" \notin OthersMay => maker[oid[n]] = "other"

OtherNames ==
  {n \in {name[p] : p \in Invocations} \cup Range(Initially) : n # NoName /\ ~TooLong(n)}

OtherCreates(n) ==
  /\ "create" \in OthersMay
  /\ Cardinality({o \in DOMAIN maker : maker[o] = "other"}) < MaxDatabases
  /\ NewDatabase(n, "other")
  /\ UNCHANGED <<written, pc, req, name, outcome, offered, tool>>

OtherDrops(n) ==
  /\ "drop" \in OthersMay
  /\ n \in DOMAIN oid \ Templates /\ ~InUse(oid[n]) /\ Theirs(n)
  /\ oid' = [m \in DOMAIN oid \ {n} |-> oid[m]]
  /\ UNCHANGED <<maker, written, pc, req, name, outcome, offered, tool>>

OtherRenames(n, to) ==
  /\ "rename" \in OthersMay
  /\ n \in DOMAIN oid \ Templates /\ ~InUse(oid[n]) /\ Theirs(n)
  /\ to \notin DOMAIN oid
  /\ oid' = [m \in (DOMAIN oid \ {n}) \cup {to} |-> IF m = to THEN oid[n] ELSE oid[m]]
  /\ UNCHANGED <<maker, written, pc, req, name, outcome, offered, tool>>

Spare == <<"old">>

Other ==
  \E n \in OtherNames :
    \/ OtherCreates(n) \/ OtherDrops(n)
    \/ \E to \in OtherNames \cup {Spare} : OtherRenames(n, to)

Command(p) ==
  \/ ReadBackup(p) \/ List(p) \/ Confirm(p) \/ Validate(p)
  \/ Create(p) \/ CreateFails(p) \/ Fork(p) \/ Return(p)

Loader(p) == LoaderConnects(p) \/ LoaderWrites(p) \/ LoaderEnds(p)

AllOver ==
  /\ \A p \in Invocations : pc[p] = "done" /\ loader[p] \notin {"connecting", "writing"}
  /\ UNCHANGED vars

Next ==
  \/ \E p \in Invocations : Start(p) \/ Command(p) \/ Die(p) \/ Loader(p)
  \/ Other
  \/ AllOver

\* The user answers, the server answers, the tool ends.
Fairness ==
  \A p \in Invocations :
    WF_vars(Command(p)) /\ WF_vars(LoaderConnects(p)) /\ WF_vars(LoaderEnds(p))

Spec == Init /\ [][Next]_vars
FairSpec == Spec /\ Fairness
-----------------------------------------------------------------------------
\* pc and loader agree, and names stand for different databases.
TypeOK ==
  /\ Range(oid) \subseteq DOMAIN maker /\ IsInjective(oid)
  /\ Range(maker) \subseteq Invocations \cup {"other"}
  /\ written \subseteq Invocations \X DOMAIN maker
  /\ \A p \in Invocations :
       /\ pc[p] \in {"idle", "args", "listing", "planned", "restoring", "creating",
                     "created", "loading", "done"}
       /\ loader[p] \in {"none", "connecting", "writing", "complete", "partial"}
       /\ pc[p] = "loading" => loader[p] # "none"
       /\ loader[p] = "writing" <=> target[p] # 0
       /\ target[p] # 0 => target[p] \in Range(oid)
       /\ Cardinality(offered[p]) <= 1

\* "dbsnap never writes into a database that already exists": what a restore
\* writes to is a database that this very invocation created, also when another
\* invocation has the same target, or died and left its database behind.
NeverWritesExisting == \A w \in written : maker[w[2]] = w[1]

\* A restore that reports success has left, under the name it announced, a
\* database that it created, that it loaded and that nobody else loaded.
RestoredIsThere ==
  \A p \in Invocations :
    outcome[p] = "restored" =>
      /\ name[p] \in DOMAIN oid
      /\ maker[oid[name[p]]] = p
      /\ {w \in written : w[2] = oid[name[p]]} = {<<p, oid[name[p]]>>}

\* "stops before changing anything": an invocation that was refused or declined
\* created no database and wrote to none.
RefusedTouchedNothing ==
  \A p \in Invocations :
    outcome[p] \in {"refused", "unreadable", "noname", "exists", "declined", "duplicate"} =>
      /\ p \notin Range(maker)
      /\ \A w \in written : w[1] # p

\* "suggests a free name": at the moment the list is read nobody has the name
\* that is offered, however many suffixes are taken.
OfferedIsFree ==
  [][\A p \in Invocations :
       outcome[p] = "none" /\ outcome'[p] = "exists" =>
         \A c \in offered'[p] : c.db \notin DOMAIN oid]_vars

\* Every invocation comes to an end, whatever is taken and whatever fails.
InvocationEnds == \A p \in Invocations : pc[p] = "args" ~> pc[p] = "done"
=============================================================================

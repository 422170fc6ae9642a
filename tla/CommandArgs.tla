----------------------------- MODULE CommandArgs -----------------------------
(***************************************************************************)
(* How `dbsnap backup` and `dbsnap restore` read their arguments           *)
(* (cmd/dbsnap/main.go), and the command that a refused restore offers.    *)
(* Go's flag package, external, stops at the first argument that is not a  *)
(* flag; restore takes that one as its file and parses the rest again.     *)
(*                                                                         *)
(* An argument is a string; Meaning says what the flag package sees in it: *)
(* a "word"; the "stop" mark --; "help"; a "bare" flag, which takes the    *)
(* next argument whatever it is; a "bool" flag; a flag "set" with =.       *)
(***************************************************************************)
EXTENDS Integers, Sequences

CONSTANTS Meaning,    \* of each argument: a record [is, flag, to]
          Known,      \* Known[command]: the flags it has
          Default,    \* Default[flag]: its default, DBSNAP_PASSWORD aside
          Number,     \* of the strings that are numbers: the number, as it is printed
          Names,      \* database names a refused restore may offer
          Plain,      \* strings with no comma, no = and no curly quote
          HasComma, HasEquals, HasCurly, NoNames,
          MaxArgs     \* bound on the number of arguments

ASSUME DefaultAssumption == Default \in [DOMAIN Default -> STRING]
ASSUME MaxArgsAssumption == MaxArgs \in Nat
\* A number that was printed is read as the same number.
ASSUME NumberAssumption ==
  \A s \in DOMAIN Number : Number[s] \in DOMAIN Number /\ Number[Number[s]] = Number[s]
ASSUME PlainAssumption == Plain \cap (HasComma \cup HasEquals \cup HasCurly) = {}

VARIABLES command,   \* "backup" or "restore"
          given,     \* its arguments
          args,      \* those not parsed yet
          flags,     \* what each flag is set to
          file,      \* the backup file, "" if none
          pass,      \* which of the two calls of fs.Parse
          outcome,   \* "parsing", or how it ended
          offered    \* history: what the first command had, if this is the second

vars == <<command, given, args, flags, file, pass, outcome, offered>>

Run(cmd, arguments) ==
  /\ command' = cmd /\ given' = arguments /\ args' = arguments
  /\ flags' = Default /\ file' = "" /\ pass' = 1 /\ outcome' = "parsing"

Init ==
  /\ command \in {"backup", "restore"}
  /\ given \in UNION {[1 .. n -> DOMAIN Meaning] : n \in 0 .. MaxArgs}
  /\ args = given
  /\ flags = Default
  /\ file = ""
  /\ pass = 1
  /\ outcome = "parsing"
  /\ offered = <<>>

Is(s) == Meaning[s].is
IsFlag(s) == Is(s) \notin {"word", "stop"}
IsKnown(cmd, s) == Is(s) \in {"bare", "bool", "set"} /\ Meaning[s].flag \in Known[cmd]

\* What the flags of the offered command are to restore.
ASSUME OfferedFlagsAssumption ==
  /\ \A s \in {"-provider", "-host", "-port", "-user", "-db"} : Is(s) = "bare"
  /\ Is("-no-owner") = "bool"
  /\ Meaning["-provider"].flag = "provider" /\ Meaning["-host"].flag = "host"
  /\ Meaning["-port"].flag = "port" /\ Meaning["-user"].flag = "user"
  /\ Meaning["-db"].flag = "db" /\ Meaning["-no-owner"].flag = "no-owner"
  /\ {"provider", "host", "port", "user", "db", "no-owner"}
       \subseteq Known["restore"] \cap DOMAIN Default

\* The flags whose value is a number, fs.Int.
IntFlags == {"port", "concurrency"}

\* The text that the i-th argument of line, a flag, sets.
Text(line, i) ==
  LET m == Meaning[line[i]]
  IN CASE m.is = "bare" -> line[i + 1] [] m.is = "bool" -> "true" [] OTHER -> m.to

\* What a flag takes of a text: any string, or a number.
Takes(flag, text) == flag \in IntFlags => text \in DOMAIN Number
Taken(flag, text) == IF flag \in IntFlags THEN Number[text] ELSE text

\* Of line, does its i-th argument set a flag of cmd?
CanSet(cmd, line, i) ==
  /\ IsKnown(cmd, line[i])
  /\ Is(line[i]) = "bare" => i < Len(line)
  /\ Takes(Meaning[line[i]].flag, Text(line, i))

Set(flag, value, used) ==
  /\ flags' = [flags EXCEPT ![flag] = value]
  /\ args' = SubSeq(args, used + 1, Len(args))
  /\ UNCHANGED outcome

Fail(how) == outcome' = how /\ UNCHANGED <<flags, args>>

\* fs.Parse meets a flag.  -h; an unknown one, one without its value or whose
\* value it does not take; or one to set.
ParseFlag ==
  /\ outcome = "parsing" /\ args # <<>> /\ IsFlag(Head(args))
  /\ LET s == Head(args)
         flag == Meaning[s].flag
     IN \/ Is(s) = "help" /\ Fail("help")
        \/ Is(s) # "help" /\ ~CanSet(command, args, 1) /\ Fail("badflags")
        \/ /\ CanSet(command, args, 1)
           /\ Set(flag, Taken(flag, Text(args, 1)), IF Is(s) = "bare" THEN 2 ELSE 1)
  /\ UNCHANGED <<command, given, file, pass, offered>>

ParseEnds == outcome = "parsing" /\ (args # <<>> => ~IsFlag(Head(args)))

\* fs.Args.
Rest == IF args # <<>> /\ Is(Head(args)) = "stop" THEN Tail(args) ELSE args

SecondPass_FreshFlags ==
  /\ command = "restore" /\ pass = 1 /\ ParseEnds /\ Rest # <<>>
  /\ file' = Head(Rest) /\ args' = Tail(Rest) /\ pass' = 2
  /\ flags' = Default
  /\ UNCHANGED <<command, given, outcome, offered>>

\* The first argument left is the file; what follows it is parsed again.
SecondPass ==
  /\ command = "restore" /\ pass = 1 /\ ParseEnds /\ Rest # <<>>
  /\ file' = Head(Rest) /\ args' = Tail(Rest) /\ pass' = 2
  /\ UNCHANGED <<command, given, flags, outcome, offered>>

\* The checks of parseRestoreArgs, in their order.
RestoreVerdict(rest) ==
  CASE flags["db"] \in HasComma -> "severalnames"
    [] flags["db"] \in HasEquals \ HasComma -> "oldsyntax"
    [] flags["db"] \notin HasComma \cup HasEquals /\ rest # <<>> -> "secondfile"
    [] OTHER -> IF file = "" THEN "nofile"
                ELSE IF flags["user"] = "" THEN "nouser"
                ELSE IF file \in HasCurly \/ flags["db"] \in HasCurly THEN "curly"
                ELSE "accepted"

\* Those of runBackup, which does not look at what is left of the arguments.
BackupVerdict ==
  CASE flags["user"] = "" -> "nouser"
    [] flags["user"] # "" /\ flags["db"] \in NoNames -> "nonames"
    [] flags["user"] # "" /\ flags["db"] \notin NoNames /\ flags["out"] \in HasCurly -> "curly"
    [] OTHER -> "accepted"

Check ==
  /\ ParseEnds
  /\ \/ /\ command = "backup"
        /\ outcome' = BackupVerdict
     \/ /\ command = "restore" /\ (pass = 2 \/ Rest = <<>>)
        /\ outcome' = RestoreVerdict(Rest)
  /\ UNCHANGED <<command, given, args, flags, file, pass, offered>>

\* A flag of the offered command, if it is not at its default.
IfGiven(s, flag) == IF flags[flag] # Default[flag] THEN <<s, flags[flag]>> ELSE <<>>

RestoreCommand_NoPort(name) ==
  IfGiven("-provider", "provider") \o IfGiven("-host", "host")
    \o <<"-user", flags["user"]>>
    \o (IF flags["no-owner"] = "true" THEN <<"-no-owner">> ELSE <<>>)
    \o <<"-db", name, file>>

\* restoreCommand; shellQuote makes each part one argument again.
RestoreCommand(name) ==
  IfGiven("-provider", "provider") \o IfGiven("-host", "host") \o IfGiven("-port", "port")
    \o <<"-user", flags["user"]>>
    \o (IF flags["no-owner"] = "true" THEN <<"-no-owner">> ELSE <<>>)
    \o <<"-db", name, file>>

\* The target exists, and the user runs the command that the error shows.
RunOffered ==
  /\ command = "restore" /\ outcome = "accepted" /\ offered = <<>>
  /\ \E name \in Names :
       /\ Run("restore", RestoreCommand(name))
       /\ offered' = <<[flags |-> flags, file |-> file, name |-> name]>>

Stop ==
  /\ outcome # "parsing"
  /\ UNCHANGED vars

Next == ParseFlag \/ SecondPass \/ Check \/ RunOffered \/ Stop

Spec == Init /\ [][Next]_vars
-----------------------------------------------------------------------------
(* The reference: every argument has one role, found from left to right.   *)

\* The arguments that are not the value of a flag.
Heads(line) ==
  LET head[i \in 0 .. Len(line)] ==
        i = 0 \/ i = 1 \/ ~(head[i - 1] /\ Is(line[i - 1]) = "bare")
  IN {i \in 1 .. Len(line) : head[i]}

Words(line) == {i \in Heads(line) : Is(line[i]) = "word"}

\* Those that count: backup stops at the first word.
Read(cmd, line) == {i \in Heads(line) : cmd = "backup" => \A w \in Words(line) : i < w}

Sets(s, flag) == Is(s) \in {"bare", "bool", "set"} /\ Meaning[s].flag = flag

Setters(cmd, line, flag) == {i \in Read(cmd, line) : Sets(line[i], flag)}

Value(line, i) == Taken(Meaning[line[i]].flag, Text(line, i))

\* The last setting of a flag wins, on whichever side of the file it is.
Settings(cmd, line) ==
  [flag \in DOMAIN Default |->
     LET setters == Setters(cmd, line, flag)
     IN IF setters = {} THEN Default[flag]
        ELSE Value(line, CHOOSE i \in setters : \A j \in setters : j <= i)]

WellFormed(cmd, line) ==
  \A i \in Read(cmd, line) : IsFlag(line[i]) => CanSet(cmd, line, i)

Acceptable(cmd, line) ==
  LET set == Settings(cmd, line)
  IN /\ WellFormed(cmd, line)
     /\ set["user"] # ""
     /\ IF cmd = "backup"
          THEN set["db"] \notin NoNames /\ set["out"] \notin HasCurly
          ELSE /\ \E w \in Words(line) : Words(line) = {w} /\ line[w] \notin HasCurly \cup {""}
               /\ set["db"] \notin HasComma \cup HasEquals \cup HasCurly

\* "Flags can go before or after the file": two passes read what one reading
\* from left to right does, and a second file or a bad flag is never dropped
\* silently.  (backup reads up to the first word only.)  The mark -- aside.
ReadsAsWritten ==
  outcome # "parsing" /\ (\A i \in Heads(given) : Is(given[i]) # "stop") =>
    /\ outcome = "accepted" <=> Acceptable(command, given)
    /\ outcome = "accepted" =>
         /\ flags = Settings(command, given)
         /\ command = "restore" => \E w \in Words(given) : Words(given) = {w} /\ file = given[w]

\* A second command whose file the parser takes for one, and whose name, which may
\* come from the backup, -db takes: what it asks for can be compared.
Comparable(o) == Is(o.file) = "word" /\ o.name \in Plain

SameSetting(flag, o) ==
  \/ flags[flag] = o.flags[flag]
  \/ flag = "no-owner" /\ o.flags[flag] # "true" /\ flags[flag] = Default[flag]

\* "a ready-to-run command that fixes it": the command that is offered parses,
\* and asks for the same file on the same server (provider, host, port, user) with
\* the same rights, under the name it offers; unless the file looks like a flag or
\* the name, taken from the backup, has a character that -db refuses.
OfferRuns ==
  offered # <<>> /\ outcome # "parsing" =>
    LET o == offered[1]
    IN Comparable(o) =>
         /\ outcome = "accepted"
         /\ file = o.file /\ flags["db"] = o.name
         /\ \A f \in {"provider", "host", "port", "user", "no-owner"} : SameSetting(f, o)
=============================================================================

---------------------------- MODULE MCCommandArgs ----------------------------
(***************************************************************************)
(* CommandArgs for TLC: a few arguments of every kind.                     *)
(***************************************************************************)
EXTENDS CommandArgs

Word == [is |-> "word", flag |-> "", to |-> ""]
Bare(f) == [is |-> "bare", flag |-> f, to |-> ""]
SetTo(f, v) == [is |-> "set", flag |-> f, to |-> v]

MCMeaning ==
  [s \in {"", "f", "g", "x,y", "c'", "07", "--", "-bad", "-h", "-user", "-provider", "-host",
          "-port", "-db", "-user=u", "-db=x=f", "-out=c'", "-no-owner", "-no-owner=false"} |->
     CASE s \in {"", "f", "g", "x,y", "c'", "07"} -> Word
       [] s = "--" -> [Word EXCEPT !.is = "stop"]
       [] s = "-bad" -> SetTo("bad", "")
       [] s = "-h" -> [Word EXCEPT !.is = "help"]
       [] s = "-user" -> Bare("user")
       [] s = "-provider" -> Bare("provider")
       [] s = "-host" -> Bare("host")
       [] s = "-port" -> Bare("port")
       [] s = "-db" -> Bare("db")
       [] s = "-user=u" -> SetTo("user", "u")
       [] s = "-db=x=f" -> SetTo("db", "x=f")
       [] s = "-out=c'" -> SetTo("out", "c'")
       [] s = "-no-owner" -> [Bare("no-owner") EXCEPT !.is = "bool"]
       [] s = "-no-owner=false" -> SetTo("no-owner", "false")]

MCNumber == [s \in {"7", "07"} |-> "7"]

Flags == {"provider", "host", "port", "user", "password", "db", "format", "yes",
          "non-interactive"}

MCKnown ==
  [c \in {"backup", "restore"} |->
     Flags \cup IF c = "backup" THEN {"out", "concurrency"} ELSE {"no-owner", "jobs"}]

MCDefault ==
  [f \in MCKnown["backup"] \cup MCKnown["restore"] |->
     CASE f = "provider" -> "postgres" [] f = "host" -> "localhost" [] f = "port" -> "0"
       [] f \in {"yes", "non-interactive", "no-owner"} -> "false"
       [] f = "out" -> "./backups" [] f = "concurrency" -> "3"
       [] OTHER -> ""]
=============================================================================

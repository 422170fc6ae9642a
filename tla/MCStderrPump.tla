---------------------------- MODULE MCStderrPump ----------------------------
(***************************************************************************)
(* StderrPump for TLC: what a restore tool may write.                      *)
(***************************************************************************)
EXTENDS StderrPump

Clean == [lines |-> <<"table", "other", "table", "other">>, code |-> 0, tool |-> "pg_restore"]
Ignoring == [lines |-> <<"table", "error", "other", "error", "summary">>, code |-> 1, tool |-> "pg_restore"]
Failing == [lines |-> <<"table", "error">>, code |-> 1, tool |-> "pg_restore"]
\* The statement that failed mentions the words of the summary; then the server
\* goes away.
Quoting == [lines |-> <<"error", "quoted", "table", "error">>, code |-> 1, tool |-> "pg_restore"]

PsqlFailing == [Failing EXCEPT !.tool = "psql"]

Usual == {Clean, Ignoring, Failing, Quoting, PsqlFailing}
OnlyQuoting == {Quoting}
=============================================================================

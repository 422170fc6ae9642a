---------------------------- MODULE MCRestoreTui ----------------------------
(***************************************************************************)
(* RestoreTui for TLC: two invocations that may want the same name, which  *)
(* may be that of a template: it passes the existence check.               *)
(***************************************************************************)
EXTENDS RestoreTui

MCBytes == [n \in {"app", "new", "mydb", "old", "template1"} |-> 9]
Template1 == <<"template1">>
MCTemplates == {Template1}
MCInitially == << <<"app">>, Template1 >>

Dump == [ext |-> "dump", is |-> "custom", recorded |-> <<"new">>]
Request(db) == [db |-> db, format |-> "", jobs |-> FALSE, file |-> Dump]

MCRequests == {Request(<<>>), Request(<<"app">>), Request(Template1)}
=============================================================================

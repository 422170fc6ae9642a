--------------------------- MODULE MCInspectTables ---------------------------
(***************************************************************************)
(* InspectTables for TLC.                                                  *)
(***************************************************************************)
EXTENDS InspectTables

T(schema, name) == [schema |-> schema, name |-> name]

\* No table, and four in three schemas.
MCDatabases == {<<>>, <<T("app", "a"), T("app", "b"), T("hr", "a"), T("log", "c")>>}
=============================================================================

----------------------------- MODULE MCRetention -----------------------------
(***************************************************************************)
(* Retention for TLC.                                                      *)
(***************************************************************************)
EXTENDS Retention

CONSTANTS j1, j2

MCCalls == {c \in Jobs \X (1 .. 2) : c[1] = j1 \/ c[2] = 1}

\* A list of two databases, one of which another job asks for too.
MCLists == [j \in Jobs |-> IF j = j1 THEN {<<"b", "a">>} ELSE {<<"a">>}]

\* One database per job, as the documentation has it; two jobs have the same.
Separate == [j \in Jobs |-> IF j = j1 THEN {<<"b">>} ELSE {<<"a">>}]
=============================================================================

---------------------------- MODULE InspectTables ----------------------------
(***************************************************************************)
(* postgres.Inspect (providers/postgres/inspect.go): list the tables of a  *)
(* database, count the rows of each in a goroutine of its own, no more     *)
(* than maxInspectConcurrency of them at a time, and group the counts by   *)
(* schema, or return the first error of the list.  What a query answers is *)
(* external, and so is the order the server sorts the list by.             *)
(***************************************************************************)
EXTENDS Integers, FiniteSets, Sequences

CONSTANTS MaxTables,             \* length of the longest list
          Databases,             \* the lists of tables: sequences of [schema, name]
          MaxInspectConcurrency, \* 4 in the code
          Counts                 \* the row counts a table may have

Table == 1 .. MaxTables

ASSUME MaxTablesAssumption == MaxTables \in Nat
ASSUME DatabasesAssumption ==
  \A ts \in Databases : ts \in Seq([schema : STRING, name : STRING]) /\ DOMAIN ts \subseteq Table
ASSUME ConcurrencyAssumption == MaxInspectConcurrency \in Nat \ {0}
ASSUME CountsAssumption == Counts \subseteq Nat

VARIABLES main,       \* the caller: "idle", "counting", "grouping", "returned"
          tables,     \* the list, empty until the query has answered
          pc,         \* where the goroutine of each table is
          sem,        \* tokens in the channel
          wg,         \* the wait group's counter
          cells,      \* counts[i] and errs[i]: what the goroutine stored
          err,        \* the error returned: none, of the list, of a table
          grouped,    \* how many tables are in the result
          schemas,    \* result.Schemas; a table in it is its position and count
          cancelled   \* has ctx been cancelled?

vars == <<main, tables, pc, sem, wg, cells, err, grouped, schemas, cancelled>>

Zero == [count |-> 0, failed |-> FALSE]

NoError == 0
ListError == -1

Init ==
  /\ main = "idle"
  /\ tables = <<>>
  /\ pc = [i \in Table |-> "unborn"]
  /\ sem = 0
  /\ wg = 0
  /\ cells = [i \in Table |-> Zero]
  /\ err = NoError
  /\ grouped = 0
  /\ schemas = <<>>
  /\ cancelled = FALSE

Listed == 1 .. Len(tables)

\* No name, no connection, or the list cannot be read.
ListFails ==
  /\ main = "idle"
  /\ err' = ListError
  /\ main' = "returned"
  /\ UNCHANGED <<tables, pc, sem, wg, cells, grouped, schemas, cancelled>>

ListAnswers ==
  /\ main = "idle" /\ ~cancelled
  /\ tables' \in Databases
  /\ main' = "counting"
  /\ UNCHANGED <<pc, sem, wg, cells, err, grouped, schemas, cancelled>>

\* One iteration of the loop over the tables.
Spawn(i) ==
  /\ main = "counting" /\ i \in Listed /\ pc[i] = "unborn"
  /\ \A j \in 1 .. i - 1 : pc[j] # "unborn"
  /\ wg' = wg + 1
  /\ pc' = [pc EXCEPT ![i] = "waiting"]
  /\ UNCHANGED <<main, tables, sem, cells, err, grouped, schemas, cancelled>>

Acquire(i) ==
  /\ pc[i] = "waiting" /\ sem < MaxInspectConcurrency
  /\ sem' = sem + 1
  /\ pc' = [pc EXCEPT ![i] = "counting"]
  /\ UNCHANGED <<main, tables, wg, cells, err, grouped, schemas, cancelled>>

CountRows_SlotKept(i) ==
  /\ pc[i] = "counting"
  /\ \/ /\ ~cancelled
        /\ \E n \in Counts : cells' = [cells EXCEPT ![i] = [count |-> n, failed |-> FALSE]]
        /\ pc' = [pc EXCEPT ![i] = "release"]
     \/ /\ cells' = [cells EXCEPT ![i] = [count |-> 0, failed |-> TRUE]]
        /\ pc' = [pc EXCEPT ![i] = "exit"]
  /\ UNCHANGED <<main, tables, sem, wg, err, grouped, schemas, cancelled>>

\* countRows answers, or fails; on a cancelled context it fails.
CountRows(i) ==
  /\ pc[i] = "counting"
  /\ \/ /\ ~cancelled
        /\ \E n \in Counts : cells' = [cells EXCEPT ![i] = [count |-> n, failed |-> FALSE]]
     \/ cells' = [cells EXCEPT ![i] = [count |-> 0, failed |-> TRUE]]
  /\ pc' = [pc EXCEPT ![i] = "release"]
  /\ UNCHANGED <<main, tables, sem, wg, err, grouped, schemas, cancelled>>

\* The two deferred calls of the goroutine, last deferred first.
Release(i) ==
  /\ pc[i] = "release"
  /\ sem' = sem - 1
  /\ pc' = [pc EXCEPT ![i] = "exit"]
  /\ UNCHANGED <<main, tables, wg, cells, err, grouped, schemas, cancelled>>

Done(i) ==
  /\ pc[i] = "exit"
  /\ wg' = wg - 1
  /\ pc' = [pc EXCEPT ![i] = "done"]
  /\ UNCHANGED <<main, tables, sem, cells, err, grouped, schemas, cancelled>>

Failed == {i \in Listed : cells[i].failed}

\* Returns as soon as a count has failed, as an errgroup's user might.
Wait_FirstFailure ==
  /\ main = "counting" /\ \A i \in Listed : pc[i] # "unborn"
  /\ wg = 0 \/ Failed # {}
  /\ IF Failed = {}
       THEN main' = "grouping" /\ UNCHANGED err
       ELSE /\ err' = CHOOSE i \in Failed : \A j \in Failed : i <= j
            /\ main' = "returned"
  /\ UNCHANGED <<tables, pc, sem, wg, cells, grouped, schemas, cancelled>>

\* wg.Wait, and the first error of the list.
Wait ==
  /\ main = "counting" /\ wg = 0 /\ \A i \in Listed : pc[i] # "unborn"
  /\ IF Failed = {}
       THEN main' = "grouping" /\ UNCHANGED err
       ELSE /\ err' = CHOOSE i \in Failed : \A j \in Failed : i <= j
            /\ main' = "returned"
  /\ UNCHANGED <<tables, pc, sem, wg, cells, grouped, schemas, cancelled>>

Entry(i) == [at |-> i, rows |-> cells[i].count]

AddTo_LastSchema(i) ==
  LET n == Len(schemas)
  IN IF n > 0 /\ schemas[n].name = tables[i].schema
       THEN [schemas EXCEPT ![n].tables = <<Entry(i)>>]
       ELSE Append(schemas, [name |-> tables[i].schema, tables |-> <<Entry(i)>>])

\* schemaIdx: table i goes to the group of its schema, or starts it.
AddTo(i) ==
  LET same == {k \in DOMAIN schemas : schemas[k].name = tables[i].schema}
  IN IF same = {}
       THEN Append(schemas, [name |-> tables[i].schema, tables |-> <<Entry(i)>>])
       ELSE LET k == CHOOSE k \in same : TRUE
            IN [schemas EXCEPT ![k].tables = Append(@, Entry(i))]

\* One iteration of the loop over the counted tables, or its end.
Group ==
  /\ main = "grouping"
  /\ IF grouped < Len(tables)
       THEN /\ schemas' = AddTo(grouped + 1)
            /\ grouped' = grouped + 1
            /\ UNCHANGED main
       ELSE main' = "returned" /\ UNCHANGED <<grouped, schemas>>
  /\ UNCHANGED <<tables, pc, sem, wg, cells, err, cancelled>>

Cancel ==
  /\ ~cancelled /\ cancelled' = TRUE
  /\ UNCHANGED <<main, tables, pc, sem, wg, cells, err, grouped, schemas>>

Goroutine(i) == Acquire(i) \/ CountRows(i) \/ Release(i) \/ Done(i)

Over == main = "returned" /\ UNCHANGED vars

Next ==
  \/ ListFails \/ ListAnswers \/ Wait \/ Group \/ Cancel
  \/ \E i \in Table : Spawn(i) \/ Goroutine(i)
  \/ Over

\* Queries end with an answer or an error, and the scheduler is fair.
Fairness ==
  /\ WF_vars(ListFails \/ ListAnswers) /\ WF_vars(Wait) /\ WF_vars(Group)
  /\ \A i \in Table : WF_vars(Spawn(i)) /\ WF_vars(Goroutine(i))

Spec == Init /\ [][Next]_vars
FairSpec == Spec /\ Fairness
-----------------------------------------------------------------------------
\* sem counts the goroutines that hold a slot and wg those that are not done.
TypeOK ==
  /\ main \in {"idle", "counting", "grouping", "returned"}
  /\ tables \in Databases \cup {<<>>}
  /\ pc \in [Table -> {"unborn", "waiting", "counting", "release", "exit", "done"}]
  /\ sem \in 0 .. MaxInspectConcurrency /\ wg \in 0 .. Len(tables)
  /\ cells \in [Table -> [count : Counts \cup {0}, failed : BOOLEAN]]
  /\ err \in {NoError, ListError} \cup Table
  /\ grouped \in 0 .. Len(tables)
  /\ cancelled \in BOOLEAN
  /\ sem = Cardinality({i \in Table : pc[i] \in {"counting", "release"}})
  /\ wg = Cardinality({i \in Table : pc[i] \notin {"unborn", "done"}})

\* "reports every user table [...] along with an exact row count for each": a
\* result without error has every table of the list once, under its schema,
\* with the count of its own query, and a schema is named once.
AllReported ==
  /\ \A j, k \in DOMAIN schemas : schemas[j].name = schemas[k].name => j = k
  /\ \A i \in Listed :
       \E k \in DOMAIN schemas : \E t \in DOMAIN schemas[k].tables :
         /\ schemas[k].name = tables[i].schema
         /\ schemas[k].tables[t] = Entry(i)
         /\ \A m \in DOMAIN schemas : \A u \in DOMAIN schemas[m].tables :
              schemas[m].tables[u].at = i => m = k /\ u = t
  /\ \A k \in DOMAIN schemas : \A t \in DOMAIN schemas[k].tables :
       schemas[k].tables[t].at \in Listed

\* An error wins over every count, whenever its query ends, and it is the first
\* of the list, not the first to happen; a partial result never comes with it.
ReportIsExact ==
  main = "returned" =>
    /\ err \in Table => \A i \in Listed : cells[i].failed => err <= i
    /\ err = NoError => AllReported /\ \A i \in Listed : pc[i] = "done" /\ ~cells[i].failed
    /\ err # NoError => schemas = <<>>

\* Nobody waits for a slot that nobody will give back, and wg.Wait waits for
\* nobody in vain; the goroutines that wait cannot be cancelled.
SomebodyCanRun ==
  main = "counting" =>
    \/ wg = 0
    \/ \E i \in Listed : pc[i] # "done" /\ (pc[i] = "waiting" => sem < MaxInspectConcurrency)

\* Inspect returns, whichever queries fail and whenever the context is
\* cancelled: goroutines waiting for a slot do not watch the context.
InspectReturns == main = "counting" ~> main = "returned"

\* The goroutines keep the contract of the backup batch, which has the same
\* shape: no more than so many at a time, one outcome each, all waited for.
Contract == INSTANCE BatchContract WITH
  phase    <- CASE main = "counting" -> "running"
                [] main = "grouping" \/ (main = "returned" /\ err # ListError) -> "returned"
                [] OTHER -> "idle",
  called   <- Listed,
  active   <- {i \in Table : pc[i] = "counting"},
  outcome  <- [i \in Table |-> IF pc[i] \in {"release", "exit", "done"} THEN <<cells[i]>> ELSE <<>>],
  stored   <- {i \in Table : pc[i] \in {"release", "exit", "done"}},
  told     <- [i \in Table |-> 0],
  Target   <- Table,
  Slots    <- MaxInspectConcurrency,
  Outcomes <- [i \in Table |-> {<<c>> : c \in [count : Counts \cup {0}, failed : BOOLEAN]}],
  Skipped  <- [i \in Table |-> <<Zero>>],
  Unset    <- <<>>,
  Telling  <- FALSE

ImplementsContract == Contract!Spec
=============================================================================

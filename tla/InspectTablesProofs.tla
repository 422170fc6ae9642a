------------------------- MODULE InspectTablesProofs -------------------------
(***************************************************************************)
(* Proofs about InspectTables, for any list of tables, any number of slots *)
(* and any counts: the channel and the wait group count goroutines, so the *)
(* caller reads the cells only after the last of them was written, and the *)
(* result it then builds has every table once.                             *)
(***************************************************************************)
EXTENDS InspectTables, FiniteSetTheorems, WellFoundedInduction, TLAPS

USE MaxTablesAssumption, ConcurrencyAssumption DEF Table

PC == {"unborn", "waiting", "counting", "release", "exit", "done"}
HoldingPC == {"counting", "release"}
LivePC == PC \ {"unborn", "done"}
Counted == {"release", "exit", "done"}

\* The goroutines at one of the places, with p for pc.
At(p, places) == {i \in Table : p[i] \in places}
Holding == At(pc, HoldingPC)
Live == At(pc, LivePC)

Cell == [count : Counts \cup {0}, failed : BOOLEAN]
Row == [at : Table, rows : Counts \cup {0}]
SchemaGroup == [name : STRING, tables : Seq(Row)]

Types ==
  /\ main \in {"idle", "counting", "grouping", "returned"}
  /\ tables \in Databases \cup {<<>>}
  /\ pc \in [Table -> PC]
  /\ sem \in Int
  /\ wg \in Int
  /\ cells \in [Table -> Cell]
  /\ err \in {NoError, ListError} \cup Table
  /\ grouped \in 0 .. Len(tables)
  /\ cancelled \in BOOLEAN

\* The channel and the wait group count goroutines.
Counters ==
  /\ sem = Cardinality(Holding) /\ sem <= MaxInspectConcurrency
  /\ wg = Cardinality(Live)

\* Where the goroutines are, given where the caller is.
Places ==
  /\ \A i \in Table : pc[i] # "unborn" => i \in Listed /\ main # "idle"
  /\ \A i \in Table : pc[i] \notin Counted => cells[i] = Zero
  /\ main = "idle" => tables = <<>>
  /\ main \in {"idle", "counting", "grouping"} => err = NoError
  /\ main \in {"idle", "counting"} => grouped = 0 /\ schemas = <<>>
  /\ err = ListError => tables = <<>>
  /\ main \in {"grouping", "returned"} => \A i \in Listed : pc[i] = "done"
  /\ main = "grouping" => Failed = {}
  /\ err # NoError => schemas = <<>>
  /\ main = "returned" /\ err = NoError => Failed = {} /\ grouped = Len(tables)
  /\ err \in Table => \A i \in Listed : cells[i].failed => err <= i

\* The first tables of the list are in the result, each once.
Reported(n) ==
  /\ \A j, k \in DOMAIN schemas : schemas[j].name = schemas[k].name => j = k
  /\ \A i \in 1 .. n :
       \E k \in DOMAIN schemas : \E t \in DOMAIN schemas[k].tables :
         /\ schemas[k].name = tables[i].schema
         /\ schemas[k].tables[t] = Entry(i)
         /\ \A m \in DOMAIN schemas : \A u \in DOMAIN schemas[m].tables :
              schemas[m].tables[u].at = i => m = k /\ u = t
  /\ \A k \in DOMAIN schemas : \A t \in DOMAIN schemas[k].tables :
       schemas[k].tables[t].at \in 1 .. n

Groups ==
  /\ schemas \in Seq(SchemaGroup)
  /\ err = NoError => Reported(grouped)

IInv == Types /\ Counters /\ Places /\ Groups
-----------------------------------------------------------------------------
LEMMA TableFinite == IsFiniteSet(Table) /\ Cardinality(Table) = MaxTables
  BY FS_Interval

\* The list of a database has a length and names tables.
LEMMA Lists ==
  ASSUME NEW ts \in Databases \cup {<<>>}
  PROVE  /\ ts \in Seq([schema : STRING, name : STRING]) /\ Len(ts) \in Nat
         /\ 1 .. Len(ts) \subseteq Table /\ Len(ts) <= MaxTables
<1>1. CASE ts = <<>>
  BY <1>1
<1>2. CASE ts \in Databases
  <2>1. ts \in Seq([schema : STRING, name : STRING]) /\ DOMAIN ts \subseteq Table
    BY <1>2, DatabasesAssumption
  <2>2. Len(ts) \in Nat /\ DOMAIN ts = 1 .. Len(ts)
    BY <2>1
  <2>3. CASE Len(ts) = 0
    BY <2>1, <2>2, <2>3
  <2>4. CASE Len(ts) # 0
    <3>1. Len(ts) \in 1 .. Len(ts)
      BY <2>2, <2>4
    <3>2. Len(ts) \in 1 .. MaxTables
      BY <2>1, <2>2, <3>1
    <3> QED
      BY <2>1, <2>2, <3>2
  <2> QED
    BY <2>2, <2>3, <2>4
<1> QED
  BY <1>1, <1>2

LEMMA Element ==
  ASSUME NEW S, NEW s \in Seq(S), NEW i \in 1 .. Len(s)
  PROVE  s[i] \in S
  OBVIOUS

LEMMA Replaced ==
  ASSUME NEW S, NEW s \in Seq(S), NEW i \in DOMAIN s, NEW e \in S
  PROVE  /\ DOMAIN [s EXCEPT ![i] = e] = DOMAIN s /\ [s EXCEPT ![i] = e][i] = e
         /\ [s EXCEPT ![i] = e] \in Seq(S)
         /\ \A m \in DOMAIN s \ {i} : [s EXCEPT ![i] = e][m] = s[m]
  OBVIOUS

\* One goroutine moving changes a count of goroutines by what it leaves and
\* what it enters.
LEMMA Move ==
  ASSUME NEW p \in [Table -> PC], NEW q \in [Table -> PC], NEW i \in Table,
         \A j \in Table \ {i} : q[j] = p[j], NEW places
  PROVE  Cardinality(At(q, places)) =
           Cardinality(At(p, places)) + (IF q[i] \in places THEN 1 ELSE 0)
                                      - (IF p[i] \in places THEN 1 ELSE 0)
<1>1. IsFiniteSet(At(p, places)) /\ Cardinality(At(p, places)) \in Nat
  BY TableFinite, FS_Subset, FS_CardinalityType DEF At
<1>2. CASE p[i] \notin places /\ q[i] \in places
  <2>1. At(q, places) = At(p, places) \cup {i} /\ i \notin At(p, places)
    BY <1>2 DEF At
  <2>2. Cardinality(At(q, places)) = Cardinality(At(p, places)) + 1
    BY <1>1, <2>1, FS_AddElement
  <2> QED
    BY <1>1, <1>2, <2>2
<1>3. CASE p[i] \in places /\ q[i] \notin places
  <2>1. At(q, places) = At(p, places) \ {i} /\ i \in At(p, places)
    BY <1>3 DEF At
  <2>2. Cardinality(At(q, places)) = Cardinality(At(p, places)) - 1
    BY <1>1, <2>1, FS_RemoveElement
  <2> QED
    BY <1>1, <1>3, <2>2
<1>4. CASE (p[i] \in places) = (q[i] \in places)
  <2>1. At(q, places) = At(p, places)
    BY <1>4 DEF At
  <2> QED
    BY <1>1, <1>4, <2>1
<1> QED
  BY <1>2, <1>3, <1>4

LEMMA InitIInv == Init => IInv
<1> SUFFICES ASSUME Init PROVE IInv
  OBVIOUS
<1>1. Types
  <2>1. Zero \in Cell
    BY DEF Zero, Cell
  <2>2. cells \in [Table -> Cell] /\ pc \in [Table -> PC]
    BY <2>1 DEF Init, PC
  <2>3. tables = <<>> /\ grouped = 0 /\ Len(tables) = 0
    BY DEF Init
  <2>4. cancelled \in BOOLEAN
    BY DEF Init
  <2> QED
    BY <2>2, <2>3, <2>4 DEF Init, Types
<1>2. Holding = {} /\ Live = {}
  BY DEF Init, Holding, Live, At, HoldingPC, LivePC
<1>3. Counters
  BY <1>2, FS_EmptySet DEF Init, Counters
<1>4. Places
  BY DEF Init, Places, NoError, ListError, Counted
<1>5. Groups
  <2>1. schemas = <<>> /\ DOMAIN schemas = {} /\ grouped = 0
    BY DEF Init
  <2> QED
    BY <2>1 DEF Groups, Reported
<1> QED
  BY <1>1, <1>3, <1>4, <1>5 DEF IInv

\* Goroutine i is at s next, and no other goroutine moves.
Moves(i, s) ==
  /\ pc' \in [Table -> PC]
  /\ pc'[i] = s
  /\ \A j \in Table \ {i} : pc'[j] = pc[j]

\* What every step of a goroutine does to the counts.
LEMMA GoroutineMoves ==
  ASSUME IInv, NEW i \in Table, NEW s \in PC, Moves(i, s)
  PROVE  /\ Cardinality(Holding') = sem + (IF s \in HoldingPC THEN 1 ELSE 0)
              - (IF pc[i] \in HoldingPC THEN 1 ELSE 0)
         /\ Cardinality(Live') = wg + (IF s \in LivePC THEN 1 ELSE 0)
              - (IF pc[i] \in LivePC THEN 1 ELSE 0)
<1>1. /\ pc \in [Table -> PC]
      /\ sem = Cardinality(Holding)
      /\ wg = Cardinality(Live)
  BY DEF IInv, Types, Counters
<1>2. Cardinality(Holding') = Cardinality(Holding)
           + (IF pc'[i] \in HoldingPC THEN 1 ELSE 0)
           - (IF pc[i] \in HoldingPC THEN 1 ELSE 0)
  BY <1>1, Move DEF Moves, Holding
<1>3. Cardinality(Live') = Cardinality(Live)
           + (IF pc'[i] \in LivePC THEN 1 ELSE 0)
           - (IF pc[i] \in LivePC THEN 1 ELSE 0)
  BY <1>1, Move DEF Moves, Live
<1> QED
  BY <1>1, <1>2, <1>3 DEF Moves

\* A goroutine under way belongs to the call under way.
LEMMA UnderWay ==
  ASSUME IInv, NEW i \in Table, pc[i] \in LivePC
  PROVE  i \in Listed /\ main = "counting"
  BY DEF IInv, Types, Places, LivePC

\* A result that is not touched stays as it was.
LEMMA GroupsStay ==
  ASSUME IInv, UNCHANGED <<tables, schemas, grouped>>,
         err' = NoError => err = NoError,
         \A i \in 1 .. grouped : cells'[i] = cells[i]
  PROVE  Groups'
<1>1. schemas \in Seq(SchemaGroup) /\ (err = NoError => Reported(grouped))
  BY DEF IInv, Groups
<1>2. \A i \in 1 .. grouped : Entry(i)' = Entry(i)
  BY DEF Entry
<1>3. Reported(grouped) => Reported(grouped)'
  BY <1>2 DEF Reported
<1> QED
  BY <1>1, <1>3 DEF Groups

\* Tables that failed have a first one.
LEMMA FirstFailure ==
  ASSUME NEW S \in SUBSET Nat, S # {}
  PROVE  \E i \in S : \A j \in S : i <= j
<1>1. PICK i \in S : \A j \in S : ~ (<<j, i>> \in OpToRel(<, Nat))
  BY WFMin, NatLessThanWellFounded, Zenon
<1>2. \A j \in S : <<j, i>> \in OpToRel(<, Nat) <=> j < i
  BY Zenon DEF OpToRel
<1>3. \A j \in S : ~ (j < i)
  BY Zenon, <1>1, <1>2
<1>4. \A m, n \in Nat : ~ (m < n) => n <= m
  OBVIOUS
<1>5. S \subseteq Nat
  OBVIOUS
<1> QED
  BY Zenon, <1>3, <1>4, <1>5
-----------------------------------------------------------------------------
(* The steps, one lemma each.                                              *)

LEMMA ListFailsIInv == ASSUME IInv, ListFails PROVE IInv'
<1> USE DEF ListFails
<1>0. main = "idle" /\ tables = <<>> /\ schemas = <<>> /\ Listed = {} /\ Len(tables) = 0
  BY DEF IInv, Places, Listed
<1>1. Types'
  BY DEF IInv, Types, ListError
<1>2. Holding' = Holding /\ Live' = Live
  BY DEF Holding, Live, At
<1>3. Counters'
  BY <1>2 DEF IInv, Counters
<1>4. Places'
  BY <1>0 DEF IInv, Places, Listed, Failed, ListError, NoError
<1>5. Groups'
  BY <1>0 DEF IInv, Groups, ListError, NoError
<1> QED
  BY <1>1, <1>3, <1>4, <1>5 DEF IInv

LEMMA ListAnswersIInv == ASSUME IInv, ListAnswers PROVE IInv'
<1> USE DEF ListAnswers
<1>0. /\ main = "idle" /\ schemas = <<>> /\ grouped = 0 /\ err = NoError
      /\ \A i \in Table : pc[i] = "unborn"
  BY DEF IInv, Places
<1>1. Types'
  <2>1. Len(tables') \in Nat
    BY Lists
  <2> QED
    BY <1>0, <2>1 DEF IInv, Types
<1>2. Holding' = Holding /\ Live' = Live
  BY DEF Holding, Live, At
<1>3. Counters'
  BY <1>2 DEF IInv, Counters
<1>4. Places'
  BY <1>0 DEF IInv, Places, ListError, NoError
<1>5. Groups'
  <2>1. DOMAIN schemas' = {} /\ grouped' = 0 /\ schemas' = <<>>
    BY <1>0
  <2>2. Reported(grouped)'
    BY <2>1 DEF Reported
  <2> QED
    BY <1>0, <2>1, <2>2 DEF Groups, IInv
<1> QED
  BY <1>1, <1>3, <1>4, <1>5 DEF IInv

\* What is left to show of a goroutine's step that stores nothing.
LEMMA GoroutineStep ==
  ASSUME IInv, NEW i \in Table, NEW s \in PC, Moves(i, s), i \in Listed, main = "counting",
         UNCHANGED <<main, tables, err, grouped, schemas, cancelled>>,
         \A j \in Table \ {i} : cells'[j] = cells[j],
         s \notin Counted => cells'[i] = Zero,
         cells' \in [Table -> Cell],
         sem' = sem + (IF s \in HoldingPC THEN 1 ELSE 0) - (IF pc[i] \in HoldingPC THEN 1 ELSE 0),
         wg' = wg + (IF s \in LivePC THEN 1 ELSE 0) - (IF pc[i] \in LivePC THEN 1 ELSE 0),
         sem' <= MaxInspectConcurrency,
         s # "unborn"
  PROVE  IInv'
<1>1. Types'
  BY DEF IInv, Types, Moves
<1>2. Counters'
  BY GoroutineMoves DEF Counters
<1>3. grouped = 0 /\ schemas = <<>> /\ err = NoError
  BY DEF IInv, Places
<1>4. Places'
  <2>1. \A j \in Table : pc'[j] # "unborn" => j \in Listed
    BY DEF IInv, Places, Moves
  <2>2. \A j \in Table : pc'[j] \notin Counted => cells'[j] = Zero
    BY DEF IInv, Places, Moves
  <2> QED
    BY <1>3, <2>1, <2>2 DEF Places, Listed, NoError, ListError
<1>5. Groups'
  BY <1>3, GroupsStay
<1> QED
  BY <1>1, <1>2, <1>4, <1>5 DEF IInv

LEMMA GoroutineIInv ==
  ASSUME IInv, NEW i \in Table, Spawn(i) \/ Goroutine(i)
  PROVE  IInv'
<1>0. /\ pc \in [Table -> PC] /\ cells \in [Table -> Cell] /\ sem \in Int /\ wg \in Int
      /\ sem <= MaxInspectConcurrency
  BY DEF IInv, Types, Counters
<1>1. CASE Spawn(i)
  <2> USE DEF Spawn
  <2>1. "waiting" \in PC /\ Moves(i, "waiting") /\ pc[i] = "unborn"
    BY <1>0, <1>1 DEF Moves, PC
  <2>2. cells[i] = Zero
    BY <2>1 DEF IInv, Places, Counted
  <2> QED
    BY <1>0, <1>1, <2>1, <2>2, GoroutineStep DEF HoldingPC, LivePC, PC
<1>2. CASE Acquire(i)
  <2> USE DEF Acquire
  <2>1. "counting" \in PC /\ Moves(i, "counting") /\ pc[i] = "waiting"
    BY <1>0, <1>2 DEF Moves, PC
  <2>2. cells[i] = Zero
    BY <2>1 DEF IInv, Places, Counted
  <2>3. i \in Listed /\ main = "counting"
    BY <2>1, UnderWay DEF LivePC, PC
  <2> QED
    BY <1>0, <1>2, <2>1, <2>2, <2>3, GoroutineStep DEF HoldingPC, LivePC, PC
<1>3. CASE CountRows(i)
  <2> USE DEF CountRows
  <2>1. "release" \in PC /\ Moves(i, "release") /\ pc[i] = "counting"
    BY <1>0, <1>3 DEF Moves, PC
  <2>2. i \in Listed /\ main = "counting"
    BY <2>1, UnderWay DEF LivePC, PC
  <2>3. PICK c \in Cell : cells' = [cells EXCEPT ![i] = c]
    BY <1>3 DEF Cell
  <2>4. cells' \in [Table -> Cell] /\ \A j \in Table \ {i} : cells'[j] = cells[j]
    BY <1>0, <2>3
  <2> QED
    BY <1>0, <1>3, <2>1, <2>2, <2>4, GoroutineStep DEF HoldingPC, LivePC, PC, Counted
<1>4. CASE Release(i)
  <2> USE DEF Release
  <2>1. "exit" \in PC /\ Moves(i, "exit") /\ pc[i] = "release"
    BY <1>0, <1>4 DEF Moves, PC
  <2>2. i \in Listed /\ main = "counting"
    BY <2>1, UnderWay DEF LivePC, PC
  <2> QED
    BY <1>0, <1>4, <2>1, <2>2, GoroutineStep DEF HoldingPC, LivePC, PC, Counted
<1>5. CASE Done(i)
  <2> USE DEF Done
  <2>1. "done" \in PC /\ Moves(i, "done") /\ pc[i] = "exit"
    BY <1>0, <1>5 DEF Moves, PC
  <2>2. i \in Listed /\ main = "counting"
    BY <2>1, UnderWay DEF LivePC, PC
  <2> QED
    BY <1>0, <1>5, <2>1, <2>2, GoroutineStep DEF HoldingPC, LivePC, PC, Counted
<1> QED
  BY <1>1, <1>2, <1>3, <1>4, <1>5 DEF Goroutine

\* The wait group is at zero only when every goroutine is done.
LEMMA WaitIInv == ASSUME IInv, Wait PROVE IInv'
<1> USE DEF Wait
<1>1. Live = {}
  <2>1. IsFiniteSet(Live)
    BY TableFinite, FS_Subset DEF Live, At
  <2> QED
    BY <2>1, FS_EmptySet DEF IInv, Counters
<1>2. Listed \subseteq Table
  BY Lists DEF IInv, Types, Listed
<1>3. \A i \in Listed : pc[i] = "done"
  BY <1>1, <1>2 DEF IInv, Types, Live, LivePC, At
<1>4. grouped = 0 /\ schemas = <<>> /\ err = NoError
  BY DEF IInv, Places
<1>5. /\ UNCHANGED <<tables, pc, sem, wg, cells, grouped, schemas, cancelled>>
      /\ \/ Failed = {} /\ main' = "grouping" /\ err' = NoError
         \/ /\ Failed # {} /\ main' = "returned" /\ err' \in Failed
            /\ \A j \in Failed : err' <= j
  <2>1. Failed \in SUBSET Nat
    <3>1. Failed \subseteq Listed /\ Table \subseteq Nat
      BY DEF Failed
    <3> QED
      BY Zenon, <1>2, <3>1
  <2>2. Failed # {} => \E i \in Failed : \A j \in Failed : i <= j
    BY <2>1, FirstFailure
  <2> QED
    BY <1>4, <2>2
<1>6. Types'
  BY <1>2, <1>5 DEF IInv, Types, Failed
<1>7. Holding' = Holding /\ Live' = Live
  BY <1>5 DEF Holding, Live, At
<1>8. Counters'
  BY <1>5, <1>7 DEF IInv, Counters
<1>9. Listed' = Listed /\ Failed' = Failed
  BY <1>5 DEF Listed, Failed
<1>10. NoError \notin Table /\ ListError \notin Table /\ ListError # NoError
  BY DEF NoError, ListError
<1>11. Places'
  <2>1. /\ \A i \in Table : pc'[i] # "unborn" => i \in Listed' /\ main' # "idle"
        /\ \A i \in Table : pc'[i] \notin Counted => cells'[i] = Zero
    BY <1>5, <1>9 DEF IInv, Places
  <2>2. err' \in Table => \A i \in Listed' : cells'[i].failed => err' <= i
    BY <1>5, <1>9, <1>10 DEF Failed
  <2>3. /\ main' \in {"idle", "counting", "grouping"} => err' = NoError
        /\ err' = ListError => tables' = <<>>
        /\ main' = "grouping" => Failed' = {}
        /\ main' = "returned" => err' # NoError
        /\ main' # "idle"
    BY <1>2, <1>4, <1>5, <1>9, <1>10 DEF Failed
  <2> QED
    BY <1>3, <1>4, <1>5, <1>9, <2>1, <2>2, <2>3 DEF Places
<1>12. Groups'
  BY <1>4, <1>5, GroupsStay
<1> QED
  BY <1>6, <1>8, <1>11, <1>12 DEF IInv
-----------------------------------------------------------------------------
(* Grouping: table n becomes entry u of group k, and all else stays.       *)

Adds(n, k, u) ==
  /\ \A m \in DOMAIN schemas :
       /\ m \in DOMAIN schemas' /\ schemas'[m].name = schemas[m].name
       /\ \A w \in DOMAIN schemas[m].tables :
            /\ w \in DOMAIN schemas'[m].tables
            /\ schemas'[m].tables[w] = schemas[m].tables[w]
  /\ k \in DOMAIN schemas' /\ schemas'[k].name = tables[n].schema
  /\ u \in DOMAIN schemas'[k].tables /\ schemas'[k].tables[u] = Entry(n)
  /\ \A m \in DOMAIN schemas' : \A w \in DOMAIN schemas'[m].tables :
       \/ m = k /\ w = u
       \/ m \in DOMAIN schemas /\ w \in DOMAIN schemas[m].tables
  /\ \A j, m \in DOMAIN schemas' : schemas'[j].name = schemas'[m].name => j = m
  /\ schemas' \in Seq(SchemaGroup)

LEMMA NewGroup ==
  ASSUME NEW n, n \in Table, tables[n].schema \in STRING, Entry(n) \in Row,
         schemas \in Seq(SchemaGroup),
         \A j, k \in DOMAIN schemas : schemas[j].name = schemas[k].name => j = k,
         \A k \in DOMAIN schemas : schemas[k].name # tables[n].schema,
         schemas' = Append(schemas, [name |-> tables[n].schema, tables |-> <<Entry(n)>>])
  PROVE  \E k, u : Adds(n, k, u)
<1> DEFINE L == Len(schemas)
           g == [name |-> tables[n].schema, tables |-> <<Entry(n)>>]
<1>1. g \in SchemaGroup /\ DOMAIN g.tables = {1} /\ g.tables[1] = Entry(n)
      /\ g.name = tables[n].schema
  BY DEF SchemaGroup
<1> HIDE DEF g
<1>2. /\ L \in Nat /\ DOMAIN schemas = 1 .. L
      /\ DOMAIN schemas' = 1 .. L + 1 /\ schemas'[L + 1] = g
      /\ \A m \in 1 .. L : schemas'[m] = schemas[m]
      /\ schemas' \in Seq(SchemaGroup)
  BY <1>1 DEF g
<1>3. Adds(n, L + 1, 1)
  <2>1. \A j, m \in DOMAIN schemas' : schemas'[j].name = schemas'[m].name => j = m
    <3> SUFFICES ASSUME NEW j \in 1 .. L + 1, NEW m \in 1 .. L + 1,
                        schemas'[j].name = schemas'[m].name
                 PROVE  j = m
      BY <1>2
    <3>1. \A i \in 1 .. L + 1 : i \in 1 .. L \/ i = L + 1
      BY <1>2
    <3> QED
      BY <1>1, <1>2, <3>1
  <2>2. \A i \in 1 .. L + 1 : i \in 1 .. L \/ i = L + 1
    BY <1>2
  <2>3. L + 1 \in 1 .. L + 1 /\ \A i \in 1 .. L : i \in 1 .. L + 1
    BY <1>2
  <2> HIDE DEF L
  <2> QED
    BY <1>1, <1>2, <2>1, <2>2, <2>3 DEF Adds
<1> QED
  BY <1>3

LEMMA OldGroup ==
  ASSUME NEW n, n \in Table, Entry(n) \in Row, schemas \in Seq(SchemaGroup),
         \A j, k \in DOMAIN schemas : schemas[j].name = schemas[k].name => j = k,
         NEW k \in DOMAIN schemas, schemas[k].name = tables[n].schema,
         schemas' = [schemas EXCEPT ![k].tables = Append(@, Entry(n))]
  PROVE  \E u : Adds(n, k, u)
<1> DEFINE old == schemas[k].tables
           L == Len(old)
           g == [schemas[k] EXCEPT !.tables = Append(old, Entry(n))]
<1>1. schemas[k] \in SchemaGroup
  OBVIOUS
<1>2. old \in Seq(Row)
  BY <1>1 DEF SchemaGroup
<1>3. /\ L \in Nat /\ DOMAIN old = 1 .. L /\ Append(old, Entry(n)) \in Seq(Row)
      /\ DOMAIN Append(old, Entry(n)) = 1 .. L + 1
      /\ Append(old, Entry(n))[L + 1] = Entry(n)
      /\ \A w \in 1 .. L : Append(old, Entry(n))[w] = old[w]
  BY <1>2
<1>4. g \in SchemaGroup /\ g.name = schemas[k].name /\ g.tables = Append(old, Entry(n))
  BY <1>1, <1>3 DEF SchemaGroup
<1>5. schemas' = [schemas EXCEPT ![k] = g]
  OBVIOUS
<1> HIDE DEF g
<1>6. /\ DOMAIN schemas' = DOMAIN schemas /\ schemas'[k] = g
      /\ \A m \in DOMAIN schemas \ {k} : schemas'[m] = schemas[m]
      /\ schemas' \in Seq(SchemaGroup)
  <2> DEFINE new == [schemas EXCEPT ![k] = g]
  <2>1. /\ DOMAIN new = DOMAIN schemas /\ new[k] = g /\ new \in Seq(SchemaGroup)
        /\ \A m \in DOMAIN schemas \ {k} : new[m] = schemas[m]
    BY <1>4, Replaced
  <2> HIDE DEF new
  <2>2. schemas' = new
    BY <1>5 DEF new
  <2> QED
    BY <2>1, <2>2
<1>7. /\ DOMAIN schemas'[k].tables = 1 .. L + 1 /\ schemas'[k].tables[L + 1] = Entry(n)
      /\ \A w \in 1 .. L : schemas'[k].tables[w] = schemas[k].tables[w]
      /\ schemas'[k].name = tables[n].schema /\ DOMAIN schemas[k].tables = 1 .. L
  BY <1>3, <1>4, <1>6
<1>8. Adds(n, k, L + 1)
  <2>1. /\ \A i \in 1 .. L + 1 : i \in 1 .. L \/ i = L + 1
        /\ L + 1 \in 1 .. L + 1 /\ \A i \in 1 .. L : i \in 1 .. L + 1
    BY <1>3
  <2>2. \A m \in DOMAIN schemas : schemas'[m].name = schemas[m].name
    BY <1>6, <1>7
  <2>3. \A j, m \in DOMAIN schemas' : schemas'[j].name = schemas'[m].name => j = m
    BY <1>6, <2>2
  <2> HIDE DEF L, old
  <2> QED
    BY <1>6, <1>7, <2>1, <2>2, <2>3 DEF Adds
<1> QED
  BY <1>8

\* One more table is in the result, and none twice.
LEMMA AddsReports ==
  ASSUME NEW n \in Nat, Reported(n), NEW k, NEW u, Adds(n + 1, k, u),
         UNCHANGED <<cells, tables>>
  PROVE  Reported(n + 1)'
<1>1. \A i : Entry(i)' = Entry(i) /\ Entry(i).at = i
  BY DEF Entry
<1>2. \A i \in 1 .. n + 1 : i \in 1 .. n \/ i = n + 1
  OBVIOUS
<1>3. n + 1 \notin 1 .. n /\ n + 1 \in 1 .. n + 1 /\ \A i \in 1 .. n : i \in 1 .. n + 1
  OBVIOUS
<1>4. \A j, m \in DOMAIN schemas' : schemas'[j].name = schemas'[m].name => j = m
  BY DEF Adds
<1>5. ASSUME NEW m \in DOMAIN schemas', NEW w \in DOMAIN schemas'[m].tables
      PROVE  \/ m = k /\ w = u /\ schemas'[m].tables[w].at = n + 1
             \/ /\ m \in DOMAIN schemas /\ w \in DOMAIN schemas[m].tables
                /\ schemas'[m].tables[w] = schemas[m].tables[w]
                /\ schemas'[m].tables[w].at \in 1 .. n
  BY <1>1 DEF Adds, Reported
<1>6. ASSUME NEW i \in 1 .. n
      PROVE  \E h \in DOMAIN schemas' : \E t \in DOMAIN schemas'[h].tables :
               /\ schemas'[h].name = tables[i].schema
               /\ schemas'[h].tables[t] = Entry(i)
               /\ \A m \in DOMAIN schemas' : \A w \in DOMAIN schemas'[m].tables :
                    schemas'[m].tables[w].at = i => m = h /\ w = t
  <2>1. PICK h \in DOMAIN schemas : \E t \in DOMAIN schemas[h].tables :
               /\ schemas[h].name = tables[i].schema
               /\ schemas[h].tables[t] = Entry(i)
               /\ \A m \in DOMAIN schemas : \A w \in DOMAIN schemas[m].tables :
                    schemas[m].tables[w].at = i => m = h /\ w = t
    BY DEF Reported
  <2>2. PICK t \in DOMAIN schemas[h].tables :
               /\ schemas[h].name = tables[i].schema
               /\ schemas[h].tables[t] = Entry(i)
               /\ \A m \in DOMAIN schemas : \A w \in DOMAIN schemas[m].tables :
                    schemas[m].tables[w].at = i => m = h /\ w = t
    BY <2>1
  <2>3. /\ h \in DOMAIN schemas' /\ t \in DOMAIN schemas'[h].tables
        /\ schemas'[h].name = tables[i].schema /\ schemas'[h].tables[t] = Entry(i)
    BY <2>2 DEF Adds
  <2>4. \A m \in DOMAIN schemas' : \A w \in DOMAIN schemas'[m].tables :
          schemas'[m].tables[w].at = i => m = h /\ w = t
    BY <1>3, <1>5, <2>2
  <2> QED
    BY <2>3, <2>4
<1>7. \E h \in DOMAIN schemas' : \E t \in DOMAIN schemas'[h].tables :
        /\ schemas'[h].name = tables[n + 1].schema
        /\ schemas'[h].tables[t] = Entry(n + 1)
        /\ \A m \in DOMAIN schemas' : \A w \in DOMAIN schemas'[m].tables :
             schemas'[m].tables[w].at = n + 1 => m = h /\ w = t
  <2>1. /\ k \in DOMAIN schemas' /\ u \in DOMAIN schemas'[k].tables
        /\ schemas'[k].name = tables[n + 1].schema /\ schemas'[k].tables[u] = Entry(n + 1)
    BY DEF Adds
  <2>2. \A m \in DOMAIN schemas' : \A w \in DOMAIN schemas'[m].tables :
          schemas'[m].tables[w].at = n + 1 => m = k /\ w = u
    BY <1>3, <1>5
  <2> QED
    BY <2>1, <2>2
<1>8. \A m \in DOMAIN schemas' : \A w \in DOMAIN schemas'[m].tables :
        schemas'[m].tables[w].at \in 1 .. n + 1
  BY <1>3, <1>5
<1> QED
  BY <1>1, <1>2, <1>4, <1>6, <1>7, <1>8 DEF Reported

LEMMA GroupIInv == ASSUME IInv, Group PROVE IInv'
<1>0. /\ main = "grouping" /\ err = NoError /\ Failed = {} /\ Reported(grouped)
      /\ \A i \in Listed : pc[i] = "done"
      /\ UNCHANGED <<tables, pc, sem, wg, cells, err, cancelled>>
  BY DEF Group, IInv, Places, Groups
<1>1. /\ tables \in Seq([schema : STRING, name : STRING]) /\ Len(tables) \in Nat
      /\ grouped \in 0 .. Len(tables) /\ Listed \subseteq Table
  BY Lists DEF IInv, Types, Listed
<1>2. /\ main' \in {"grouping", "returned"} /\ grouped' \in 0 .. Len(tables)
      /\ main' = "returned" => grouped' = Len(tables)
  BY <1>0, <1>1 DEF Group
<1>3. Types'
  BY <1>0, <1>2 DEF IInv, Types
<1>4. Holding' = Holding /\ Live' = Live
  BY <1>0 DEF Holding, Live, At
<1>5. Counters'
  BY <1>0, <1>4 DEF IInv, Counters
<1>6. Places'
  <2>1. Listed' = Listed /\ Failed' = Failed /\ Len(tables)' = Len(tables)
    BY <1>0 DEF Listed, Failed
  <2>2. NoError # ListError /\ NoError \notin Table
    BY DEF NoError, ListError
  <2>3. /\ \A i \in Table : pc'[i] # "unborn" => i \in Listed' /\ main' # "idle"
        /\ \A i \in Table : pc'[i] \notin Counted => cells'[i] = Zero
    BY <1>0, <1>2, <2>1 DEF IInv, Places
  <2> QED
    BY <1>0, <1>2, <2>1, <2>2, <2>3 DEF Places
<1>7. CASE ~(grouped < Len(tables))
  <2>1. UNCHANGED <<grouped, schemas>>
    BY <1>7 DEF Group
  <2>2. Groups'
    BY <1>0, <2>1, GroupsStay
  <2> QED
    BY <1>3, <1>5, <1>6, <2>2 DEF IInv
<1>8. CASE grouped < Len(tables)
  <2>0. PICK g \in Nat : g = grouped
    BY <1>1
  <2> DEFINE n == g + 1
  <2>1. n \in 1 .. Len(tables) /\ n \in Table
    <3>1. n \in 1 .. Len(tables)
      BY <1>1, <1>8, <2>0
    <3> QED
      BY <1>1, <3>1 DEF Listed
  <2>2. grouped' = n /\ schemas' = AddTo(n)
    BY <1>8, <2>0 DEF Group
  <2>3. tables[n].schema \in STRING
    <3>1. tables[n] \in [schema : STRING, name : STRING]
      BY <1>1, <2>1, Element
    <3> QED
      BY <3>1
  <2>4. Entry(n) \in Row
    <3>1. cells[n] \in Cell
      BY <2>1 DEF IInv, Types
    <3>2. cells[n].count \in Counts \cup {0}
      BY <3>1 DEF Cell
    <3> QED
      BY <2>1, <3>2 DEF Entry, Row
  <2>5. /\ schemas \in Seq(SchemaGroup)
        /\ \A j, k \in DOMAIN schemas : schemas[j].name = schemas[k].name => j = k
    BY <1>0 DEF IInv, Groups, Reported
  <2> HIDE DEF n
  <2>6. \E k, u : Adds(n, k, u)
    <3> DEFINE same == {k \in DOMAIN schemas : schemas[k].name = tables[n].schema}
    <3>1. CASE same = {}
      <4>1. schemas' = Append(schemas, [name |-> tables[n].schema, tables |-> <<Entry(n)>>])
        BY <2>2, <3>1 DEF AddTo
      <4>2. \A k \in DOMAIN schemas : schemas[k].name # tables[n].schema
        BY <3>1
      <4> QED
        BY <2>1, <2>3, <2>4, <2>5, <4>1, <4>2, NewGroup
    <3>2. CASE same # {}
      <4>1. PICK k \in same : schemas' = [schemas EXCEPT ![k].tables = Append(@, Entry(n))]
        BY <2>2, <3>2 DEF AddTo
      <4> QED
        BY <2>1, <2>4, <2>5, <4>1, OldGroup
    <3> QED
      BY <3>1, <3>2
  <2>7. PICK k, u : Adds(n, k, u)
    BY <2>6
  <2>8. Reported(n)'
    BY <1>0, <2>0, <2>7, AddsReports DEF n
  <2>9. Groups'
    <3>1. schemas' \in Seq(SchemaGroup)
      BY <2>7 DEF Adds
    <3>2. Reported(grouped)'
      BY <2>2, <2>8 DEF Reported
    <3> QED
      BY <3>1, <3>2 DEF Groups
  <2> QED
    BY <1>3, <1>5, <1>6, <2>9 DEF IInv
<1> QED
  BY <1>7, <1>8

LEMMA Inductive == IInv /\ [Next]_vars => IInv'
<1> SUFFICES ASSUME IInv, [Next]_vars PROVE IInv'
  OBVIOUS
<1>1. ASSUME UNCHANGED <<main, tables, pc, sem, wg, cells, err, grouped, schemas>>,
             cancelled' \in BOOLEAN
      PROVE  IInv'
  <2>1. Types'
    BY <1>1 DEF IInv, Types
  <2>2. Holding' = Holding /\ Live' = Live /\ Listed' = Listed /\ Failed' = Failed
    BY <1>1 DEF Holding, Live, Listed, Failed, At
  <2>3. Counters' /\ Places'
    BY <1>1, <2>2 DEF IInv, Counters, Places
  <2>4. Groups'
    BY <1>1, GroupsStay
  <2> QED
    BY <2>1, <2>3, <2>4 DEF IInv
<1>2. CASE Cancel
  BY <1>1, <1>2 DEF Cancel
<1>3. CASE UNCHANGED vars
  <2>1. cancelled \in BOOLEAN
    BY DEF IInv, Types
  <2>2. cancelled' = cancelled
    BY <1>3 DEF vars
  <2> QED
    BY <1>1, <1>3, <2>1, <2>2 DEF vars
<1> QED
  BY <1>2, <1>3, ListFailsIInv, ListAnswersIInv, WaitIInv, GroupIInv, GoroutineIInv
     DEF Next, Over

LEMMA Invariance == Spec => []IInv
  BY InitIInv, Inductive, PTL DEF Spec

\* Type correctness; sem and wg count the goroutines that hold a slot and those
\* that are not done, and sem never passes the capacity of the channel.
THEOREM TypeCorrect == Spec => []TypeOK
<1>1. IInv => TypeOK
  <2> SUFFICES ASSUME IInv PROVE TypeOK
    OBVIOUS
  <2>1. /\ pc \in [Table -> PC] /\ Listed \subseteq Table /\ Len(tables) \in Nat
    BY Lists DEF IInv, Types, Listed
  <2>2. Holding = {i \in Table : pc[i] \in {"counting", "release"}}
    BY DEF Holding, At, HoldingPC
  <2>3. Live = {i \in Table : pc[i] \notin {"unborn", "done"}}
    BY <2>1 DEF Live, At, LivePC
  <2>4. Live \subseteq Listed /\ Holding \subseteq Table
    <3>1. \A i \in Table : pc[i] # "unborn" => i \in Listed
      BY DEF IInv, Places
    <3> QED
      BY <3>1 DEF Live, At, LivePC, Holding
  <2>5. /\ IsFiniteSet(Listed) /\ Cardinality(Listed) = Len(tables)
    <3>1. 1 \in Int /\ Len(tables) \in Int
      BY <2>1
    <3>2. /\ IsFiniteSet(1 .. Len(tables))
          /\ Cardinality(1 .. Len(tables)) = IF 1 > Len(tables) THEN 0 ELSE Len(tables) - 1 + 1
      BY Zenon, <3>1, FS_Interval
    <3> QED
      BY <2>1, <3>2 DEF Listed
  <2>6. Cardinality(Live) \in Nat /\ Cardinality(Live) <= Len(tables)
    BY <2>4, <2>5, FS_Subset, FS_CardinalityType
  <2>7. Cardinality(Holding) \in Nat
    BY <2>4, TableFinite, FS_Subset, FS_CardinalityType
  <2>8. sem \in 0 .. MaxInspectConcurrency /\ wg \in 0 .. Len(tables)
    BY <2>1, <2>6, <2>7 DEF IInv, Counters
  <2>9. sem = Cardinality(Holding) /\ wg = Cardinality(Live)
    BY DEF IInv, Counters
  <2>10. /\ cancelled \in BOOLEAN
         /\ pc \in [Table -> {"unborn", "waiting", "counting", "release", "exit", "done"}]
         /\ cells \in [Table -> [count : Counts \cup {0}, failed : BOOLEAN]]
    BY DEF IInv, Types, PC, Cell
  <2> QED
    BY <2>2, <2>3, <2>8, <2>9, <2>10 DEF IInv, Types, TypeOK
<1> QED
  BY <1>1, Invariance, PTL

\* A result without error is the whole report; an error comes alone, is one that
\* a count of the list had, and no table before it failed.
THEOREM ReportsAreExact == Spec => []ReportIsExact
<1>1. IInv => ReportIsExact
  <2> SUFFICES ASSUME IInv, main = "returned" PROVE ReportIsExact
    BY DEF ReportIsExact
  <2>1. err = NoError => Reported(Len(tables)) /\ Failed = {}
    BY DEF IInv, Places, Groups
  <2>2. Reported(Len(tables)) => AllReported
    BY DEF Reported, AllReported, Listed
  <2>3. Failed = {} => \A i \in Listed : ~cells[i].failed
    BY DEF Failed
  <2> QED
    BY <2>1, <2>2, <2>3 DEF ReportIsExact, IInv, Places
<1> QED
  BY <1>1, Invariance, PTL
-----------------------------------------------------------------------------
(* Termination, as far as it does not rest on fairness.                    *)

\* The goroutines and wg.Wait do not deadlock, for any list and any number of
\* slots: the channel is full only while somebody holds a slot, and who holds
\* one waits for nobody.
THEOREM NoDeadlock == Spec => []SomebodyCanRun
<1>1. IInv => SomebodyCanRun
  <2> SUFFICES ASSUME IInv, main = "counting", wg # 0
               PROVE  SomebodyCanRun
    BY DEF SomebodyCanRun
  <2>1. CASE sem < MaxInspectConcurrency
    <3>1. Cardinality(Live) # 0
      BY DEF IInv, Counters
    <3>2. PICK i \in Table : pc[i] \in LivePC
      BY <3>1, FS_EmptySet DEF Live, At
    <3>3. i \in Listed /\ pc[i] # "done"
      BY <3>2, UnderWay DEF LivePC
    <3> QED
      BY <2>1, <3>3 DEF SomebodyCanRun
  <2>2. CASE sem = MaxInspectConcurrency
    <3>1. Cardinality(Holding) # 0
      BY <2>2 DEF IInv, Counters
    <3>2. PICK i \in Table : pc[i] \in HoldingPC
      BY <3>1, FS_EmptySet DEF Holding, At
    <3>3. pc[i] \in LivePC \ {"waiting"}
      BY <3>2 DEF HoldingPC, LivePC, PC
    <3>4. i \in Listed
      BY <3>3, UnderWay
    <3> QED
      BY <3>3, <3>4 DEF LivePC, SomebodyCanRun
  <2> QED
    BY <2>1, <2>2 DEF IInv, Types, Counters
<1> QED
  BY <1>1, Invariance, PTL

\* How far the caller and a goroutine are.
CallerAt(s) ==
  CASE s = "idle" -> 0 [] s = "counting" -> 1 [] s = "grouping" -> 2 [] OTHER -> 3
GoroutineAt(s) ==
  CASE s = "unborn" -> 0 [] s = "waiting" -> 1 [] s = "counting" -> 2 [] s = "release" -> 3
    [] s = "exit" -> 4 [] OTHER -> 5

\* The caller or one goroutine gets nearer to its end, or one more table is in
\* the result; and nobody goes back.
Advances ==
  \/ CallerAt(main) < CallerAt(main') /\ pc' = pc /\ grouped' = grouped
  \/ /\ main' = main /\ grouped' = grouped
     /\ \E i \in Table : /\ GoroutineAt(pc[i]) < GoroutineAt(pc'[i])
                         /\ \A j \in Table \ {i} : pc'[j] = pc[j]
  \/ main' = main /\ pc' = pc /\ grouped' = grouped + 1 /\ grouped' <= Len(tables)

\* Inspect ends after a bounded number of steps, three of the caller, five of each
\* goroutine and one for each table of the result, a single cancellation aside.
THEOREM StepsAreBounded == Spec => [][Advances \/ Cancel]_vars
<1>1. IInv /\ [Next]_vars => [Advances \/ Cancel]_vars
  <2> SUFFICES ASSUME IInv, Next, ~ UNCHANGED vars
               PROVE  Advances \/ Cancel
    OBVIOUS
  <2>1. CASE ListFails \/ ListAnswers \/ Wait
    BY <2>1 DEF ListFails, ListAnswers, Wait, Advances, CallerAt
  <2>2. CASE Group
    <3>1. grouped \in Nat /\ Len(tables) \in Nat
      BY Lists DEF IInv, Types
    <3>2. CASE grouped < Len(tables)
      BY <2>2, <3>1, <3>2 DEF Group, Advances
    <3>3. CASE ~ (grouped < Len(tables))
      BY <2>2, <3>3 DEF Group, Advances, CallerAt
    <3> QED
      BY <3>2, <3>3
  <2>3. ASSUME NEW i \in Table, Spawn(i) \/ Goroutine(i) PROVE Advances
    <3>1. pc \in [Table -> PC]
      BY DEF IInv, Types
    <3>2. main' = main /\ grouped' = grouped /\ \A j \in Table \ {i} : pc'[j] = pc[j]
      BY <2>3, <3>1 DEF Spawn, Goroutine, Acquire, CountRows, Release, Done
    <3>3. GoroutineAt(pc[i]) < GoroutineAt(pc'[i])
      BY <2>3, <3>1 DEF Spawn, Goroutine, Acquire, CountRows, Release, Done, GoroutineAt
    <3> QED
      BY <3>2, <3>3 DEF Advances
  <2> QED
    BY <2>1, <2>2, <2>3 DEF Next, Over
<1> QED
  BY <1>1, Invariance, PTL DEF Spec
-----------------------------------------------------------------------------
(* The refinement: a goroutine inside countRows is the contract's active   *)
(* one, and what it stores its outcome.                                    *)

Phase ==
  CASE main = "counting" -> "running"
    [] main = "grouping" \/ (main = "returned" /\ err # ListError) -> "returned"
    [] OTHER -> "idle"
Active == {i \in Table : pc[i] = "counting"}
OutcomeOf(i) == IF pc[i] \in {"release", "exit", "done"} THEN <<cells[i]>> ELSE <<>>
Outcome == [i \in Table |-> OutcomeOf(i)]
Entered == {i \in Table : pc[i] \in {"release", "exit", "done"}}

\* The contract's steps, in these words.
LEMMA ContractSteps ==
  /\ Phase = "idle" /\ Listed = {} /\ Active = {} /\ Outcome = [i \in Table |-> <<>>] /\ Entered = {}
       => Contract!Init
  /\ UNCHANGED <<Phase, Listed, Active, Outcome, Entered>> => UNCHANGED Contract!contractVars
  /\ \A ts : /\ Phase = "idle" /\ Phase' = "running" /\ Listed' = ts
             /\ UNCHANGED <<Active, Outcome, Entered>>
             => Contract!Call(ts)
  /\ \A i : /\ Phase = "running" /\ i \in Listed \ Active /\ Outcome[i] = <<>>
            /\ Cardinality(Active) < MaxInspectConcurrency
            /\ Active' = Active \cup {i} /\ UNCHANGED <<Phase, Listed, Outcome, Entered>>
            => Contract!Start(i)
  /\ \A i \in Table :
            /\ i \in Active /\ Active' = Active \ {i}
            /\ \E r \in {<<c>> : c \in [count : Counts \cup {0}, failed : BOOLEAN]} :
                 Outcome' = [Outcome EXCEPT ![i] = r]
            /\ Entered' = Entered \cup {i} /\ UNCHANGED <<Phase, Listed>>
            => Contract!Finish(i)
  /\ /\ Phase = "running" /\ Active = {} /\ Listed \subseteq Entered
     /\ Phase' = "returned" /\ UNCHANGED <<Listed, Active, Outcome, Entered>>
     => Contract!Return
<1> USE DEF Phase, Active, Outcome, OutcomeOf, Entered
<1>1. Phase = "idle" /\ Listed = {} /\ Active = {} /\ Outcome = [i \in Table |-> <<>>] /\ Entered = {}
        => Contract!Init
  BY DEF Contract!Init
<1>2. UNCHANGED <<Phase, Listed, Active, Outcome, Entered>> => UNCHANGED Contract!contractVars
  BY Zenon DEF Contract!contractVars
<1>3. \A ts : /\ Phase = "idle" /\ Phase' = "running" /\ Listed' = ts
              /\ UNCHANGED <<Active, Outcome, Entered>>
              => Contract!Call(ts)
  BY Zenon DEF Contract!Call
<1>4. \A i : /\ Phase = "running" /\ i \in Listed \ Active /\ Outcome[i] = <<>>
             /\ Cardinality(Active) < MaxInspectConcurrency
             /\ Active' = Active \cup {i} /\ UNCHANGED <<Phase, Listed, Outcome, Entered>>
             => Contract!Start(i)
  BY Zenon DEF Contract!Start, Contract!Cardinality, Cardinality
<1>5. \A i \in Table :
            /\ i \in Active /\ Active' = Active \ {i}
            /\ \E r \in {<<c>> : c \in [count : Counts \cup {0}, failed : BOOLEAN]} :
                 Outcome' = [Outcome EXCEPT ![i] = r]
            /\ Entered' = Entered \cup {i} /\ UNCHANGED <<Phase, Listed>>
            => Contract!Finish(i)
  BY Zenon DEF Contract!Finish
<1>6. /\ Phase = "running" /\ Active = {} /\ Listed \subseteq Entered
      /\ Phase' = "returned" /\ UNCHANGED <<Listed, Active, Outcome, Entered>>
      => Contract!Return
  BY Zenon DEF Contract!Return
<1> QED
  BY Zenon, <1>1, <1>2, <1>3, <1>4, <1>5, <1>6

\* Goroutines that neither start nor end a query are invisible.
LEMMA Invisible ==
  ASSUME IInv, NEW i \in Table, NEW s, Moves(i, s),
         UNCHANGED <<main, tables, err, cells>>,
         pc[i] # "counting", s # "counting",
         s \in Counted <=> pc[i] \in Counted
  PROVE  UNCHANGED Contract!contractVars
<1>1. Phase' = Phase /\ Listed' = Listed
  BY DEF Phase, Listed
<1>2. Active' = Active
  BY DEF Active, Moves
<1>3. \A j \in Table : OutcomeOf(j)' = OutcomeOf(j)
  BY DEF Moves, OutcomeOf, Counted
<1>4. Outcome' = Outcome /\ Entered' = Entered
  BY <1>3 DEF Outcome, Entered, Moves, Counted
<1> QED
  BY <1>1, <1>2, <1>4, ContractSteps

LEMMA GoroutineRefines ==
  ASSUME IInv, NEW i \in Table, Spawn(i) \/ Goroutine(i)
  PROVE  [Contract!Next]_(Contract!contractVars)
<1>0. pc \in [Table -> PC] /\ cells \in [Table -> Cell]
  BY DEF IInv, Types
<1>1. CASE Spawn(i)
  BY <1>0, <1>1, Invisible DEF Spawn, Moves, PC, Counted
<1>2. CASE Release(i)
  BY <1>0, <1>2, Invisible DEF Release, Moves, PC, Counted
<1>3. CASE Done(i)
  BY <1>0, <1>3, Invisible DEF Done, Moves, PC, Counted
<1>4. CASE Acquire(i)
  <2>1. /\ pc[i] = "waiting" /\ pc'[i] = "counting" /\ \A j \in Table \ {i} : pc'[j] = pc[j]
        /\ UNCHANGED <<main, tables, err, cells>> /\ sem < MaxInspectConcurrency
    BY <1>0, <1>4 DEF Acquire
  <2>2. i \in Listed /\ main = "counting"
    BY <2>1, UnderWay DEF LivePC, PC
  <2>3. Phase = "running" /\ Phase' = Phase /\ Listed' = Listed
    BY <2>1, <2>2 DEF Phase, Listed
  <2>4. i \notin Active /\ Active' = Active \cup {i}
    BY <2>1 DEF Active
  <2>5. \A j \in Table : OutcomeOf(j)' = OutcomeOf(j)
    BY <2>1 DEF OutcomeOf
  <2>6. Outcome' = Outcome /\ Outcome[i] = <<>> /\ Entered' = Entered
    BY <2>1, <2>5 DEF Outcome, OutcomeOf, Entered
  <2>7. Cardinality(Active) < MaxInspectConcurrency
    <3>1. Active \subseteq Holding /\ Holding \subseteq Table
      BY DEF Active, Holding, At, HoldingPC
    <3>2. /\ Cardinality(Active) <= Cardinality(Holding)
          /\ Cardinality(Active) \in Nat /\ Cardinality(Holding) \in Nat
      BY <3>1, TableFinite, FS_Subset, FS_CardinalityType
    <3> QED
      BY <2>1, <3>2 DEF IInv, Counters
  <2>8. Contract!Start(i)
    BY Zenon, <2>2, <2>3, <2>4, <2>6, <2>7, ContractSteps
  <2> QED
    BY <2>8 DEF Contract!Next
<1>5. CASE CountRows(i)
  <2>1. PICK c \in Cell : cells' = [cells EXCEPT ![i] = c]
    BY <1>5 DEF CountRows, Cell
  <2>2. /\ pc[i] = "counting" /\ pc'[i] = "release" /\ \A j \in Table \ {i} : pc'[j] = pc[j]
        /\ UNCHANGED <<main, tables, err>>
        /\ cells'[i] = c /\ \A j \in Table \ {i} : cells'[j] = cells[j]
    BY <1>0, <1>5, <2>1 DEF CountRows
  <2>3. Phase' = Phase /\ Listed' = Listed
    BY <2>2 DEF Phase, Listed
  <2>4. i \in Active /\ Active' = Active \ {i} /\ Entered' = Entered \cup {i}
    BY <2>2 DEF Active, Entered
  <2>5. OutcomeOf(i)' = <<c>> /\ \A j \in Table \ {i} : OutcomeOf(j)' = OutcomeOf(j)
    BY <2>2 DEF OutcomeOf
  <2>6. Outcome' = [Outcome EXCEPT ![i] = <<c>>]
    BY <2>5 DEF Outcome
  <2>7. \E r \in {<<d>> : d \in [count : Counts \cup {0}, failed : BOOLEAN]} :
          Outcome' = [Outcome EXCEPT ![i] = r]
    BY <2>6 DEF Cell
  <2>8. Contract!Finish(i)
    BY Zenon, <2>3, <2>4, <2>7, ContractSteps
  <2> QED
    BY <2>8 DEF Contract!Next
<1> QED
  BY <1>1, <1>2, <1>3, <1>4, <1>5 DEF Goroutine

LEMMA CallerRefines ==
  ASSUME IInv, ListFails \/ ListAnswers \/ Wait \/ Group
  PROVE  [Contract!Next]_(Contract!contractVars)
<1>0. UNCHANGED <<pc, cells>> /\ Active' = Active /\ Outcome' = Outcome /\ Entered' = Entered
  BY DEF ListFails, ListAnswers, Wait, Group, Active, Outcome, OutcomeOf, Entered
<1>1. CASE ListFails
  <2>1. Phase' = Phase /\ Listed' = Listed
    BY <1>1 DEF ListFails, Phase, Listed, ListError
  <2> QED
    BY <1>0, <2>1, ContractSteps
<1>2. CASE ListAnswers
  <2>1. PICK ts \in Databases : tables' = ts
    BY <1>2 DEF ListAnswers
  <2>2. Phase = "idle" /\ Phase' = "running" /\ Listed' = 1 .. Len(ts)
    BY <1>2, <2>1 DEF ListAnswers, Phase, Listed
  <2>3. Contract!Call(1 .. Len(ts))
    BY Zenon, <1>0, <2>2, ContractSteps
  <2>4. 1 .. Len(ts) \in SUBSET Table
    BY Lists
  <2> QED
    BY <2>3, <2>4 DEF Contract!Next
<1>3. CASE Wait
  <2>1. IInv' /\ Listed \subseteq Table
    BY <1>3, WaitIInv, Lists DEF IInv, Types, Listed
  <2>2. /\ main = "counting" /\ main' \in {"grouping", "returned"} /\ UNCHANGED tables
        /\ main' = "returned" => err' \in Failed
    <3>1. Failed \in SUBSET Nat
      <4>1. Failed \subseteq Listed /\ Table \subseteq Nat
        BY DEF Failed
      <4> QED
        BY Zenon, <2>1, <4>1
    <3>2. Failed # {} => \E i \in Failed : \A j \in Failed : i <= j
      BY <3>1, FirstFailure
    <3> QED
      BY <1>3, <3>2 DEF Wait
  <2>3. Phase = "running" /\ Phase' = "returned" /\ Listed' = Listed
    BY <2>1, <2>2 DEF Phase, Listed, Failed, ListError
  <2>4. \A i \in Listed : pc[i] = "done"
    BY <1>0, <2>1, <2>2 DEF IInv, Places, Listed
  <2>5. Listed \subseteq Entered
    BY <2>1, <2>4 DEF Entered
  <2>6. Active = {}
    <3>1. \A i \in Table : pc[i] # "unborn" => i \in Listed
      BY DEF IInv, Places
    <3> QED
      BY <2>4, <3>1 DEF Active
  <2>7. Contract!Return
    BY Zenon, <1>0, <2>3, <2>5, <2>6, ContractSteps
  <2> QED
    BY <2>7 DEF Contract!Next
<1>4. CASE Group
  <2>1. /\ main = "grouping" /\ main' \in {"grouping", "returned"} /\ UNCHANGED <<tables, err>>
        /\ err = NoError
    BY <1>4 DEF Group, IInv, Places
  <2>2. Phase' = Phase /\ Listed' = Listed
    BY <2>1 DEF Phase, Listed, NoError, ListError
  <2> QED
    BY <1>0, <2>2, ContractSteps
<1> QED
  BY <1>1, <1>2, <1>3, <1>4

\* Inspect keeps the contract of the backup batch: no more than so many queries at
\* a time, one outcome for each table, and no return before all have one.
THEOREM Refinement == Spec => ImplementsContract
<1>1. Init => Contract!Init
  <2> SUFFICES ASSUME Init PROVE Contract!Init
    OBVIOUS
  <2>1. Phase = "idle" /\ Listed = {} /\ Active = {}
    BY DEF Init, Phase, Listed, Active
  <2>2. Outcome = [i \in Table |-> <<>>] /\ Entered = {}
    BY DEF Init, Outcome, OutcomeOf, Entered
  <2> QED
    BY <2>1, <2>2, ContractSteps
<1>2. IInv /\ [Next]_vars => [Contract!Next]_(Contract!contractVars)
  <2> SUFFICES ASSUME IInv, [Next]_vars
               PROVE  [Contract!Next]_(Contract!contractVars)
    OBVIOUS
  <2>1. ASSUME UNCHANGED <<main, tables, pc, cells, err>>
        PROVE  UNCHANGED Contract!contractVars
    <3>1. UNCHANGED <<Phase, Listed, Active, Outcome, Entered>>
      BY <2>1 DEF Phase, Listed, Active, Outcome, OutcomeOf, Entered
    <3> QED
      BY <3>1, ContractSteps
  <2>2. CASE Cancel \/ UNCHANGED vars
    <3>1. UNCHANGED <<main, tables, pc, cells, err>>
      BY <2>2 DEF Cancel, vars
    <3> QED
      BY <2>1, <3>1
  <2> QED
    BY <2>2, CallerRefines, GoroutineRefines DEF Next, Over
<1> QED
  BY <1>1, <1>2, Invariance, PTL DEF Spec, ImplementsContract, Contract!Spec
=============================================================================

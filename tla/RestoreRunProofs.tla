-------------------------- MODULE RestoreRunProofs --------------------------
(***************************************************************************)
(* Proofs about RestoreRun, for any number of invocations, any command     *)
(* lines and any databases.  The argument: until CREATE DATABASE succeeds  *)
(* an invocation has no database and no tool; from then on its name stands *)
(* for the database it made, as long as nobody else drops or renames it; so *)
(* that is what its tool connects to.                                      *)
(***************************************************************************)
EXTENDS RestoreRun, FiniteSetTheorems, SequenceTheorems, WellFoundedInduction, TLAPS

Makers == Invocations \cup {"other"}

\* Where an invocation has not created anything yet.
Before == {"idle", "args", "listing", "planned", "restoring", "creating"}

Refusals == {"refused", "unreadable", "noname", "exists", "declined", "duplicate"}

Types ==
  /\ maker \in Seq(Makers)
  /\ \A n \in DOMAIN oid : oid[n] \in DOMAIN maker
  /\ written \subseteq Invocations \X Nat
  /\ pc \in [Invocations -> Before \cup {"created", "loading", "done"}]
  /\ DOMAIN name = Invocations
  /\ DOMAIN outcome = Invocations
  /\ loader \in [Invocations -> {"none", "connecting", "writing", "complete", "partial"}]
  /\ target \in [Invocations -> Nat]

\* p has created nothing, started nothing and written nothing.
Untouched(p) ==
  /\ loader[p] = "none"
  /\ \A o \in DOMAIN maker : maker[o] # p
  /\ \A w \in written : w[1] # p

Innocent ==
  \A p \in Invocations :
    /\ pc[p] \in Before => Untouched(p) /\ outcome[p] = "none"
    /\ pc[p] = "created" => loader[p] = "none"
    /\ pc[p] \in {"created", "loading"} => outcome[p] = "none"
    /\ outcome[p] \in Refusals => Untouched(p)

\* The name p announced stands for a database that p made.
Owns(p) ==
  /\ name[p] \in DOMAIN oid
  /\ oid[name[p]] \in DOMAIN maker
  /\ maker[oid[name[p]]] = p

\* What is written was made by the writer, and the tools are on their way there.
Owned ==
  /\ \A w \in written : w[2] \in DOMAIN maker /\ maker[w[2]] = w[1]
  /\ \A p \in Invocations :
       /\ pc[p] \in {"created", "loading"} \/ loader[p] # "none" => Owns(p)
       /\ loader[p] = "writing" => target[p] = oid[name[p]]
       /\ loader[p] = "complete" => <<p, oid[name[p]]>> \in written
       /\ outcome[p] = "restored" => loader[p] = "complete"
-----------------------------------------------------------------------------
USE DEF Before, Makers

\* One more database, and what is known of the others.
LEMMA Made ==
  ASSUME maker \in Seq(Makers), NEW n, NEW who \in Makers, NewDatabase(n, who),
         \A m \in DOMAIN oid : oid[m] \in DOMAIN maker
  PROVE  /\ maker' \in Seq(Makers)
         /\ \A o \in DOMAIN maker : o \in DOMAIN maker' /\ maker'[o] = maker[o]
         /\ \A o \in DOMAIN maker' : o \in DOMAIN maker \/ maker'[o] = who
         /\ n \in DOMAIN oid' /\ oid'[n] \in DOMAIN maker' /\ maker'[oid'[n]] = who
         /\ \A m \in DOMAIN oid : m \in DOMAIN oid' /\ oid'[m] = oid[m]
         /\ \A m \in DOMAIN oid' : oid'[m] \in DOMAIN maker'
<1>1. /\ maker' \in Seq(Makers) /\ Len(maker') = Len(maker) + 1
      /\ maker'[Len(maker) + 1] = who
      /\ \A o \in 1 .. Len(maker) : maker'[o] = maker[o]
  BY DEF NewDatabase
<1>2. DOMAIN maker = 1 .. Len(maker) /\ DOMAIN maker' = 1 .. Len(maker')
  BY <1>1
<1>3. /\ DOMAIN oid' = DOMAIN oid \cup {n}
      /\ oid'[n] = Len(maker) + 1
      /\ \A m \in DOMAIN oid : oid'[m] = oid[m]
  BY DEF NewDatabase
<1>4. Len(maker) \in Nat
  OBVIOUS
<1> QED
  BY <1>1, <1>2, <1>3, <1>4

LEMMA TypesInit == Init => Types
<1> SUFFICES ASSUME Init PROVE Types
  OBVIOUS
<1>1. Initially \in Seq(Range(Initially))
  BY InitiallyAssumption
<1>2. DOMAIN Initially = 1 .. Len(Initially) /\ Len(Initially) \in Nat
  BY <1>1
<1>3. DOMAIN maker = DOMAIN Initially /\ maker \in Seq(Makers)
  BY <1>2 DEF Init
<1>4. ASSUME NEW n \in DOMAIN oid PROVE oid[n] \in DOMAIN maker
  <2>1. n \in Range(Initially) /\ oid[n] = CHOOSE o \in DOMAIN Initially : Initially[o] = n
    BY <1>4 DEF Init
  <2>2. \E o \in DOMAIN Initially : Initially[o] = n
    BY <2>1 DEF Range
  <2> QED
    BY <1>3, <2>1, <2>2
<1>5. maker \in Seq(Makers) /\ \A n \in DOMAIN oid : oid[n] \in DOMAIN maker
  BY <1>3, <1>4
<1>6. /\ written = {} /\ DOMAIN name = Invocations
      /\ pc \in [Invocations -> {"idle"}] /\ DOMAIN outcome = Invocations
      /\ loader \in [Invocations -> {"none"}] /\ target \in [Invocations -> {0}]
  BY DEF Init
<1> QED
  BY <1>5, <1>6 DEF Types

-----------------------------------------------------------------------------
(* Most steps of an invocation only move it on, or end it, and leave the   *)
(* server and the tools alone.                                             *)

\* From where to where, and with which outcome.
Turn(p) ==
  \/ pc[p] \in Before /\ pc'[p] \in Before /\ outcome'[p] = outcome[p]
  \/ pc[p] \in Before /\ pc'[p] = "done" /\ outcome'[p] \in Refusals \cup {"failed", "dead"}
  \/ pc[p] \in {"created", "loading"} /\ pc'[p] = "done" /\ outcome'[p] \in {"failed", "dead"}
  \/ pc[p] = "loading" /\ loader[p] = "complete" /\ pc'[p] = "done" /\ outcome'[p] = "restored"

Moves(p) ==
  /\ pc' = [pc EXCEPT ![p] = pc'[p]]
  /\ DOMAIN outcome' = Invocations
  /\ \A q \in Invocations \ {p} : pc'[q] = pc[q] /\ outcome'[q] = outcome[q]

\* Only the step that resolves the name sets it.
Naming(p) ==
  \/ name' = name
  \/ pc[p] \in Before /\ pc'[p] \in Before /\ name' = [name EXCEPT ![p] = name'[p]]

Quiet(p) == UNCHANGED <<server, tool>> /\ Moves(p) /\ Turn(p) /\ Naming(p)

LEMMA Ends ==
  ASSUME Types, NEW p \in Invocations, NEW o, NEW cs, End(p, o, cs)
  PROVE  Moves(p) /\ pc'[p] = "done" /\ outcome'[p] = o
  BY DEF Types, End, Moves

LEMMA Goes ==
  ASSUME Types, NEW p \in Invocations, NEW to, Go(p, to)
  PROVE  Moves(p) /\ pc'[p] = to /\ outcome'[p] = outcome[p]
  BY DEF Types, Go, Moves

LEMMA StartIsQuiet ==
  ASSUME Types, NEW p \in Invocations, Start(p) PROVE Quiet(p)
<1>1. Go(p, "args") /\ pc[p] = "idle" /\ UNCHANGED <<server, name, tool>>
  BY DEF Start
<1> QED
  BY <1>1, Goes DEF Quiet, Turn, Naming

LEMMA ReadBackupIsQuiet ==
  ASSUME Types, NEW p \in Invocations, ReadBackup(p) PROVE Quiet(p)
<1>1. pc[p] = "args" /\ UNCHANGED <<server, tool>>
  BY DEF ReadBackup
<1>2. CASE \E o, cs : o \in Refusals /\ End(p, o, cs) /\ UNCHANGED name
  BY <1>1, <1>2, Ends DEF Quiet, Turn, Naming
<1>3. CASE \E n : name' = [name EXCEPT ![p] = n] /\ Go(p, "listing")
  BY <1>1, <1>3, Goes DEF Quiet, Turn, Naming, Types
<1> QED
  BY <1>2, <1>3, Zenon DEF ReadBackup, Refusals

LEMMA ListIsQuiet ==
  ASSUME Types, NEW p \in Invocations, List(p) PROVE Quiet(p)
<1>1. pc[p] = "listing" /\ UNCHANGED <<server, name, tool>>
  BY DEF List
<1>2. CASE \E o, cs : o \in Refusals /\ End(p, o, cs)
  BY <1>1, <1>2, Ends DEF Quiet, Turn, Naming
<1>3. CASE Go(p, "planned")
  BY <1>1, <1>3, Goes DEF Quiet, Turn, Naming
<1>4. "refused" \in Refusals /\ "exists" \in Refusals
  BY DEF Refusals
<1> QED
  BY <1>2, <1>3, <1>4, Zenon DEF List

LEMMA ConfirmIsQuiet ==
  ASSUME Types, NEW p \in Invocations, Confirm(p) PROVE Quiet(p)
<1>1. pc[p] = "planned" /\ UNCHANGED <<server, name, tool>>
  BY DEF Confirm
<1>2. CASE End(p, "declined", {})
  BY <1>1, <1>2, Ends DEF Quiet, Turn, Naming, Refusals
<1>3. CASE Go(p, "restoring")
  BY <1>1, <1>3, Goes DEF Quiet, Turn, Naming
<1> QED
  BY <1>2, <1>3 DEF Confirm

LEMMA ValidateIsQuiet ==
  ASSUME Types, NEW p \in Invocations, Validate(p) PROVE Quiet(p)
<1>1. pc[p] = "restoring" /\ UNCHANGED <<server, name, tool>>
  BY DEF Validate
<1>2. CASE End(p, "refused", {})
  BY <1>1, <1>2, Ends DEF Quiet, Turn, Naming, Refusals
<1>3. CASE Go(p, "creating")
  BY <1>1, <1>3, Goes DEF Quiet, Turn, Naming
<1> QED
  BY <1>2, <1>3 DEF Validate

LEMMA CreateFailsIsQuiet ==
  ASSUME Types, NEW p \in Invocations, CreateFails(p) PROVE Quiet(p)
<1>1. pc[p] = "creating" /\ UNCHANGED <<server, name, tool>>
  BY DEF CreateFails
<1>2. CASE End(p, "failed", {}) \/ End(p, "duplicate", {})
  BY <1>1, <1>2, Ends DEF Quiet, Turn, Naming, Refusals
<1> QED
  BY <1>2 DEF CreateFails

LEMMA ReturnIsQuiet ==
  ASSUME Types, NEW p \in Invocations, Return(p) PROVE Quiet(p)
<1>1. /\ pc[p] = "loading" /\ UNCHANGED <<server, name, tool>>
      /\ End(p, IF loader[p] = "complete" THEN "restored" ELSE "failed", {})
  BY DEF Return
<1>2. CASE loader[p] = "complete" /\ End(p, "restored", {})
  BY <1>1, <1>2, Ends DEF Quiet, Turn, Naming
<1>3. CASE End(p, "failed", {})
  BY <1>1, <1>3, Ends DEF Quiet, Turn, Naming
<1> QED
  BY <1>1, <1>2, <1>3

LEMMA DieIsQuiet ==
  ASSUME Types, NEW p \in Invocations, Die(p) PROVE Quiet(p)
<1>1. pc[p] \in Before \cup {"created", "loading"} /\ UNCHANGED <<server, name, tool>>
  BY DEF Die, Types
<1>2. pc'[p] = "done" /\ outcome'[p] = "dead" /\ Moves(p)
  BY Ends DEF Die
<1> QED
  BY <1>1, <1>2 DEF Quiet, Turn, Naming

LEMMA Quiets ==
  ASSUME Types, NEW p \in Invocations,
         \/ Start(p) \/ ReadBackup(p) \/ List(p) \/ Confirm(p) \/ Validate(p)
         \/ CreateFails(p) \/ Return(p) \/ Die(p)
  PROVE  Quiet(p)
  BY StartIsQuiet, ReadBackupIsQuiet, ListIsQuiet, ConfirmIsQuiet, ValidateIsQuiet,
     CreateFailsIsQuiet, ReturnIsQuiet, DieIsQuiet

-----------------------------------------------------------------------------
(* The types.                                                              *)

LEMMA TypesStep == Types /\ [Next]_vars => Types'
<1> SUFFICES ASSUME Types, [Next]_vars PROVE Types'
  OBVIOUS
<1>1. ASSUME NEW p \in Invocations, Quiet(p) PROVE Types'
  <2>1. UNCHANGED <<oid, maker, written, loader, target>>
    BY <1>1 DEF Quiet, server, tool
  <2>2. pc' \in [Invocations -> Before \cup {"created", "loading", "done"}]
    BY <1>1 DEF Quiet, Turn, Moves, Types
  <2>3. DOMAIN outcome' = Invocations
    BY <1>1 DEF Quiet, Moves, Types
  <2>4. DOMAIN name' = Invocations
    BY <1>1 DEF Quiet, Naming, Types
  <2> QED
    BY <2>1, <2>2, <2>3, <2>4 DEF Types
<1>2. ASSUME NEW p \in Invocations, Create(p) PROVE Types'
  <2>1. Moves(p) /\ pc'[p] \in {"created", "done"} /\ outcome'[p] \in {outcome[p], "failed"}
    BY <1>2, Goes, Ends DEF Create
  <2>2. NewDatabase(name[p], p) /\ UNCHANGED <<written, name, tool>>
    BY <1>2 DEF Create
  <2>3. /\ maker' \in Seq(Makers)
        /\ \A n \in DOMAIN oid' : oid'[n] \in DOMAIN maker'
    BY <2>2, Made DEF Types
  <2>4. pc' \in [Invocations -> Before \cup {"created", "loading", "done"}]
    BY <2>1 DEF Moves, Types
  <2>5. DOMAIN outcome' = Invocations
    BY <2>1 DEF Moves, Types
  <2> QED
    BY <2>2, <2>3, <2>4, <2>5 DEF Types, tool
<1>3. ASSUME NEW p \in Invocations, Fork(p) PROVE Types'
  <2>1. Moves(p) /\ pc'[p] \in {"loading", "done"} /\ outcome'[p] \in {outcome[p], "failed"}
    BY <1>3, Goes, Ends DEF Fork
  <2>2. UNCHANGED <<server, name, target>>
    BY <1>3 DEF Fork
  <2>3. loader' \in {loader, [loader EXCEPT ![p] = "connecting"]}
    BY <1>3 DEF Fork
  <2>4. pc' \in [Invocations -> Before \cup {"created", "loading", "done"}]
    BY <2>1 DEF Moves, Types
  <2>5. DOMAIN outcome' = Invocations
    BY <2>1 DEF Moves, Types
  <2> QED
    BY <2>2, <2>3, <2>4, <2>5 DEF Types, server
<1>4. ASSUME NEW p \in Invocations, LoaderConnects(p) PROVE Types'
  <2>1. UNCHANGED <<oid, maker, written, pc, name, outcome>>
    BY <1>4 DEF LoaderConnects, server
  <2>2. loader' \in [Invocations -> {"none", "connecting", "writing", "complete", "partial"}]
    BY <1>4 DEF LoaderConnects, Types
  <2>3. oid[name[p]] \in Nat \/ name[p] \notin DOMAIN oid
    BY DEF Types
  <2>4. target' \in [Invocations -> Nat]
    BY <1>4, <2>3 DEF LoaderConnects, Types
  <2> QED
    BY <2>1, <2>2, <2>4 DEF Types
<1>5. ASSUME NEW p \in Invocations, LoaderWrites(p) PROVE Types'
  BY <1>5 DEF LoaderWrites, Types, tool
<1>6. ASSUME NEW p \in Invocations, LoaderEnds(p) PROVE Types'
  BY <1>6 DEF LoaderEnds, Types, server
<1>7. ASSUME NEW n, OtherCreates(n) PROVE Types'
  BY <1>7, Made DEF OtherCreates, Types, tool
<1>8. ASSUME NEW n, OtherDrops(n) PROVE Types'
  BY <1>8 DEF OtherDrops, Types, tool
<1>9. ASSUME NEW n, NEW to, OtherRenames(n, to) PROVE Types'
  BY <1>9 DEF OtherRenames, Types, tool
<1>10. CASE UNCHANGED vars
  BY <1>10 DEF vars, Types
<1> QED
  BY <1>1, <1>2, <1>3, <1>4, <1>5, <1>6, <1>7, <1>8, <1>9, <1>10, Quiets
     DEF Next, Command, Loader, Other, AllOver
-----------------------------------------------------------------------------
(* A refusal touches nothing.                                              *)

LEMMA InnocentInit == Init => Innocent
  BY InvocationsAssumption DEF Init, Innocent, Untouched, Refusals

LEMMA InnocentStep == Types /\ Innocent /\ [Next]_vars => Innocent'
<1> SUFFICES ASSUME Types, Innocent, [Next]_vars PROVE Innocent'
  OBVIOUS
<1> DEFINE Ok(q) == /\ pc[q] \in Before => Untouched(q) /\ outcome[q] = "none"
                    /\ pc[q] = "created" => loader[q] = "none"
                    /\ pc[q] \in {"created", "loading"} => outcome[q] = "none"
                    /\ outcome[q] \in Refusals => Untouched(q)
<1>0. \A q \in Invocations : Ok(q)
  BY DEF Innocent
<1> SUFFICES ASSUME NEW q \in Invocations PROVE Ok(q)'
  BY DEF Innocent
<1>1. ASSUME NEW p \in Invocations, Quiet(p) PROVE Ok(q)'
  <2>1. UNCHANGED <<maker, written, loader>>
    BY <1>1 DEF Quiet, server, tool
  <2>2. Untouched(q)' <=> Untouched(q)
    BY <2>1 DEF Untouched
  <2>3. CASE q = p
    BY <1>0, <1>1, <2>1, <2>2, <2>3 DEF Quiet, Turn, Refusals
  <2>4. CASE q # p
    BY <1>0, <1>1, <2>1, <2>2, <2>4 DEF Quiet, Moves
  <2> QED
    BY <2>3, <2>4
<1>2. ASSUME NEW p \in Invocations, Create(p) PROVE Ok(q)'
  <2>1. Moves(p) /\ <<pc'[p], outcome'[p]>> \in {<<"created", outcome[p]>>, <<"done", "failed">>}
    BY <1>2, Goes, Ends DEF Create
  <2>2. pc[p] = "creating" /\ NewDatabase(name[p], p) /\ UNCHANGED <<written, loader>>
    BY <1>2 DEF Create, tool
  <2>3. CASE q = p
    <3>1. loader[p] = "none" /\ outcome[p] = "none"
      BY <1>0, <2>2 DEF Untouched
    <3> QED
      BY <2>1, <2>2, <2>3, <3>1 DEF Refusals
  <2>4. CASE q # p
    <3>1. Untouched(q) => Untouched(q)'
      BY <2>2, <2>4, Made DEF Untouched, Types
    <3> QED
      BY <1>0, <2>1, <2>2, <2>4, <3>1 DEF Moves
  <2> QED
    BY <2>3, <2>4
<1>3. ASSUME NEW p \in Invocations, Fork(p) PROVE Ok(q)'
  <2>1. Moves(p) /\ <<pc'[p], outcome'[p]>> \in {<<"loading", outcome[p]>>, <<"done", "failed">>}
    BY <1>3, Goes, Ends DEF Fork
  <2>2. pc[p] = "created" /\ UNCHANGED <<maker, written>>
    BY <1>3 DEF Fork, server
  <2>3. \A r \in Invocations \ {p} : loader'[r] = loader[r]
    BY <1>3 DEF Fork, Types
  <2>4. CASE q = p
    BY <1>0, <2>1, <2>2, <2>4 DEF Refusals
  <2>5. CASE q # p
    BY <1>0, <2>1, <2>2, <2>3, <2>5 DEF Moves, Untouched
  <2> QED
    BY <2>4, <2>5
<1>4. ASSUME NEW p \in Invocations, Loader(p) PROVE Ok(q)'
  <2>1. loader[p] # "none" /\ UNCHANGED <<maker, pc, outcome>>
    BY <1>4 DEF Loader, LoaderConnects, LoaderWrites, LoaderEnds, server
  <2>2. \A r \in Invocations \ {p} : loader'[r] = loader[r]
    BY <1>4 DEF Loader, LoaderConnects, LoaderWrites, LoaderEnds, Types, tool
  <2>3. \A w \in written' : w \in written \/ w[1] = p
    BY <1>4 DEF Loader, LoaderConnects, LoaderWrites, LoaderEnds, server
  <2>4. CASE q = p
    BY <1>0, <2>1, <2>4 DEF Untouched
  <2>5. CASE q # p
    BY <1>0, <2>1, <2>2, <2>3, <2>5 DEF Untouched
  <2> QED
    BY <2>4, <2>5
<1>5. ASSUME NEW n, OtherCreates(n) PROVE Ok(q)'
  <2>1. NewDatabase(n, "other") /\ UNCHANGED <<written, pc, outcome, loader>>
    BY <1>5 DEF OtherCreates, tool
  <2>2. Untouched(q) => Untouched(q)'
    BY <2>1, Made, InvocationsAssumption DEF Untouched, Types
  <2> QED
    BY <1>0, <2>1, <2>2
<1>6. CASE UNCHANGED <<maker, written, pc, outcome, loader>>
  BY <1>0, <1>6 DEF Untouched
<1>7. (\E n \in OtherNames : OtherDrops(n) \/ \E to \in OtherNames \cup {Spare} : OtherRenames(n, to))
        \/ UNCHANGED vars => UNCHANGED <<maker, written, pc, outcome, loader>>
  BY DEF OtherDrops, OtherRenames, vars, tool
<1> HIDE DEF Ok
<1> QED
  BY <1>1, <1>2, <1>3, <1>4, <1>5, <1>6, <1>7, Quiets DEF Next, Command, Other, AllOver
-----------------------------------------------------------------------------
(* What a tool writes to was made by its invocation.                       *)

LEMMA OwnedInit == Init => Owned
  BY DEF Init, Owned

\* The only way to lose the database of a name is a drop or a rename of it.
LEMMA OwnedStep ==
  ASSUME "ours" \notin OthersMay
  PROVE  Types /\ Innocent /\ Owned /\ [Next]_vars => Owned'
<1> SUFFICES ASSUME Types, Innocent, Owned, [Next]_vars PROVE Owned'
  OBVIOUS
<1> DEFINE Writes == \A w \in written : w[2] \in DOMAIN maker /\ maker[w[2]] = w[1]
           Has(q) == /\ pc[q] \in {"created", "loading"} \/ loader[q] # "none" => Owns(q)
                     /\ loader[q] = "writing" => target[q] = oid[name[q]]
                     /\ loader[q] = "complete" => <<q, oid[name[q]]>> \in written
                     /\ outcome[q] = "restored" => loader[q] = "complete"
<1>0. Writes /\ \A q \in Invocations : Has(q)
  BY DEF Owned
<1>n. \A q \in Invocations : pc[q] \in Before => loader[q] = "none" /\ outcome[q] = "none"
  BY DEF Innocent, Untouched
<1> SUFFICES Writes' /\ \A q \in Invocations : Has(q)'
  BY DEF Owned
<1>1. ASSUME NEW p \in Invocations, Quiet(p) PROVE Writes' /\ \A q \in Invocations : Has(q)'
  <2>1. UNCHANGED <<oid, maker, written, loader, target>>
    BY <1>1 DEF Quiet, server, tool
  <2>2. ASSUME NEW q \in Invocations, q # p PROVE Has(q)'
    <3>1. name'[q] = name[q] /\ pc'[q] = pc[q] /\ outcome'[q] = outcome[q]
      BY <1>1, <2>2 DEF Quiet, Moves, Naming, Types
    <3> QED
      BY <1>0, <2>1, <3>1 DEF Owns
  <2>3. CASE pc[p] \in Before
    <3>1. loader'[p] = "none"
      BY <1>n, <2>1, <2>3
    <3>2. pc'[p] \notin {"created", "loading"} /\ outcome'[p] # "restored"
      BY <1>1, <1>n, <2>3 DEF Quiet, Turn, Refusals
    <3> QED
      BY <1>0, <2>1, <2>2, <3>1, <3>2
  <2>4. CASE pc[p] \notin Before
    <3>1. name' = name /\ pc'[p] = "done"
      BY <1>1, <2>4 DEF Quiet, Turn, Naming
    <3>2. outcome'[p] = "restored" => loader[p] = "complete"
      BY <1>1, <2>4 DEF Quiet, Turn
    <3> QED
      BY <1>0, <2>1, <2>2, <3>1, <3>2 DEF Owns
  <2> QED
    BY <2>3, <2>4
<1>2. ASSUME NEW p \in Invocations, Create(p) PROVE Writes' /\ \A q \in Invocations : Has(q)'
  <2>1. Moves(p) /\ outcome'[p] \in {outcome[p], "failed"}
    BY <1>2, Goes, Ends DEF Create
  <2>2. /\ pc[p] = "creating" /\ NewDatabase(name[p], p)
        /\ UNCHANGED <<written, name, loader, target>>
    BY <1>2 DEF Create, tool
  <2>3. /\ \A o \in DOMAIN maker : o \in DOMAIN maker' /\ maker'[o] = maker[o]
        /\ \A m \in DOMAIN oid : m \in DOMAIN oid' /\ oid'[m] = oid[m]
    BY <2>2, Made DEF Types
  <2>4. Owns(p)'
    BY <2>2, Made DEF Owns, Types
  <2>5. Writes'
    BY <1>0, <2>2, <2>3
  <2>6. ASSUME NEW q \in Invocations, q # p PROVE Has(q)'
    <3>1. Owns(q) => Owns(q)' /\ oid'[name'[q]] = oid[name[q]]
      BY <2>2, <2>3 DEF Owns
    <3> QED
      BY <1>0, <2>1, <2>2, <2>6, <3>1 DEF Moves
  <2>7. Has(p)'
    BY <1>n, <2>1, <2>2, <2>4
  <2> QED
    BY <2>5, <2>6, <2>7
<1>3. ASSUME NEW p \in Invocations, Fork(p) PROVE Writes' /\ \A q \in Invocations : Has(q)'
  <2>1. Moves(p) /\ outcome'[p] \in {outcome[p], "failed"}
    BY <1>3, Goes, Ends DEF Fork
  <2>2. pc[p] = "created" /\ UNCHANGED <<oid, maker, written, name, target>>
    BY <1>3 DEF Fork, server
  <2>3. /\ \A r \in Invocations \ {p} : loader'[r] = loader[r]
        /\ loader'[p] \in {loader[p], "connecting"}
    BY <1>3 DEF Fork, Types
  <2>4. loader[p] = "none" /\ outcome[p] = "none" /\ Owns(p)
    BY <1>0, <2>2 DEF Innocent
  <2>5. Has(p)'
    BY <2>1, <2>2, <2>3, <2>4 DEF Owns
  <2>6. ASSUME NEW q \in Invocations, q # p PROVE Has(q)'
    BY <1>0, <2>1, <2>2, <2>3, <2>6 DEF Moves, Owns
  <2> QED
    BY <1>0, <2>2, <2>5, <2>6
<1>4. ASSUME NEW p \in Invocations, Loader(p) PROVE Writes' /\ \A q \in Invocations : Has(q)'
  <2>1. /\ UNCHANGED <<oid, maker, pc, name, outcome>>
        /\ loader[p] \in {"connecting", "writing"} /\ Owns(p)
    BY <1>0, <1>4 DEF Loader, LoaderConnects, LoaderWrites, LoaderEnds, server
  <2>2. \A r \in Invocations \ {p} : loader'[r] = loader[r] /\ target'[r] = target[r]
    BY <1>4 DEF Loader, LoaderConnects, LoaderWrites, LoaderEnds, Types, tool
  <2>3. written \subseteq written'
    BY <1>4 DEF Loader, LoaderConnects, LoaderWrites, LoaderEnds, server
  <2>4. ASSUME NEW q \in Invocations, q # p PROVE Has(q)'
    BY <1>0, <2>1, <2>2, <2>3, <2>4 DEF Owns
  <2>5. outcome[p] # "restored"
    BY <1>0, <2>1
  <2>6. CASE LoaderConnects(p)
    <3>1. written' = written
      BY <2>6 DEF LoaderConnects, server
    <3>2. loader'[p] = "partial" \/ (loader'[p] = "writing" /\ target'[p] = oid[name[p]])
      BY <2>6 DEF LoaderConnects, Types
    <3> QED
      BY <1>0, <2>1, <2>4, <2>5, <3>1, <3>2 DEF Owns
  <2>7. CASE LoaderWrites(p)
    <3>1. /\ loader' = loader /\ target' = target /\ loader[p] = "writing"
          /\ written' = written \cup {<<p, oid[name[p]]>>}
      BY <1>0, <2>7 DEF LoaderWrites, tool
    <3> QED
      BY <1>0, <2>1, <2>4, <2>5, <3>1 DEF Owns
  <2>8. CASE LoaderEnds(p)
    <3>1. written' = written
      BY <2>8 DEF LoaderEnds, server
    <3>2. loader'[p] = "partial" \/ (loader'[p] = "complete" /\ <<p, oid[name[p]]>> \in written)
      BY <1>0, <2>8 DEF LoaderEnds, Types
    <3> QED
      BY <1>0, <2>1, <2>4, <2>5, <3>1, <3>2 DEF Owns
  <2> QED
    BY <1>4, <2>6, <2>7, <2>8 DEF Loader
<1>5. ASSUME NEW n, OtherCreates(n) PROVE Writes' /\ \A q \in Invocations : Has(q)'
  <2>1. NewDatabase(n, "other") /\ UNCHANGED <<written, pc, name, outcome, loader, target>>
    BY <1>5 DEF OtherCreates, tool
  <2>2. /\ \A o \in DOMAIN maker : o \in DOMAIN maker' /\ maker'[o] = maker[o]
        /\ \A m \in DOMAIN oid : m \in DOMAIN oid' /\ oid'[m] = oid[m]
    BY <2>1, Made DEF Types
  <2>3. Writes'
    BY <1>0, <2>1, <2>2
  <2>4. ASSUME NEW q \in Invocations PROVE Has(q)'
    <3>1. Owns(q) => Owns(q)' /\ oid'[name'[q]] = oid[name[q]]
      BY <2>1, <2>2 DEF Owns
    <3> QED
      BY <1>0, <2>1, <3>1
  <2> QED
    BY <2>3, <2>4
<1>6. CASE UNCHANGED vars
  BY <1>0, <1>6 DEF vars, Owns
<1>7. ASSUME NEW n, NEW to, OtherDrops(n) \/ OtherRenames(n, to)
      PROVE  Writes' /\ \A q \in Invocations : Has(q)'
  <2>1. /\ UNCHANGED <<maker, written, pc, name, outcome, loader, target>>
        /\ n \in DOMAIN oid /\ maker[oid[n]] = "other"
        /\ \A m \in DOMAIN oid \ {n} : m \in DOMAIN oid' /\ oid'[m] = oid[m]
    BY <1>7 DEF OtherDrops, OtherRenames, Theirs, tool
  <2>2. ASSUME NEW q \in Invocations PROVE Has(q)'
    <3>1. Owns(q) => Owns(q)' /\ oid'[name'[q]] = oid[name[q]]
      BY <2>1, InvocationsAssumption DEF Owns
    <3> QED
      BY <1>0, <2>1, <3>1
  <2> QED
    BY <1>0, <2>1, <2>2
<1> HIDE DEF Writes, Has
<1> QED
  BY <1>1, <1>2, <1>3, <1>4, <1>5, <1>6, <1>7, Quiets DEF Next, Command, Other, AllOver
-----------------------------------------------------------------------------
(* Names stand for different databases, and the tools agree with pc.       *)

\* At most one command is offered.
AtMostOne(S) == \A c, d \in S : c = d

Agrees(p) ==
  /\ pc[p] = "loading" => loader[p] # "none"
  /\ loader[p] = "writing" <=> target[p] # 0
  /\ target[p] # 0 => \E n \in DOMAIN oid : oid[n] = target[p]
  /\ AtMostOne(offered[p])

Agreement ==
  /\ \A m, n \in DOMAIN oid : oid[m] = oid[n] => m = n
  /\ DOMAIN offered = Invocations
  /\ \A w \in written : w[2] \in DOMAIN maker
  /\ \A p \in Invocations : Agrees(p)

LEMMA AgreementInit == Init => Agreement
<1> SUFFICES ASSUME Init PROVE Agreement
  OBVIOUS
<1>1. ASSUME NEW n \in DOMAIN oid PROVE Initially[oid[n]] = n
  <2>1. n \in Range(Initially) /\ oid[n] = CHOOSE o \in DOMAIN Initially : Initially[o] = n
    BY <1>1 DEF Init
  <2>2. \E o \in DOMAIN Initially : Initially[o] = n
    BY <2>1 DEF Range
  <2> QED
    BY <2>1, <2>2
<1>2. \A m, n \in DOMAIN oid : oid[m] = oid[n] => m = n
  BY <1>1
<1> QED
  BY <1>2 DEF Init, Agreement, Agrees, AtMostOne

\* What the steps of the commands do to offered.
LEMMA OffersOne ==
  ASSUME Agreement, NEW p \in Invocations,
         Start(p) \/ Command(p) \/ Die(p)
  PROVE  /\ DOMAIN offered' = Invocations
         /\ \A q \in Invocations : AtMostOne(offered'[q])
<1>1. ASSUME NEW o, NEW c, End(p, o, {}) \/ End(p, o, {c})
      PROVE  /\ DOMAIN offered' = Invocations
             /\ \A q \in Invocations : AtMostOne(offered'[q])
  BY <1>1 DEF End, Agreement, Agrees, AtMostOne
<1>2. ASSUME NEW to, Go(p, to)
      PROVE  /\ DOMAIN offered' = Invocations
             /\ \A q \in Invocations : AtMostOne(offered'[q])
  BY <1>2 DEF Go, Agreement, Agrees
<1>3. (\E to : Go(p, to)) \/ (\E o, c : End(p, o, {}) \/ End(p, o, {c}))
  <2>1. CASE Start(p)
    BY <2>1 DEF Start
  <2>2. CASE ReadBackup(p)
    BY <2>2, Zenon DEF ReadBackup
  <2>3. CASE List(p)
    BY <2>3, Zenon DEF List
  <2>4. CASE Confirm(p) \/ Validate(p) \/ Create(p) \/ CreateFails(p) \/ Fork(p)
               \/ Return(p) \/ Die(p)
    BY <2>4, Zenon DEF Confirm, Validate, Create, CreateFails, Fork, Return, Die
  <2> QED
    BY <2>1, <2>2, <2>3, <2>4 DEF Command
<1> QED
  BY <1>1, <1>2, <1>3

LEMMA AgreementStep == Types /\ Innocent /\ Agreement /\ [Next]_vars => Agreement'
<1> SUFFICES ASSUME Types, Innocent, Agreement, [Next]_vars PROVE Agreement'
  OBVIOUS
<1> DEFINE Distinct == \A m, n \in DOMAIN oid : oid[m] = oid[n] => m = n
           Tools(q) == /\ pc[q] = "loading" => loader[q] # "none"
                       /\ loader[q] = "writing" <=> target[q] # 0
                       /\ target[q] # 0 => \E n \in DOMAIN oid : oid[n] = target[q]
           Offers == DOMAIN offered = Invocations /\ \A q \in Invocations : AtMostOne(offered[q])
           Known == \A w \in written : w[2] \in DOMAIN maker
           Sound == Distinct /\ Known /\ \A q \in Invocations : Tools(q)
<1>0. Distinct /\ Known /\ Offers /\ \A q \in Invocations : Tools(q)
  BY DEF Agreement, Agrees
<1> SUFFICES Sound' /\ Offers'
  BY DEF Agreement, Agrees
<1>a. ASSUME NEW n, NEW who \in Makers, NewDatabase(n, who), UNCHANGED written
      PROVE  Distinct' /\ Known' /\ \A m \in DOMAIN oid : m \in DOMAIN oid' /\ oid'[m] = oid[m]
  <2>1. /\ DOMAIN oid' = DOMAIN oid \cup {n}
        /\ oid'[n] = Len(maker) + 1
        /\ \A m \in DOMAIN oid : oid'[m] = oid[m]
    BY <1>a DEF NewDatabase
  <2>2. \A m \in DOMAIN oid : oid[m] \in 1 .. Len(maker)
    BY DEF Types
  <2>3. \A m \in DOMAIN oid : oid[m] # Len(maker) + 1
    BY <2>2 DEF Types
  <2>4. Known'
    BY <1>0, <1>a, Made DEF Types
  <2> QED
    BY <1>0, <2>1, <2>3, <2>4
<1>1. ASSUME NEW p \in Invocations, Quiet(p) PROVE Sound'
  <2>1. UNCHANGED <<oid, maker, written, loader, target>>
    BY <1>1 DEF Quiet, server, tool
  <2>2. \A q \in Invocations : pc'[q] = "loading" => pc[q] = "loading"
    BY <1>1 DEF Quiet, Turn, Moves
  <2> QED
    BY <1>0, <2>1, <2>2
<1>2. ASSUME NEW p \in Invocations, Create(p) PROVE Sound'
  <2>1. Moves(p) /\ pc'[p] \in {"created", "done"}
    BY <1>2, Goes, Ends DEF Create
  <2>2. NewDatabase(name[p], p) /\ UNCHANGED <<written, loader, target>>
    BY <1>2 DEF Create, tool
  <2>3. Distinct' /\ Known' /\ \A m \in DOMAIN oid : m \in DOMAIN oid' /\ oid'[m] = oid[m]
    BY <1>a, <2>2
  <2> QED
    BY <1>0, <2>1, <2>2, <2>3 DEF Moves
<1>3. ASSUME NEW p \in Invocations, Fork(p) PROVE Sound'
  <2>1. UNCHANGED <<oid, maker, written, target>> /\ pc[p] = "created" /\ loader[p] = "none"
    BY <1>3 DEF Fork, server, Innocent
  <2>2. Moves(p)
    BY <1>3, Goes, Ends DEF Fork
  <2>3. CASE Go(p, "loading") /\ loader' = [loader EXCEPT ![p] = "connecting"]
    <3>1. loader'[p] = "connecting" /\ \A q \in Invocations \ {p} : loader'[q] = loader[q]
      BY <2>3 DEF Types
    <3> QED
      BY <1>0, <2>1, <2>2, <3>1 DEF Moves
  <2>4. CASE End(p, "failed", {}) /\ UNCHANGED loader
    <3>1. pc'[p] = "done"
      BY <2>4, Ends
    <3> QED
      BY <1>0, <2>1, <2>2, <2>4, <3>1 DEF Moves
  <2> QED
    BY <1>3, <2>3, <2>4 DEF Fork
<1>4. ASSUME NEW p \in Invocations, LoaderConnects(p) PROVE Sound'
  <2>1. loader[p] = "connecting" /\ target[p] = 0 /\ UNCHANGED <<oid, maker, written, pc>>
    BY <1>0, <1>4 DEF LoaderConnects, server
  <2>2. \A q \in Invocations \ {p} : loader'[q] = loader[q] /\ target'[q] = target[q]
    BY <1>4 DEF LoaderConnects, Types
  <2>3. \/ /\ name[p] \in DOMAIN oid /\ loader'[p] = "writing"
           /\ target'[p] = oid[name[p]]
        \/ loader'[p] = "partial" /\ target'[p] = target[p]
    BY <1>4 DEF LoaderConnects, Types
  <2>4. name[p] \in DOMAIN oid => oid[name[p]] # 0
    BY DEF Types
  <2> QED
    BY <1>0, <2>1, <2>2, <2>3, <2>4
<1>5. ASSUME NEW p \in Invocations, LoaderEnds(p) PROVE Sound'
  <2>1. UNCHANGED <<oid, maker, written, pc>>
    BY <1>5 DEF LoaderEnds, server
  <2>2. \A q \in Invocations \ {p} : loader'[q] = loader[q] /\ target'[q] = target[q]
    BY <1>5 DEF LoaderEnds, Types
  <2>3. loader'[p] \in {"partial", "complete"} /\ target'[p] = 0
    BY <1>5 DEF LoaderEnds, Types
  <2> QED
    BY <1>0, <2>1, <2>2, <2>3
<1>6. ASSUME NEW n, OtherCreates(n) PROVE Sound'
  <2>1. NewDatabase(n, "other") /\ UNCHANGED <<written, pc, loader, target>>
    BY <1>6 DEF OtherCreates, tool
  <2> QED
    BY <1>0, <1>a, <2>1
<1>7. ASSUME NEW n, OtherDrops(n) PROVE Sound'
  <2>1. /\ DOMAIN oid' = DOMAIN oid \ {n} /\ \A m \in DOMAIN oid' : oid'[m] = oid[m]
        /\ \A q \in Invocations : target[q] # oid[n]
        /\ UNCHANGED <<maker, written, pc, loader, target>>
    BY <1>7 DEF OtherDrops, tool, InUse
  <2> QED
    BY <1>0, <2>1
<1>8. ASSUME NEW n, NEW to, OtherRenames(n, to) PROVE Sound'
  <2>1. /\ n \in DOMAIN oid /\ to \notin DOMAIN oid
        /\ DOMAIN oid' = (DOMAIN oid \ {n}) \cup {to} /\ oid'[to] = oid[n]
        /\ \A m \in DOMAIN oid \ {n} : oid'[m] = oid[m]
        /\ \A q \in Invocations : target[q] # oid[n]
        /\ UNCHANGED <<maker, written, pc, loader, target>>
    BY <1>8 DEF OtherRenames, tool, InUse
  <2>2. Distinct'
    BY <1>0, <2>1
  <2>3. ASSUME NEW q \in Invocations PROVE Tools(q)'
    BY <1>0, <2>1
  <2> QED
    BY <1>0, <2>1, <2>2, <2>3
<1>9. ASSUME NEW p \in Invocations, LoaderWrites(p) PROVE Sound'
  <2>1. UNCHANGED <<oid, maker, pc, loader, target>> /\ target[p] # 0
    BY <1>0, <1>9 DEF LoaderWrites, tool
  <2>2. target[p] \in DOMAIN maker
    BY <1>0, <2>1 DEF Types
  <2>3. \A w \in written' : w \in written \/ w[2] = target[p]
    BY <1>9 DEF LoaderWrites
  <2> QED
    BY <1>0, <2>1, <2>2, <2>3
<1>10. CASE UNCHANGED vars
  BY <1>0, <1>10 DEF vars
<1>11. (\E p \in Invocations : Loader(p)) \/ Other \/ UNCHANGED vars => UNCHANGED offered
  BY DEF Loader, LoaderConnects, LoaderWrites, LoaderEnds, Other, OtherCreates, OtherDrops,
         OtherRenames, vars
<1>12. Offers'
  BY <1>0, <1>11, OffersOne DEF Next, AllOver
<1> HIDE DEF Sound, Offers
<1> QED
  BY <1>1, <1>2, <1>3, <1>4, <1>5, <1>6, <1>7, <1>8, <1>9, <1>10, <1>12, Quiets
     DEF Next, Command, Loader, Other, AllOver
-----------------------------------------------------------------------------
(* The theorems.                                                           *)

LEMMA Innocence == Spec => [](Types /\ Innocent)
<1>1. Init => Types /\ Innocent
  BY TypesInit, InnocentInit
<1>2. Types /\ Innocent /\ [Next]_vars => (Types /\ Innocent)'
  BY TypesStep, InnocentStep
<1> QED
  BY <1>1, <1>2, PTL DEF Spec

LEMMA Ownership ==
  ASSUME "ours" \notin OthersMay
  PROVE  Spec => []Owned
<1>1. Init => Owned
  BY OwnedInit
<1>2. Types /\ Innocent /\ Owned /\ [Next]_vars => Owned'
  BY OwnedStep
<1> QED
  BY <1>1, <1>2, Innocence, PTL DEF Spec

\* The variables keep their types, names stand for different databases, and each
\* tool is connected to a database that exists, for any invocations, databases and
\* other clients.
THEOREM TypeCorrect == Spec => []TypeOK
<1>1. Init => Agreement
  BY AgreementInit
<1>2. Types /\ Innocent /\ Agreement /\ [Next]_vars => Agreement'
  BY AgreementStep
<1>3. Types /\ Agreement => TypeOK
  <2> SUFFICES ASSUME Types, Agreement PROVE TypeOK
    OBVIOUS
  <2>1. Range(oid) \subseteq DOMAIN maker /\ IsInjective(oid)
    BY DEF Types, Agreement, Range, IsInjective
  <2>2. Range(maker) \subseteq Makers
    BY DEF Types, Range
  <2>3. written \subseteq Invocations \X DOMAIN maker
    BY DEF Types, Agreement
  <2>4. ASSUME NEW p \in Invocations
        PROVE  /\ pc[p] \in Before \cup {"created", "loading", "done"}
               /\ loader[p] \in {"none", "connecting", "writing", "complete", "partial"}
               /\ pc[p] = "loading" => loader[p] # "none"
               /\ loader[p] = "writing" <=> target[p] # 0
               /\ target[p] # 0 => target[p] \in Range(oid)
    BY DEF Types, Agreement, Agrees, Range
  <2>5. ASSUME NEW p \in Invocations PROVE Cardinality(offered[p]) <= 1
    <3>1. CASE offered[p] = {}
      BY <3>1, FS_EmptySet
    <3>2. CASE \E c : c \in offered[p]
      <4>1. PICK c : c \in offered[p]
        BY <3>2
      <4>2. offered[p] = {c}
        BY <4>1 DEF Agreement, Agrees, AtMostOne
      <4>3. Cardinality({c}) = 1
        BY FS_Singleton
      <4> QED
        BY <4>2, <4>3
    <3> QED
      BY <3>1, <3>2
  <2> QED
    BY <2>1, <2>2, <2>3, <2>4, <2>5 DEF TypeOK
<1> QED
  BY <1>1, <1>2, <1>3, Innocence, PTL DEF Spec

\* An invocation that was refused or declined has created no database and
\* written to none, whatever the other clients of the server do: everything that
\* is checked is checked before CREATE DATABASE.
THEOREM RefusalsTouchNothing == Spec => []RefusedTouchedNothing
<1>1. Types /\ Innocent => RefusedTouchedNothing
  BY DEF Types, Innocent, Untouched, RefusedTouchedNothing, Refusals, Range
<1> QED
  BY <1>1, Innocence, PTL

\* As long as the other clients drop and rename only databases of their own, what any
\* invocation writes
\* to was created by that invocation, however many race for one name.
THEOREM OnlyOwnDatabasesWritten ==
  ASSUME "ours" \notin OthersMay
  PROVE  Spec => []NeverWritesExisting
<1>1. Owned => NeverWritesExisting
  BY DEF Owned, NeverWritesExisting
<1> QED
  BY <1>1, Ownership, PTL

\* Under the same condition a restore that reports success has left its database
\* under the name it announced, loaded by it and by nobody else.
THEOREM RestoredStays ==
  ASSUME "ours" \notin OthersMay
  PROVE  Spec => []RestoredIsThere
<1>1. Types /\ Owned => RestoredIsThere
  <2> SUFFICES ASSUME Types, Owned, NEW p \in Invocations, outcome[p] = "restored"
               PROVE  /\ name[p] \in DOMAIN oid
                      /\ maker[oid[name[p]]] = p
                      /\ {w \in written : w[2] = oid[name[p]]} = {<<p, oid[name[p]]>>}
    BY DEF RestoredIsThere
  <2> DEFINE o == oid[name[p]]
  <2>1. name[p] \in DOMAIN oid /\ maker[o] = p /\ <<p, o>> \in written
    BY DEF Owned, Owns
  <2>2. \A w \in written : w = <<w[1], w[2]>>
    BY DEF Types
  <2>3. \A w \in written : w[2] = o => w = <<p, o>>
    BY <2>1, <2>2 DEF Owned
  <2> QED
    BY <2>1, <2>3
<1> QED
  BY <1>1, Ownership, Innocence, PTL
-----------------------------------------------------------------------------
(* The offered name is free.                                               *)

LEMMA LeastNatural ==
  ASSUME NEW S \in SUBSET Nat, S # {}
  PROVE  \E i \in S : \A j \in S : i <= j
<1>1. PICK i \in S : \A j \in S : ~ (<<j, i>> \in OpToRel(<, Nat))
  BY WFMin, NatLessThanWellFounded, Zenon
<1>2. \A j \in S : <<j, i>> \in OpToRel(<, Nat) <=> j < i
  BY Zenon DEF OpToRel
<1>3. \A j \in S : ~ (j < i)
  BY Zenon, <1>1, <1>2
<1>4. \A m, n \in Nat : ~ (m < n) => n <= m
  OBVIOUS
<1>5. S \subseteq Nat
  OBVIOUS
<1> QED
  BY Zenon, <1>3, <1>4, <1>5

\* A number after a name makes a longer name, another one for each number.
LEMMA Suffixes ==
  ASSUME NEW base, IsName(base), NEW k \in Nat
  PROVE  /\ Append(base, k)[Len(base) + 1] = k
         /\ Len(Append(base, k)) = Len(base) + 1 /\ Len(base) \in Nat
         /\ IsName(Append(base, k))
<1> DEFINE S == {base[i] : i \in DOMAIN base} \cup Nat
           n == Append(base, k)
<1>1. base \in Seq(S)
  BY DEF IsName
<1>2. n \in Seq(S) /\ Len(n) = Len(base) + 1 /\ n[Len(base) + 1] = k /\ Len(base) \in Nat
  BY <1>1
<1> HIDE DEF n, S
<1>3. n \in [1 .. Len(n) -> S] /\ Len(n) \in Nat /\ DOMAIN n = 1 .. Len(n)
  BY <1>2, LenProperties
<1> DEFINE T == {n[i] : i \in DOMAIN n}
<1>4. n \in [1 .. Len(n) -> T]
  BY <1>3
<1> HIDE DEF T
<1>5. n \in Seq(T)
  BY <1>3, <1>4, SeqDef
<1> QED
  BY <1>2, <1>5 DEF IsName, n, T

\* Of so many suffixes one is not taken: SuggestRestoreName ends, with a name
\* that is not in the list.
LEMMA SuggestionIsFree ==
  ASSUME NEW base, IsName(base), NEW existing, IsFiniteSet(existing)
  PROVE  \E k \in Nat : /\ SuggestRestoreName(base, existing) = Append(base, k)
                        /\ Append(base, k) \notin existing
<1> DEFINE C == Cardinality(existing)
           Free == {k \in 1 .. C + 1 : Append(base, k) \notin existing}
<1>1. C \in Nat
  BY FS_CardinalityType
<1>2. Free # {}
  <2> SUFFICES ASSUME \A k \in 1 .. C + 1 : Append(base, k) \in existing PROVE FALSE
    OBVIOUS
  <2> DEFINE f == [k \in 1 .. C + 1 |-> Append(base, k)]
  <2>1. f \in [1 .. C + 1 -> existing]
    OBVIOUS
  <2>2. \A j, k \in 1 .. C + 1 : f[j] = f[k] => j = k
    <3> SUFFICES ASSUME NEW j \in 1 .. C + 1, NEW k \in 1 .. C + 1, f[j] = f[k] PROVE j = k
      OBVIOUS
    <3>1. j \in Nat /\ k \in Nat /\ Append(base, j) = Append(base, k)
      BY <1>1
    <3> QED
      BY <3>1, Suffixes
  <2>3. IsFiniteSet(1 .. C + 1) /\ Cardinality(1 .. C + 1) = C + 1
    BY <1>1, FS_Interval
  <2>4. C < Cardinality(1 .. C + 1)
    BY <1>1, <2>3
  <2> HIDE DEF f
  <2>5. \E x, y \in 1 .. C + 1 : x # y /\ f[x] = f[y]
    BY <2>1, <2>3, <2>4, FS_PigeonHole
  <2> QED
    BY <2>2, <2>5
<1>3. Free \in SUBSET Nat
  BY <1>1
<1> HIDE DEF Free
<1>4. Min(Free) \in Free
  BY <1>2, <1>3, LeastNatural DEF Min
<1>5. SuggestRestoreName(base, existing) = Append(base, Min(Free))
  BY DEF SuggestRestoreName, Free
<1>6. Append(base, Min(Free)) \notin existing
  BY <1>4 DEF Free
<1> QED
  BY <1>3, <1>4, <1>5, <1>6

\* Command lines, and the names taken from them, are what Requests are.
Lines ==
  /\ IsFiniteSet(DOMAIN oid)
  /\ DOMAIN req = Invocations /\ DOMAIN offered = Invocations
  /\ \A p \in Invocations :
       /\ pc[p] # "idle" => IsRequest(req[p])
       /\ pc[p] = "listing" => IsName(name[p]) /\ name[p] # NoName
       /\ \A c \in offered[p] : IsRequest(c)

LEMMA Fields ==
  ASSUME NEW r, IsRequest(r), NEW n, IsName(n)
  PROVE  IsRequest(RestoreCommand(r, n)) /\ RestoreCommand(r, n).db = n
<1> DEFINE c == RestoreCommand(r, n)
<1>1. DOMAIN r = {"db", "format", "jobs", "file"} /\ IsName(r.file.recorded)
  BY DEF IsRequest
<1>2. DOMAIN c = DOMAIN r /\ c.db = n /\ c.file = r.file
  BY <1>1 DEF RestoreCommand
<1> QED
  BY <1>1, <1>2 DEF IsRequest

LEMMA LinesInit == Init => Lines
<1> SUFFICES ASSUME Init PROVE Lines
  OBVIOUS
<1>1. IsFiniteSet(Range(Initially))
  <2>1. Initially \in Seq(Range(Initially))
    BY InitiallyAssumption
  <2>2. DOMAIN Initially = 1 .. Len(Initially) /\ Len(Initially) \in Nat
    BY <2>1
  <2>3. IsFiniteSet(DOMAIN Initially)
    BY <2>2, FS_Interval
  <2>4. Initially \in Surjection(DOMAIN Initially, Range(Initially))
    BY <2>1, <2>2 DEF Surjection, Range
  <2> QED
    BY <2>3, <2>4, FS_Surjection
<1>2. DOMAIN oid = Range(Initially)
  BY DEF Init
<1>3. DOMAIN req = Invocations /\ DOMAIN offered = Invocations
  BY DEF Init
<1>4. \A p \in Invocations : pc[p] = "idle" /\ offered[p] = {}
  BY DEF Init
<1> QED
  BY <1>1, <1>2, <1>3, <1>4 DEF Lines

\* Steps that leave the command lines alone and end nothing with an offer.
LEMMA LinesStay ==
  ASSUME Lines, Types, IsFiniteSet(DOMAIN oid'), UNCHANGED <<req, name>>,
         NEW p \in Invocations, pc[p] # "idle", pc'[p] # "listing",
         \A q \in Invocations \ {p} : pc'[q] = pc[q],
         offered' = offered \/ offered' = [offered EXCEPT ![p] = {}]
  PROVE  Lines'
  BY DEF Lines

LEMMA StartLines == ASSUME Types, Lines, NEW p \in Invocations, Start(p) PROVE Lines'
<1>1. PICK r \in Requests \cup UNION {offered[q] : q \in Invocations} :
        req' = [req EXCEPT ![p] = r]
  BY DEF Start
<1>2. IsRequest(r)
  BY <1>1, RequestsAssumption DEF Lines
<1>3. pc' = [pc EXCEPT ![p] = "args"] /\ UNCHANGED <<oid, name, offered>>
  BY DEF Start, Go, server
<1>4. \A q \in Invocations : req'[q] = IF q = p THEN r ELSE req[q]
  BY <1>1 DEF Lines
<1>5. \A q \in Invocations : pc'[q] = IF q = p THEN "args" ELSE pc[q]
  BY <1>3 DEF Types
<1>6. DOMAIN req' = Invocations
  BY <1>1 DEF Lines
<1> QED
  BY <1>2, <1>3, <1>4, <1>5, <1>6 DEF Lines

LEMMA ReadBackupLines == ASSUME Types, Lines, NEW p \in Invocations, ReadBackup(p) PROVE Lines'
<1>1. pc[p] = "args" /\ UNCHANGED <<oid, req>> /\ IsRequest(req[p])
  BY DEF ReadBackup, server, Lines
<1>2. ASSUME NEW o, NEW cs, End(p, o, cs), UNCHANGED name, \A c \in cs : IsRequest(c)
      PROVE  Lines'
  <2>1. \A q \in Invocations : /\ pc'[q] = IF q = p THEN "done" ELSE pc[q]
                               /\ offered'[q] = IF q = p THEN cs ELSE offered[q]
    BY <1>2 DEF End, Types, Lines
  <2>2. DOMAIN offered' = Invocations
    BY <1>2 DEF End, Lines
  <2> QED
    BY <1>1, <1>2, <2>1, <2>2 DEF Lines
<1>3. ASSUME Go(p, "listing"), ResolveRestoreName(req[p].db, req[p].file) # NoName,
             name' = [name EXCEPT ![p] = ResolveRestoreName(req[p].db, req[p].file)]
      PROVE  Lines'
  <2>1. IsName(ResolveRestoreName(req[p].db, req[p].file))
    BY <1>1, <1>3 DEF IsRequest, ResolveRestoreName, ArchiveName
  <2>2. /\ pc' = [pc EXCEPT ![p] = "listing"] /\ UNCHANGED offered
    BY <1>3 DEF Go
  <2>3. \A q \in Invocations : pc'[q] = IF q = p THEN "listing" ELSE pc[q]
    BY <2>2 DEF Types
  <2>4. \A q \in Invocations :
          name'[q] = IF q = p THEN ResolveRestoreName(req[p].db, req[p].file) ELSE name[q]
    BY <1>3 DEF Types
  <2> QED
    BY <1>1, <1>3, <2>1, <2>2, <2>3, <2>4 DEF Lines
<1>4. IsRequest(RestoreCommand(req[p], <<"mydb">>))
  <2>1. IsName(<<"mydb">>)
    BY DEF IsName
  <2> QED
    BY <1>1, <2>1, Fields
<1> QED
  BY <1>2, <1>3, <1>4 DEF ReadBackup

LEMMA ListLines == ASSUME Types, Lines, NEW p \in Invocations, List(p) PROVE Lines'
<1>1. /\ pc[p] = "listing" /\ UNCHANGED <<oid, req, name>>
      /\ IsRequest(req[p]) /\ IsName(name[p]) /\ IsFiniteSet(Listed)
  <2>1. IsFiniteSet(DOMAIN oid)
    BY DEF Lines
  <2>2. IsFiniteSet(Listed)
    BY <2>1, FS_Subset DEF Listed
  <2> QED
    BY <2>2 DEF List, server, Lines
<1>2. CASE End(p, "refused", {})
  BY <1>1, <1>2, LinesStay, Ends DEF Moves, End, Lines
<1>3. CASE Go(p, "planned")
  BY <1>1, <1>3, LinesStay, Goes DEF Moves, Go, Lines
<1>4. ASSUME End(p, "exists", {RestoreCommand(req[p], SuggestRestoreName(name[p], Listed))})
      PROVE  Lines'
  <2> DEFINE c == RestoreCommand(req[p], SuggestRestoreName(name[p], Listed))
  <2>1. IsRequest(c)
    <3>1. PICK k \in Nat : SuggestRestoreName(name[p], Listed) = Append(name[p], k)
      BY <1>1, SuggestionIsFree
    <3>2. IsName(SuggestRestoreName(name[p], Listed))
      BY <1>1, <3>1, Suffixes
    <3> QED
      BY <1>1, <3>2, Fields
  <2> HIDE DEF c
  <2>2. \A q \in Invocations : /\ pc'[q] = IF q = p THEN "done" ELSE pc[q]
                               /\ offered'[q] = IF q = p THEN {c} ELSE offered[q]
    BY <1>4 DEF End, Types, Lines, c
  <2>3. DOMAIN offered' = Invocations
    BY <1>4 DEF End, Lines
  <2> QED
    BY <1>1, <2>1, <2>2, <2>3 DEF Lines
<1> QED
  BY <1>2, <1>3, <1>4 DEF List

LEMMA CommandLines ==
  ASSUME Types, Lines, NEW p \in Invocations,
         Confirm(p) \/ Validate(p) \/ CreateFails(p) \/ Fork(p) \/ Return(p) \/ Die(p)
  PROVE  Lines'
<1>1. pc[p] # "idle" /\ UNCHANGED <<oid, req, name>>
  BY DEF Confirm, Validate, CreateFails, Fork, Return, Die, server
<1>2. \/ \E o : End(p, o, {})
      \/ \E to \in {"restoring", "creating", "loading"} : Go(p, to)
  BY DEF Confirm, Validate, CreateFails, Fork, Return, Die
<1>3. IsFiniteSet(DOMAIN oid')
  BY <1>1 DEF Lines
<1>4. ASSUME NEW o, End(p, o, {}) PROVE Lines'
  <2>1. /\ pc'[p] = "done" /\ \A q \in Invocations \ {p} : pc'[q] = pc[q]
        /\ offered' = [offered EXCEPT ![p] = {}]
    BY <1>4 DEF End, Types
  <2> QED
    BY <1>1, <1>3, <2>1, LinesStay
<1>5. CASE \E to \in {"restoring", "creating", "loading"} : Go(p, to)
  BY <1>1, <1>3, <1>5, LinesStay, Goes DEF Moves, Go
<1> QED
  BY <1>2, <1>4, <1>5

LEMMA NewDatabaseFinite ==
  ASSUME Lines, NEW n, NEW who, NewDatabase(n, who) PROVE IsFiniteSet(DOMAIN oid')
<1>1. DOMAIN oid' = DOMAIN oid \cup {n}
  BY DEF NewDatabase
<1> QED
  BY <1>1, FS_AddElement DEF Lines

LEMMA CreateLines == ASSUME Types, Lines, NEW p \in Invocations, Create(p) PROVE Lines'
<1>1. /\ pc[p] = "creating" /\ UNCHANGED <<req, name>> /\ IsFiniteSet(DOMAIN oid')
      /\ Go(p, "created") \/ End(p, "failed", {})
  BY NewDatabaseFinite DEF Create
<1>2. CASE Go(p, "created")
  BY <1>1, <1>2, LinesStay, Goes DEF Moves, Go
<1>3. CASE End(p, "failed", {})
  BY <1>1, <1>3, LinesStay, Ends DEF Moves, End
<1> QED
  BY <1>1, <1>2, <1>3

LEMMA OtherLines ==
  ASSUME Types, Lines,
         \/ \E p \in Invocations : Loader(p)
         \/ Other \/ UNCHANGED vars
  PROVE  Lines'
<1>1. UNCHANGED <<pc, req, name, offered>>
  BY DEF Loader, LoaderConnects, LoaderWrites, LoaderEnds, Other, OtherCreates, OtherDrops,
         OtherRenames, vars
<1>2. IsFiniteSet(DOMAIN oid)
  BY DEF Lines
<1>3. CASE \E p \in Invocations : Loader(p)
  BY <1>1, <1>2, <1>3 DEF Lines, Loader, LoaderConnects, LoaderWrites, LoaderEnds, server
<1>4. ASSUME NEW n, OtherCreates(n) PROVE IsFiniteSet(DOMAIN oid')
  BY <1>4, NewDatabaseFinite DEF OtherCreates
<1>5. ASSUME NEW n, OtherDrops(n) PROVE IsFiniteSet(DOMAIN oid')
  BY <1>2, <1>5, FS_Subset DEF OtherDrops
<1>6. ASSUME NEW n, NEW to, OtherRenames(n, to) PROVE IsFiniteSet(DOMAIN oid')
  <2>1. DOMAIN oid' = (DOMAIN oid \ {n}) \cup {to}
    BY <1>6 DEF OtherRenames
  <2>2. IsFiniteSet(DOMAIN oid \ {n})
    BY <1>2, FS_Subset
  <2> QED
    BY <2>1, <2>2, FS_AddElement
<1>7. CASE Other
  <2>1. IsFiniteSet(DOMAIN oid')
    BY <1>4, <1>5, <1>6, <1>7 DEF Other
  <2> QED
    BY <1>1, <2>1 DEF Lines
<1>8. CASE UNCHANGED vars
  BY <1>1, <1>2, <1>8 DEF Lines, vars
<1> QED
  BY <1>3, <1>7, <1>8

LEMMA LinesStep == Types /\ Lines /\ [Next]_vars => Lines'
<1> SUFFICES ASSUME Types, Lines, [Next]_vars PROVE Lines'
  OBVIOUS
<1>1. ASSUME NEW p \in Invocations, Start(p) \/ Command(p) \/ Die(p) PROVE Lines'
  BY <1>1, StartLines, ReadBackupLines, ListLines, CommandLines, CreateLines DEF Command
<1>2. CASE (\E p \in Invocations : Loader(p)) \/ Other \/ UNCHANGED vars
  BY <1>2, OtherLines
<1> QED
  BY <1>1, <1>2 DEF Next, AllOver

\* The only step that reports that the name is taken.
LEMMA ExistsIsListed ==
  ASSUME Types, [Next]_vars, NEW p \in Invocations,
         outcome[p] = "none", outcome'[p] = "exists"
  PROVE  /\ pc[p] = "listing"
         /\ offered' = [offered EXCEPT ![p] =
                          {RestoreCommand(req[p], SuggestRestoreName(name[p], Listed))}]
<1>1. ASSUME NEW q \in Invocations, NEW o, NEW cs, End(q, o, cs) PROVE q = p /\ o = "exists"
  BY <1>1 DEF End, Types
<1>2. outcome' # outcome
  OBVIOUS
<1>3. \A q, to : ~Go(q, to)
  BY <1>2 DEF Go
<1>4. ASSUME NEW q \in Invocations, Start(q) \/ Command(q) \/ Die(q) PROVE q = p /\ List(p)
  <2>1. CASE Start(q) \/ Confirm(q) \/ Validate(q) \/ Create(q) \/ CreateFails(q) \/ Fork(q) \/ Die(q)
    BY <1>1, <1>3, <2>1 DEF Start, Confirm, Validate, Create, CreateFails, Fork, Die
  <2>2. CASE ReadBackup(q)
    BY <1>1, <1>3, <2>2 DEF ReadBackup
  <2>3. CASE Return(q)
    BY <1>1, <2>3 DEF Return
  <2>4. CASE List(q)
    BY <1>1, <1>3, <2>4 DEF List
  <2> QED
    BY <1>4, <2>1, <2>2, <2>3, <2>4 DEF Command
<1>5. ~((\E q \in Invocations : Loader(q)) \/ Other \/ UNCHANGED vars)
  BY <1>2 DEF Loader, LoaderConnects, LoaderWrites, LoaderEnds, Other, OtherCreates, OtherDrops,
              OtherRenames, vars
<1>6. List(p)
  BY <1>4, <1>5 DEF Next, AllOver
<1>7. pc[p] = "listing"
      /\ End(p, "exists", {RestoreCommand(req[p], SuggestRestoreName(name[p], Listed))})
  BY <1>1, <1>3, <1>6 DEF List
<1> QED
  BY <1>7 DEF End

\* The command that is offered when the name is taken names a database that
\* nobody has, however many suffixes are taken: SuggestRestoreName ends.  (The
\* list leaves the templates out; none of them is named like a suggestion.)
THEOREM OffersAreFree ==
  ASSUME \A t \in Templates : Len(t) = 1
  PROVE  Spec => OfferedIsFree
<1>1. Spec => []Lines
  BY LinesInit, LinesStep, Innocence, PTL DEF Spec
<1>2. ASSUME Types, Lines, [Next]_vars, NEW p \in Invocations,
             outcome[p] = "none", outcome'[p] = "exists", NEW c \in offered'[p]
      PROVE  c.db \notin DOMAIN oid
  <2>1. /\ pc[p] = "listing"
        /\ offered' = [offered EXCEPT ![p] =
                          {RestoreCommand(req[p], SuggestRestoreName(name[p], Listed))}]
    BY <1>2, ExistsIsListed
  <2>2. /\ IsRequest(req[p]) /\ IsName(name[p]) /\ name[p] # NoName
        /\ DOMAIN offered = Invocations /\ IsFiniteSet(DOMAIN oid)
    BY <1>2, <2>1 DEF Lines
  <2>3. IsFiniteSet(Listed)
    BY <2>2, FS_Subset DEF Listed
  <2>4. PICK k \in Nat : /\ SuggestRestoreName(name[p], Listed) = Append(name[p], k)
                         /\ Append(name[p], k) \notin Listed
    BY <2>2, <2>3, SuggestionIsFree
  <2>5. c = RestoreCommand(req[p], Append(name[p], k))
    BY <1>2, <2>1, <2>2, <2>4
  <2>6. c.db = Append(name[p], k)
    BY <2>2, <2>5, Suffixes, Fields
  <2>7. Len(Append(name[p], k)) # 1
    <3>1. Len(name[p]) # 0
      BY <2>2 DEF IsName, NoName
    <3> QED
      BY <2>2, <3>1, Suffixes
  <2> QED
    BY <2>4, <2>6, <2>7 DEF Listed
<1>3. Types /\ Lines /\ [Next]_vars =>
        [\A p \in Invocations :
           outcome[p] = "none" /\ outcome'[p] = "exists" =>
             \A c \in offered'[p] : c.db \notin DOMAIN oid]_vars
  BY <1>2
<1> QED
  BY <1>1, <1>3, Innocence, PTL DEF Spec, OfferedIsFree
-----------------------------------------------------------------------------
(* Nothing is tried again.                                                 *)

\* How far an invocation and its tool have come.
CommandAt(s) ==
  CASE s = "idle" -> 0 [] s = "args" -> 1 [] s = "listing" -> 2 [] s = "planned" -> 3
    [] s = "restoring" -> 4 [] s = "creating" -> 5 [] s = "created" -> 6
    [] s = "loading" -> 7 [] OTHER -> 8

LoaderAt(s) ==
  CASE s = "none" -> 0 [] s = "connecting" -> 1 [] s = "writing" -> 2 [] OTHER -> 3

\* p goes on, or its tool does, or the tool writes where it had not written.
Advances(p) ==
  /\ \A q \in Invocations \ {p} : pc'[q] = pc[q] /\ loader'[q] = loader[q]
  /\ \/ CommandAt(pc[p]) < CommandAt(pc'[p]) /\ LoaderAt(loader[p]) <= LoaderAt(loader'[p])
     \/ pc'[p] = pc[p] /\ LoaderAt(loader[p]) < LoaderAt(loader'[p])
     \/ /\ pc'[p] = pc[p] /\ loader'[p] = loader[p]
        /\ <<p, target[p]>> \notin written /\ <<p, target[p]>> \in written'

LEMMA CommandAdvances ==
  ASSUME Types, NEW p \in Invocations, Start(p) \/ Command(p) \/ Die(p)
  PROVE  /\ \A q \in Invocations \ {p} : pc'[q] = pc[q]
         /\ CommandAt(pc[p]) < CommandAt(pc'[p])
<1>1. /\ \A q \in Invocations \ {p} : pc'[q] = pc[q]
      /\ \/ pc[p] = "idle" /\ pc'[p] = "args"
         \/ pc[p] = "args" /\ pc'[p] = "listing"
         \/ pc[p] = "listing" /\ pc'[p] = "planned"
         \/ pc[p] = "planned" /\ pc'[p] = "restoring"
         \/ pc[p] = "restoring" /\ pc'[p] = "creating"
         \/ pc[p] = "creating" /\ pc'[p] = "created"
         \/ pc[p] = "created" /\ pc'[p] = "loading"
         \/ pc[p] # "done" /\ pc'[p] = "done"
  <2>1. CASE Start(p)
    BY <2>1, Goes DEF Start, Moves
  <2>2. CASE ReadBackup(p)
    <3>1. pc[p] = "args" /\ ((\E o, cs : End(p, o, cs)) \/ Go(p, "listing"))
      BY <2>2, Zenon DEF ReadBackup
    <3> QED
      BY <3>1, Goes, Ends DEF Moves
  <2>3. CASE List(p)
    <3>1. pc[p] = "listing" /\ ((\E o, cs : End(p, o, cs)) \/ Go(p, "planned"))
      BY <2>3, Zenon DEF List
    <3> QED
      BY <3>1, Goes, Ends DEF Moves
  <2>4. CASE Confirm(p) \/ Validate(p)
    BY <2>4, Goes, Ends DEF Confirm, Validate, Moves
  <2>5. CASE Create(p) \/ CreateFails(p)
    BY <2>5, Goes, Ends DEF Create, CreateFails, Moves
  <2>6. CASE Fork(p) \/ Return(p)
    <3>1. \/ pc[p] = "created" /\ Go(p, "loading")
          \/ pc[p] \in {"created", "loading"} /\ \E o, cs : End(p, o, cs)
      BY <2>6, Zenon DEF Fork, Return
    <3> QED
      BY <3>1, Goes, Ends DEF Moves
  <2>7. CASE Die(p)
    BY <2>7, Ends DEF Die, Moves
  <2> QED
    BY <2>1, <2>2, <2>3, <2>4, <2>5, <2>6, <2>7 DEF Command
<1>2. pc[p] \in Before \cup {"created", "loading", "done"}
  BY DEF Types
<1> QED
  BY <1>1, <1>2 DEF CommandAt

LEMMA CommandsTool ==
  ASSUME Types, Innocent, NEW p \in Invocations, Start(p) \/ Command(p) \/ Die(p)
  PROVE  /\ \A q \in Invocations \ {p} : loader'[q] = loader[q]
         /\ LoaderAt(loader[p]) <= LoaderAt(loader'[p])
<1>1. CASE Fork(p)
  <2>1. pc[p] = "created" /\ loader' \in {loader, [loader EXCEPT ![p] = "connecting"]}
    BY <1>1 DEF Fork
  <2>2. loader[p] = "none" /\ DOMAIN loader = Invocations
    BY <2>1 DEF Innocent, Types
  <2> QED
    BY <2>1, <2>2 DEF LoaderAt
<1>2. CASE ~Fork(p)
  <2>1. loader' = loader
    BY <1>2, Quiets DEF Command, Create, Quiet, tool
  <2> QED
    BY <2>1 DEF LoaderAt, Types
<1> QED
  BY <1>1, <1>2

LEMMA LoaderAdvances ==
  ASSUME Types, NEW p \in Invocations, Loader(p), ~UNCHANGED vars PROVE Advances(p)
<1>1. DOMAIN loader = Invocations
  BY DEF Types
<1>2. CASE LoaderConnects(p)
  BY <1>1, <1>2 DEF LoaderConnects, Advances, LoaderAt
<1>3. CASE LoaderEnds(p)
  BY <1>1, <1>3 DEF LoaderEnds, Advances, LoaderAt
<1>4. CASE LoaderWrites(p)
  <2>1. /\ UNCHANGED <<oid, maker, pc, req, name, outcome, offered, loader, target>>
        /\ written' = written \cup {<<p, target[p]>>}
    BY <1>4 DEF LoaderWrites, tool
  <2>2. written' # written
    BY <2>1 DEF vars
  <2> QED
    BY <2>1, <2>2 DEF Advances
<1> QED
  BY <1>2, <1>3, <1>4 DEF Loader

\* Nothing is tried again, whatever fails: each step brings one invocation or its
\* tool nearer to its end or writes to a database it had not written to, so an
\* invocation takes at most eight steps of its own, its tool three and the writing.
THEOREM StepsAreBounded ==
  Spec => [][Other \/ \E p \in Invocations : Advances(p)]_vars
<1>1. Types /\ Innocent /\ [Next]_vars => [Other \/ \E p \in Invocations : Advances(p)]_vars
  <2> SUFFICES ASSUME Types, Innocent, Next, ~UNCHANGED vars, ~Other
               PROVE  \E p \in Invocations : Advances(p)
    OBVIOUS
  <2>1. PICK p \in Invocations : Start(p) \/ Command(p) \/ Die(p) \/ Loader(p)
    BY DEF Next, AllOver
  <2>2. Advances(p)
    BY <2>1, CommandAdvances, CommandsTool, LoaderAdvances DEF Advances
  <2> QED
    BY <2>2
<1> QED
  BY <1>1, Innocence, PTL DEF Spec
=============================================================================

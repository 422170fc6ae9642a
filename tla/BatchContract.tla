---------------------------- MODULE BatchContract ----------------------------
(***************************************************************************)
(* What a caller relies on when it hands targets to                        *)
(* core.BackupAllWithProgress, without goroutines, channels or a wait      *)
(* group: at most Slots targets are being backed up at a time, each gets   *)
(* exactly one result, the caller is told of each once, after it is known, *)
(* and when the call returns every result is in the slice and told.        *)
(*                                                                         *)
(* When a result goes into the slice is left open: the doc comment in      *)
(* core/manager.go puts it after the callback and the code before it, and  *)
(* a program of either order keeps this contract.  BackupBatch implements  *)
(* it, and so does InspectTables, whose caller is told nothing.            *)
(***************************************************************************)
EXTENDS Integers, FiniteSets

CONSTANTS Target,    \* positions in the caller's slice of targets
          Slots,     \* how many backups may run at the same time
          Outcomes,  \* Outcomes[i]: the results a finished backup of i can have
          Skipped,   \* Skipped[i]: the result of a target never started
          Unset,     \* what stands for a result that is not known yet
          Telling    \* does the caller ask to be told of each result?

VARIABLES phase,     \* "idle", "running" or "returned"
          called,    \* the targets of the call
          active,    \* the targets being backed up right now
          outcome,   \* the result that each target got, once it is known
          stored,    \* the targets whose entry of the slice holds it
          told       \* how often the caller was told of each result

contractVars == <<phase, called, active, outcome, stored, told>>

Init ==
  /\ phase = "idle"
  /\ called = {}
  /\ active = {}
  /\ outcome = [i \in Target |-> Unset]
  /\ stored = {}
  /\ told = [i \in Target |-> 0]

Call(ts) ==
  /\ phase = "idle"
  /\ phase' = "running"
  /\ called' = ts
  /\ UNCHANGED <<active, outcome, stored, told>>

Start(i) ==
  /\ phase = "running"
  /\ i \in called \ active
  /\ outcome[i] = Unset
  /\ Cardinality(active) < Slots
  /\ active' = active \cup {i}
  /\ UNCHANGED <<phase, called, outcome, stored, told>>

Finish(i) ==
  /\ i \in active
  /\ active' = active \ {i}
  /\ \E r \in Outcomes[i] : outcome' = [outcome EXCEPT ![i] = r]
  /\ stored' \in {stored, stored \cup {i}}
  /\ UNCHANGED <<phase, called, told>>

Skip(i) ==
  /\ phase = "running"
  /\ i \in called \ active
  /\ outcome[i] = Unset
  /\ outcome' = [outcome EXCEPT ![i] = Skipped[i]]
  /\ stored' \in {stored, stored \cup {i}}
  /\ UNCHANGED <<phase, called, active, told>>

\* The result goes into the slice at once, or at any time before the return.
Store(i) ==
  /\ phase = "running"
  /\ outcome[i] # Unset
  /\ i \notin stored
  /\ stored' = stored \cup {i}
  /\ UNCHANGED <<phase, called, active, outcome, told>>

Tell(i) ==
  /\ phase = "running"
  /\ outcome[i] # Unset
  /\ told[i] = 0
  /\ told' = [told EXCEPT ![i] = 1]
  /\ UNCHANGED <<phase, called, active, outcome, stored>>

Return ==
  /\ phase = "running"
  /\ active = {}
  /\ called \subseteq stored
  /\ Telling => \A i \in called : told[i] = 1
  /\ phase' = "returned"
  /\ UNCHANGED <<called, active, outcome, stored, told>>

Next ==
  \/ \E ts \in SUBSET Target : Call(ts)
  \/ \E i \in Target : Start(i) \/ Finish(i) \/ Skip(i) \/ Store(i) \/ Tell(i)
  \/ Return

Spec == Init /\ [][Next]_contractVars
=============================================================================

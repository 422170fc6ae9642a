--------------------------- MODULE RetentionProofs ---------------------------
(***************************************************************************)
(* Proofs about Retention, for any jobs, lists of databases, formats and   *)
(* clock: a backup reported OK is a whole dump until it is old, and a job  *)
(* that prunes keeps fresh copies of its own databases.                    *)
(***************************************************************************)
EXTENDS Retention, TLAPS

USE FormatsAssumption, TimesAssumption, AgesAssumption DEF dumpVars, callVars, jobVars

Single == {"custom", "plain", "tar"}
Ran == {"complete", "hollow", "failed"}

\* What a call was asked for, how far it is and what it returned go together.
CallsInv ==
  \A c \in Calls :
    /\ dump[c] = "none" <=> asked[c] = NotAsked
    /\ asked[c] # NotAsked => asked[c].format \in Single /\ asked[c].at <= now
    /\ outcome[c] \notin {"none", "refused"} => dump[c] \in Ran
    /\ outcome[c] = "partial" => dump[c] = "failed"
    /\ outcome[c] = "refused" => asked[c] = NotAsked

\* A job's calls are for its list; after a status of 0 they all were OK.
JobInv(j) ==
  /\ list[j] \in Lists[j] \cup {<<>>}
  /\ format[j] \in Formats \cup {"custom"}
  /\ job[j] = "idle" => \A i : <<j, i>> \in Calls => asked[<<j, i>>] = NotAsked
  /\ \A i \in DOMAIN list[j] : asked[<<j, i>>] # NotAsked => asked[<<j, i>>].db = list[j][i]
  /\ job[j] = "exited" /\ status[j] = 0 => \A c \in CallsOf(j) : outcome[c] = "ok"

JobsInv ==
  /\ DOMAIN list = Jobs /\ DOMAIN format = Jobs
  /\ \A j \in Jobs : JobInv(j)

Timely == \A c \in Calls : Underway(c) => now - asked[c].at <= LongestRun

\* Whoever is named as the writer of a file has opened it.
FilesInv ==
  \A f \in DOMAIN files :
    /\ files[f] \in [by : Calls, holds : {"nothing", "dump", "part", "mixed"}, mtime : Nat]
    /\ dump[files[f].by] \in Ran \cup {"open"}

\* The file of c is c's own, and nobody has touched it.
Own(c, what) ==
  /\ Present(c)
  /\ files[FileOf(c)].by = c
  /\ files[FileOf(c)].holds = what
  /\ files[FileOf(c)].mtime >= asked[c].at

Aged(c) == asked[c].format = "custom" /\ now - asked[c].at > MaxAge

\* What becomes of the file of a call that shares its name with no other.
Kept(c) ==
  /\ dump[c] = "open" => Own(c, "nothing")
  /\ dump[c] = "hollow" /\ Present(c) => Own(c, "nothing")
  /\ dump[c] = "complete" => Own(c, "dump") \/ Aged(c)
  /\ outcome[c] = "ok" => dump[c] = "complete"

Good == \A c \in Calls : asked[c] # NotAsked /\ Unshared(c) => Kept(c)

IInv == TypeOK /\ CallsInv /\ JobsInv /\ Timely /\ FilesInv /\ Good

-----------------------------------------------------------------------------
LEMMA ExtInjective ==
  ASSUME NEW a \in Single, NEW b \in Single, Ext(a) = Ext(b) PROVE a = b
  BY DEF Ext, Single

\* Calls that share nothing have different files.
LEMMA NamesDiffer ==
  ASSUME CallsInv, NEW c \in Calls, NEW k \in Calls \ {c},
         asked[c] # NotAsked, asked[k] # NotAsked, Unshared(c)
  PROVE  FileOf(k) # FileOf(c)
<1> SUFFICES ASSUME FileOf(k) = FileOf(c) PROVE FALSE
  OBVIOUS
<1>1. /\ asked[k].db = asked[c].db
      /\ Stamp(asked[k].at) = Stamp(asked[c].at)
      /\ Ext(asked[k].format) = Ext(asked[c].format)
  BY DEF FileOf, FileName
<1>2. asked[k].format = asked[c].format
  BY <1>1, ExtInjective DEF CallsInv
<1> QED
  BY <1>1, <1>2 DEF Unshared

\* What a call was asked for never changes, and once it shares its name it
\* always does.
LEMMA StaysUnshared ==
  ASSUME NEW c \in Calls, asked[c] # NotAsked, Unshared(c)',
         \A k \in Calls : asked[k] # NotAsked => asked'[k] = asked[k],
         CallsInv
  PROVE  Unshared(c)
<1> SUFFICES ASSUME NEW k \in Calls \ {c},
                    asked[k].db = asked[c].db, asked[k].format = asked[c].format,
                    Stamp(asked[k].at) = Stamp(asked[c].at)
             PROVE  FALSE
  BY DEF Unshared
<1>1. asked[c].format \in Single
  BY DEF CallsInv
<1>2. NotAsked.format = "" /\ "" \notin Single
  BY DEF NotAsked, Single
<1>3. asked[k] # NotAsked
  BY <1>1, <1>2
<1> QED
  BY <1>3 DEF Unshared, Stamp

LEMMA Clock ==
  ASSUME TypeOK
  PROVE  /\ now \in Nat /\ now <= MaxTime
         /\ \A c \in Calls : asked[c].at \in Nat
<1>1. now \in 0 .. MaxTime
  BY Zenon DEF TypeOK
<1>2. asked \in [Calls -> [db : Databases \cup {""}, at : 0 .. MaxTime, format : Formats \cup {"", "custom"}]]
  BY Zenon DEF TypeOK
<1>3. ASSUME NEW c \in Calls PROVE asked[c].at \in 0 .. MaxTime
  <2>1. asked[c] \in [db : Databases \cup {""}, at : 0 .. MaxTime, format : Formats \cup {"", "custom"}]
    BY <1>2
  <2> QED
    BY <2>1
<1>4. \A n \in 0 .. MaxTime : n \in Nat /\ n <= MaxTime
  OBVIOUS
<1> QED
  BY <1>1, <1>3, <1>4

LEMMA InitIInv == Init => IInv
<1> SUFFICES ASSUME Init PROVE IInv
  OBVIOUS
<1>1. NotAsked \in [db : Databases \cup {""}, at : 0 .. MaxTime, format : Formats \cup {"", "custom"}]
  BY DEF NotAsked
<1>2. /\ now = 0 /\ DOMAIN files = {}
      /\ asked = [c \in Calls |-> NotAsked]
      /\ dump = [c \in Calls |-> "none"] /\ outcome = [c \in Calls |-> "none"]
  BY DEF Init, InitDumps
<1>3. /\ job = [j \in Jobs |-> "idle"] /\ list = [j \in Jobs |-> <<>>]
      /\ format = [j \in Jobs |-> "custom"] /\ status = [j \in Jobs |-> 0]
  BY DEF Init
<1>4. asked \in [Calls -> [db : Databases \cup {""}, at : 0 .. MaxTime, format : Formats \cup {"", "custom"}]]
  BY <1>1, <1>2
<1>5. TypeOK
  <2>1. now \in 0 .. MaxTime
    BY <1>2
  <2>2. /\ dump \in [Calls -> {"none", "forked", "open", "complete", "hollow", "failed"}]
        /\ outcome \in [Calls -> Outcomes]
    BY <1>2 DEF Outcomes
  <2>3. /\ status \in [Jobs -> {0, 1}]
        /\ job \in [Jobs -> {"idle", "running", "exited", "done"}]
    BY <1>3
  <2>4. /\ \A f \in DOMAIN files : FALSE
        /\ \A c \in Calls : outcome[c] = "none"
    BY <1>2
  <2> QED
    BY <1>4, <2>1, <2>2, <2>3, <2>4 DEF TypeOK
<1>6. \A c \in Calls : asked[c] = NotAsked /\ dump[c] = "none" /\ outcome[c] = "none"
  BY <1>2
<1>8. \A j \in Jobs : /\ job[j] = "idle" /\ list[j] = <<>> /\ format[j] = "custom"
  BY <1>3
<1>9. CallsInv
  BY <1>6 DEF CallsInv
<1>10. JobsInv
  <2>1. \A j \in Jobs : DOMAIN list[j] = {}
    BY <1>8
  <2>2. DOMAIN list = Jobs /\ DOMAIN format = Jobs
    BY <1>3
  <2>3. ASSUME NEW j \in Jobs PROVE JobInv(j)
    BY <1>6, <1>8, <2>1, <2>3 DEF JobInv
  <2> QED
    BY <2>2, <2>3 DEF JobsInv
<1>11. FilesInv
  BY <1>2 DEF FilesInv
<1>12. Good
  BY <1>6 DEF Good
<1>7. Timely
  BY <1>6 DEF Timely, Underway
<1> QED
  BY <1>5, <1>7, <1>9, <1>10, <1>11, <1>12 DEF IInv
-----------------------------------------------------------------------------
(* The steps.  Each action is summed up by what it does to the calls.      *)

\* The steps of one call: what they change of it and what they leave alone.
Touches(c) ==
  /\ \A k \in Calls \ {c} : /\ asked'[k] = asked[k]
                            /\ dump'[k] = dump[k]
                            /\ outcome'[k] = outcome[k]
  /\ UNCHANGED now

LEMMA RefuseTouches ==
  ASSUME TypeOK, NEW c \in Calls, Refuse(c)
  PROVE  /\ Touches(c) /\ UNCHANGED <<asked, dump, files>>
         /\ asked[c] = NotAsked /\ outcome[c] = "none" /\ outcome'[c] = "refused"
  BY DEF Refuse, Touches, TypeOK

LEMMA ForkTouches ==
  ASSUME TypeOK, NEW c \in Calls, NEW d, NEW f, Fork(c, d, f)
  PROVE  /\ Touches(c) /\ UNCHANGED <<outcome, files>>
         /\ asked[c] = NotAsked /\ outcome[c] = "none"
         /\ asked'[c] = [db |-> d, at |-> now, format |-> f] /\ dump'[c] = "forked"
  BY DEF Fork, Touches, TypeOK

LEMMA ReturnTouches ==
  ASSUME TypeOK, NEW c \in Calls, Return(c)
  PROVE  /\ Touches(c) /\ UNCHANGED <<asked, dump, files>>
         /\ dump[c] \in Ran /\ outcome[c] = "none" /\ outcome'[c] = Verdict(c)
  BY DEF Return, Touches, TypeOK, Ran

LEMMA OpenTouches ==
  ASSUME TypeOK, NEW c \in Calls, Open(c)
  PROVE  /\ Touches(c) /\ UNCHANGED <<asked, outcome>>
         /\ dump[c] = "forked" /\ dump'[c] = "open"
         /\ Put(FileOf(c), [by |-> c, holds |-> "nothing", mtime |-> now])
  BY DEF Open, Touches, TypeOK

LEMMA ExitTouches ==
  ASSUME TypeOK, NEW c \in Calls, Exit(c)
  PROVE  /\ Touches(c) /\ UNCHANGED <<asked, outcome>>
         /\ dump[c] \in {"forked", "open"} /\ dump'[c] \in Ran
         /\ \/ dump[c] = "open" /\ dump'[c] = "complete" /\ Write(c, "dump")
            \/ dump'[c] \in {"hollow", "failed"} /\ UNCHANGED files
            \/ dump[c] = "open" /\ dump'[c] = "failed" /\ Write(c, "part")
  BY DEF Exit, Touches, TypeOK, Ran

\* The steps of the calls, and the rest.
CallStep(c) ==
  \/ Refuse(c) /\ UNCHANGED jobVars
  \/ Return(c) /\ UNCHANGED jobVars
  \/ Open(c) /\ UNCHANGED jobVars
  \/ Exit(c) /\ UNCHANGED jobVars

ForkStep(j, i) ==
  /\ job[j] = "running" /\ i \in DOMAIN list[j]
  /\ Fork(<<j, i>>, list[j][i], format[j]) /\ UNCHANGED jobVars

LEMMA CallsExist ==
  ASSUME JobsInv, NEW j \in Jobs, NEW i \in DOMAIN list[j]
  PROVE  <<j, i>> \in Calls /\ list[j][i] \in Databases
<1>1. CASE list[j] \in Lists[j]
  BY <1>1, ListsAssumption
<1>2. CASE list[j] = <<>>
  BY <1>2
<1> QED
  BY <1>1, <1>2 DEF JobsInv, JobInv

LEMMA Cases ==
  ASSUME IInv, [Next]_vars
  PROVE  \/ \E j \in Jobs : Launch(j) \/ JobExits(j) \/ Script(j) \/ Die(j)
         \/ \E j \in Jobs : \E i \in DOMAIN list[j] : ForkStep(j, i)
         \/ \E c \in Calls : CallStep(c)
         \/ \E c \in Calls : Delete(c) /\ UNCHANGED jobVars
         \/ Tick
         \/ UNCHANGED vars
<1>1. CASE \E j \in Jobs : Backup(j)
  <2>1. PICK j \in Jobs : Backup(j)
    BY <1>1
  <2>2. PICK i \in DOMAIN list[j] :
           Refuse(<<j, i>>) \/ Fork(<<j, i>>, list[j][i], format[j]) \/ Return(<<j, i>>)
    BY <2>1 DEF Backup
  <2>3. <<j, i>> \in Calls
    BY CallsExist DEF IInv
  <2> QED
    BY <2>1, <2>2, <2>3 DEF Backup, ForkStep, CallStep
<1>2. CASE \E c \in Calls : Tool(c)
  BY <1>2 DEF Tool, CallStep
<1> QED
  BY <1>1, <1>2 DEF Next, AllDone

\* What Put and Write do to the directory.
LEMMA PutFacts ==
  ASSUME NEW f, NEW file, Put(f, file)
  PROVE  /\ DOMAIN files' = DOMAIN files \cup {f}
         /\ files'[f] = file
         /\ \A g \in DOMAIN files \ {f} : files'[g] = files[g]
  BY DEF Put

LEMMA WriteFacts ==
  ASSUME FilesInv, NEW c \in Calls, NEW what \in {"dump", "part"}, Write(c, what),
         now \in Nat
  PROVE  /\ DOMAIN files' = DOMAIN files
         /\ \A g \in DOMAIN files \ {FileOf(c)} : files'[g] = files[g]
         /\ Present(c) =>
              /\ files'[FileOf(c)] \in [by : Calls, holds : {"nothing", "dump", "part", "mixed"}, mtime : Nat]
              /\ files'[FileOf(c)].by = files[FileOf(c)].by
              /\ files'[FileOf(c)].mtime = now
              /\ files[FileOf(c)].by = c /\ files[FileOf(c)].holds = "nothing"
                   => files'[FileOf(c)].holds = what
<1>1. CASE ~Present(c)
  BY <1>1 DEF Write, Present
<1>2. CASE Present(c)
  <2> DEFINE old == files[FileOf(c)]
             new == [old EXCEPT !.holds = IF old.by = c /\ old.holds = "nothing"
                                            THEN what ELSE "mixed",
                                !.mtime = now]
  <2>1. Put(FileOf(c), new)
    BY <1>2 DEF Write
  <2>2. old \in [by : Calls, holds : {"nothing", "dump", "part", "mixed"}, mtime : Nat]
    BY <1>2 DEF FilesInv, Present
  <2>3. /\ new \in [by : Calls, holds : {"nothing", "dump", "part", "mixed"}, mtime : Nat]
        /\ new.by = old.by /\ new.mtime = now
        /\ old.by = c /\ old.holds = "nothing" => new.holds = what
    BY <2>2
  <2> HIDE DEF new
  <2>4. /\ DOMAIN files' = DOMAIN files \cup {FileOf(c)}
        /\ files'[FileOf(c)] = new
        /\ \A g \in DOMAIN files \ {FileOf(c)} : files'[g] = files[g]
    BY <2>1, PutFacts
  <2> QED
    BY <1>2, <2>3, <2>4 DEF Present
<1> QED
  BY <1>1, <1>2

\* All a step does to the directory of files other than the acting call's own.
LEMMA FilesMove ==
  ASSUME IInv, NEW c \in Calls, Open(c) \/ Exit(c)
  PROVE  /\ asked[c] # NotAsked
         /\ DOMAIN files' \subseteq DOMAIN files \cup {FileOf(c)}
         /\ DOMAIN files \subseteq DOMAIN files'
         /\ \A g \in DOMAIN files \ {FileOf(c)} : files'[g] = files[g]
<1>1. asked[c] # NotAsked
  BY DEF Open, Exit, IInv, CallsInv
<1>2. now \in Nat
  BY Clock DEF IInv
<1>3. CASE Open(c)
  BY <1>1, <1>3, OpenTouches, PutFacts DEF IInv
<1>4. CASE Exit(c)
  BY <1>1, <1>2, <1>4, ExitTouches, WriteFacts DEF IInv
<1> QED
  BY <1>3, <1>4

\* A request that was made stays, and so does what a call returned.
LEMMA Steady ==
  ASSUME IInv, [Next]_vars
  PROVE  \A c \in Calls :
           /\ asked[c] # NotAsked => asked'[c] = asked[c]
           /\ outcome[c] # "none" => outcome'[c] = outcome[c]
<1>1. ASSUME NEW j \in Jobs, Launch(j) \/ JobExits(j) \/ Script(j) \/ Die(j)
      PROVE  UNCHANGED <<asked, outcome>>
  BY <1>1 DEF Launch, JobExits, Script, Die
<1>2. ASSUME NEW j \in Jobs, NEW i \in DOMAIN list[j], ForkStep(j, i),
             NEW c \in Calls
      PROVE  /\ asked[c] # NotAsked => asked'[c] = asked[c]
             /\ outcome'[c] = outcome[c]
  BY <1>2, CallsExist, ForkTouches DEF ForkStep, Touches, IInv
<1>3. ASSUME NEW k \in Calls, CallStep(k), NEW c \in Calls
      PROVE  /\ asked'[c] = asked[c]
             /\ outcome[c] # "none" => outcome'[c] = outcome[c]
  BY <1>3, RefuseTouches, ReturnTouches, OpenTouches, ExitTouches
     DEF CallStep, Touches, IInv
<1>4. ASSUME (\E c \in Calls : Delete(c)) \/ Tick \/ UNCHANGED vars
      PROVE  UNCHANGED <<asked, outcome>>
  BY <1>4 DEF Delete, Tick, vars
<1> QED
  BY <1>1, <1>2, <1>3, <1>4, Cases
-----------------------------------------------------------------------------
LEMMA CallsStep == IInv /\ [Next]_vars => CallsInv'
<1> SUFFICES ASSUME IInv, [Next]_vars PROVE CallsInv'
  OBVIOUS
<1>0. now \in Nat /\ \A c \in Calls : asked[c].at \in Nat
  BY Clock DEF IInv
<1>1. ASSUME NEW j \in Jobs, Launch(j) \/ JobExits(j) \/ Script(j) \/ Die(j)
      PROVE  CallsInv'
  BY <1>1 DEF Launch, JobExits, Script, Die, CallsInv, IInv
<1>2. ASSUME NEW j \in Jobs, NEW i \in DOMAIN list[j], ForkStep(j, i)
      PROVE  CallsInv'
  <2> DEFINE c == <<j, i>>
  <2>1. /\ c \in Calls /\ Touches(c) /\ UNCHANGED <<outcome, files>>
        /\ outcome[c] = "none" /\ dump'[c] = "forked"
        /\ asked'[c] = [db |-> list[j][i], at |-> now, format |-> format[j]]
    BY <1>2, CallsExist, ForkTouches DEF ForkStep, IInv
  <2>2. format[j] \in Single /\ asked'[c] # NotAsked
    <3>1. format[j] \in Single
      BY DEF IInv, JobsInv, JobInv, Single
    <3>2. NotAsked.format = "" /\ "" \notin Single
      BY DEF NotAsked, Single
    <3>3. asked'[c].format = format[j]
      BY <2>1
    <3> QED
      BY <3>1, <3>2, <3>3
  <2>3. asked'[c].format \in Single /\ asked'[c].at <= now'
    BY <1>0, <2>1, <2>2 DEF Touches
  <2> HIDE DEF c
  <2> QED
    BY <2>1, <2>2, <2>3 DEF CallsInv, IInv, Touches
<1>3. ASSUME NEW c \in Calls, CallStep(c) PROVE CallsInv'
  <2>1. CASE Refuse(c)
    BY <2>1, RefuseTouches DEF CallsInv, IInv, Touches
  <2>2. CASE Return(c)
    <3>1. Verdict(c) = "partial" => dump[c] = "failed"
      BY DEF Verdict
    <3>2. Verdict(c) # "refused" /\ Verdict(c) # "none"
      BY DEF Verdict
    <3>3. /\ Touches(c) /\ UNCHANGED <<asked, dump, files>>
          /\ dump[c] \in Ran /\ outcome'[c] = Verdict(c)
      BY <2>2, ReturnTouches DEF IInv
    <3> QED
      BY <3>1, <3>2, <3>3 DEF CallsInv, IInv, Touches
  <2>3. CASE Open(c)
    BY <2>3, OpenTouches DEF CallsInv, IInv, Touches, Ran
  <2>4. CASE Exit(c)
    BY <2>4, ExitTouches DEF CallsInv, IInv, Touches, Ran
  <2> QED
    BY <1>3, <2>1, <2>2, <2>3, <2>4 DEF CallStep
<1>4. ASSUME (\E c \in Calls : Delete(c)) \/ UNCHANGED vars PROVE CallsInv'
  BY <1>4 DEF Delete, vars, CallsInv, IInv
<1>5. CASE Tick
  BY <1>0, <1>5 DEF Tick, CallsInv, IInv
<1> QED
  BY <1>1, <1>2, <1>3, <1>4, <1>5, Cases
-----------------------------------------------------------------------------
\* Only Tick moves the clock.
LEMMA Clockwork == IInv /\ [Next]_vars => Tick \/ UNCHANGED now
<1> SUFFICES ASSUME IInv, [Next]_vars PROVE Tick \/ UNCHANGED now
  OBVIOUS
<1>1. ASSUME NEW j \in Jobs, Launch(j) \/ JobExits(j) \/ Script(j) \/ Die(j)
      PROVE  UNCHANGED now
  BY <1>1 DEF Launch, JobExits, Script, Die
<1>2. ASSUME NEW j \in Jobs, NEW i \in DOMAIN list[j], ForkStep(j, i) PROVE UNCHANGED now
  BY <1>2 DEF ForkStep, Fork
<1>3. ASSUME NEW c \in Calls, CallStep(c) \/ Delete(c) PROVE UNCHANGED now
  BY <1>3 DEF CallStep, Refuse, Return, Open, Exit, Delete
<1>4. UNCHANGED vars => UNCHANGED now
  BY DEF vars
<1> QED
  BY Zenon, Cases, <1>1, <1>2, <1>3, <1>4

\* Apart from what a pg_dump does, files only disappear.
LEMMA Directory ==
  ASSUME IInv, [Next]_vars
  PROVE  \/ \E c \in Calls : Open(c) \/ Exit(c)
         \/ \A f \in DOMAIN files' : f \in DOMAIN files /\ files'[f] = files[f]
<1>1. ASSUME NEW j \in Jobs, Launch(j) \/ JobExits(j) \/ Script(j) \/ Die(j)
      PROVE  \A f \in DOMAIN files' : f \in DOMAIN files /\ files'[f] = files[f]
  BY <1>1 DEF Launch, JobExits, Script, Die, Spared
<1>2. ASSUME NEW c \in Calls, Delete(c)
      PROVE  \A f \in DOMAIN files' : f \in DOMAIN files /\ files'[f] = files[f]
  BY <1>2 DEF Delete
<1>3. ASSUME \/ \E j \in Jobs : \E i \in DOMAIN list[j] : ForkStep(j, i)
             \/ \E c \in Calls : Refuse(c) \/ Return(c)
             \/ Tick \/ UNCHANGED vars
      PROVE  UNCHANGED files
  BY <1>3 DEF ForkStep, Fork, Refuse, Return, Tick, vars
<1>4. \/ \E j \in Jobs : Launch(j) \/ JobExits(j) \/ Script(j) \/ Die(j)
      \/ \E c \in Calls : Delete(c)
      \/ \E c \in Calls : Open(c) \/ Exit(c)
      \/ \E j \in Jobs : \E i \in DOMAIN list[j] : ForkStep(j, i)
      \/ \E c \in Calls : Refuse(c) \/ Return(c)
      \/ Tick \/ UNCHANGED vars
  BY Zenon, Cases DEF CallStep
<1> QED
  BY <1>1, <1>2, <1>3, <1>4

\* How a pg_dump goes on.
LEMMA Onward ==
  ASSUME IInv, [Next]_vars, NEW c \in Calls
  PROVE  /\ dump[c] \in Ran => dump'[c] = dump[c]
         /\ dump[c] = "open" => dump'[c] \in Ran \cup {"open"}
         /\ asked[c] # NotAsked /\ dump'[c] \in {"forked", "open"} => dump[c] \in {"forked", "open"}
<1>1. ASSUME UNCHANGED dump PROVE dump'[c] = dump[c]
  BY <1>1
<1>2. ASSUME NEW j \in Jobs, NEW i \in DOMAIN list[j], ForkStep(j, i)
      PROVE  \/ dump'[c] = dump[c]
             \/ asked[c] = NotAsked /\ dump[c] = "none"
  <2>1. /\ <<j, i>> \in Calls /\ Touches(<<j, i>>) /\ asked[<<j, i>>] = NotAsked
    BY <1>2, CallsExist, ForkTouches DEF ForkStep, IInv
  <2>2. asked[c] = NotAsked => dump[c] = "none"
    BY DEF IInv, CallsInv
  <2> QED
    BY <2>1, <2>2 DEF Touches
<1>3. ASSUME NEW k \in Calls, CallStep(k)
      PROVE  \/ dump'[c] = dump[c]
             \/ dump[c] = "forked" /\ dump'[c] = "open"
             \/ dump[c] \in {"forked", "open"} /\ dump'[c] \in Ran
  BY <1>3, RefuseTouches, ReturnTouches, OpenTouches, ExitTouches DEF CallStep, Touches, IInv
<1>4. \/ \E j \in Jobs : \E i \in DOMAIN list[j] : ForkStep(j, i)
      \/ \E k \in Calls : CallStep(k)
      \/ UNCHANGED dump
  BY Cases DEF Launch, JobExits, Script, Die, Tick, vars, Delete
<1> QED
  BY <1>1, <1>2, <1>3, <1>4 DEF Ran

\* Only Fork asks, for what the clock says.
LEMMA Asking ==
  ASSUME IInv, [Next]_vars, NEW c \in Calls, asked'[c] # asked[c]
  PROVE  /\ asked'[c].at = now /\ UNCHANGED now
         /\ dump'[c] = "forked" /\ outcome'[c] = "none"
<1>1. (\E j \in Jobs : \E i \in DOMAIN list[j] : ForkStep(j, i)) \/ UNCHANGED asked
  BY Cases DEF Launch, JobExits, Script, Die, CallStep, Tick, vars,
               Refuse, Return, Open, Exit, Delete
<1>2. PICK j \in Jobs : \E i \in DOMAIN list[j] : ForkStep(j, i)
  BY <1>1
<1>3. PICK i \in DOMAIN list[j] : ForkStep(j, i)
  BY <1>2
<1>4. /\ <<j, i>> \in Calls /\ Touches(<<j, i>>)
      /\ dump'[<<j, i>>] = "forked" /\ outcome'[<<j, i>>] = "none"
      /\ asked'[<<j, i>>] = [db |-> list[j][i], at |-> now, format |-> format[j]]
  BY <1>3, CallsExist, ForkTouches DEF ForkStep, IInv
<1> QED
  BY <1>4 DEF Touches

\* A call that was asked belongs to a job that is running now if it is later.
LEMMA Working ==
  ASSUME IInv, [Next]_vars, NEW c \in Calls, asked[c] # NotAsked,
         NEW j \in Jobs, c \in CallsOf(j)', job'[j] \in {"running", "exited"}
  PROVE  c \in CallsOf(j) /\ job[j] \in {"running", "exited"}
<1>0. /\ job \in [Jobs -> {"idle", "running", "exited", "done"}]
      /\ DOMAIN list = Jobs
  BY Zenon DEF IInv, TypeOK, JobsInv
<1>1. CASE UNCHANGED <<job, list>>
  BY <1>1 DEF CallsOf
<1>2. ASSUME NEW k \in Jobs, JobExits(k) \/ Script(k) \/ Die(k)
      PROVE  c \in CallsOf(j) /\ job[j] \in {"running", "exited"}
  <2>1. UNCHANGED list
    BY <1>2 DEF JobExits, Script, Die
  <2>2. job[j] \in {"running", "exited"}
    BY <1>0, <1>2 DEF JobExits, Script, Die
  <2> QED
    BY <2>1, <2>2 DEF CallsOf
<1>3. ASSUME NEW k \in Jobs, Launch(k)
      PROVE  c \in CallsOf(j) /\ job[j] \in {"running", "exited"}
  <2>1. CASE k = j
    <3>1. job[j] = "idle" /\ \A i : <<j, i>> \in Calls => asked[<<j, i>>] = NotAsked
      BY <1>3, <2>1 DEF Launch, IInv, JobsInv, JobInv
    <3>2. \E i : c = <<j, i>>
      BY DEF CallsOf
    <3> QED
      BY <3>1, <3>2
  <2>2. CASE k # j
    <3>1. job'[j] = job[j] /\ list'[j] = list[j]
      BY <1>0, <1>3, <2>2 DEF Launch
    <3> QED
      BY <3>1 DEF CallsOf
  <2> QED
    BY <2>1, <2>2
<1>4. \/ UNCHANGED <<job, list>>
      \/ \E k \in Jobs : Launch(k) \/ JobExits(k) \/ Script(k) \/ Die(k)
  BY Cases DEF ForkStep, CallStep, Tick, vars, Delete, jobVars
<1> QED
  BY <1>1, <1>2, <1>3, <1>4

\* What TypeOK says of a file.
Labelled(f) ==
  /\ files[f].by \in Calls
  /\ f = FileName(asked[files[f].by])
  /\ files[f].mtime <= now

LEMMA TypeStep == IInv /\ [Next]_vars => TypeOK'
<1> SUFFICES ASSUME IInv, [Next]_vars PROVE TypeOK'
  OBVIOUS
<1> DEFINE Requests == [db : Databases \cup {""}, at : 0 .. MaxTime, format : Formats \cup {"", "custom"}]
           Dumps == {"none", "forked", "open", "complete", "hollow", "failed"}
<1>0. /\ now \in 0 .. MaxTime /\ asked \in [Calls -> Requests]
      /\ dump \in [Calls -> Dumps] /\ outcome \in [Calls -> Outcomes]
      /\ status \in [Jobs -> {0, 1}]
      /\ job \in [Jobs -> {"idle", "running", "exited", "done"}]
  BY Zenon DEF IInv, TypeOK
<1>1. now' \in 0 .. MaxTime
  <2>1. Tick \/ UNCHANGED now
    BY Clockwork
  <2>2. CASE Tick
    <3>1. now' = now + 1 /\ now < MaxTime /\ now \in Nat
      BY <2>2, Clock DEF Tick, IInv
    <3> QED
      BY <3>1
  <2> QED
    BY <1>0, <2>1, <2>2
<1>2. asked' \in [Calls -> Requests]
  <2>1. ASSUME NEW j \in Jobs, NEW i \in DOMAIN list[j], ForkStep(j, i)
        PROVE  asked' \in [Calls -> Requests]
    <3>1. <<j, i>> \in Calls /\ list[j][i] \in Databases
      BY <2>1, CallsExist DEF IInv
    <3>2. format[j] \in Formats \cup {"custom"}
      BY DEF IInv, JobsInv, JobInv
    <3>3. [db |-> list[j][i], at |-> now, format |-> format[j]] \in Requests
      BY <1>0, <3>1, <3>2
    <3>4. asked' = [asked EXCEPT ![<<j, i>>] = [db |-> list[j][i], at |-> now, format |-> format[j]]]
      BY <2>1 DEF ForkStep, Fork
    <3> HIDE DEF Requests
    <3> QED
      BY <1>0, <3>3, <3>4
  <2>2. CASE UNCHANGED asked
    BY <1>0, <2>2
  <2>3. (\E j \in Jobs : \E i \in DOMAIN list[j] : ForkStep(j, i)) \/ UNCHANGED asked
    BY Cases DEF Launch, JobExits, Script, Die, CallStep, Tick, vars,
                 Refuse, Return, Open, Exit, Delete
  <2> QED
    BY <2>1, <2>2, <2>3
<1>3. dump' \in [Calls -> Dumps]
  <2>1. ASSUME NEW j \in Jobs, NEW i \in DOMAIN list[j], ForkStep(j, i)
        PROVE  dump' \in [Calls -> Dumps]
    BY <1>0, <2>1 DEF ForkStep, Fork
  <2>2. ASSUME NEW c \in Calls, CallStep(c) PROVE dump' \in [Calls -> Dumps]
    <3>1. \/ UNCHANGED dump
          \/ \E s \in {"open", "complete", "hollow", "failed"} : dump' = [dump EXCEPT ![c] = s]
      BY <2>2 DEF CallStep, Refuse, Return, Open, Exit
    <3> QED
      BY <1>0, <3>1
  <2>3. \/ \E j \in Jobs : \E i \in DOMAIN list[j] : ForkStep(j, i)
        \/ \E c \in Calls : CallStep(c)
        \/ UNCHANGED dump
    BY Cases DEF Launch, JobExits, Script, Die, Tick, vars, Delete
  <2> QED
    BY <1>0, <2>1, <2>2, <2>3
<1>4. outcome' \in [Calls -> Outcomes]
  <2>2. ASSUME NEW c \in Calls, CallStep(c) PROVE outcome' \in [Calls -> Outcomes]
    <3>1. Verdict(c) \in Outcomes /\ "refused" \in Outcomes
      BY DEF Verdict, Outcomes
    <3>2. \/ UNCHANGED outcome
          \/ \E s \in Outcomes : outcome' = [outcome EXCEPT ![c] = s]
      BY <2>2, <3>1 DEF CallStep, Refuse, Return, Open, Exit
    <3> QED
      BY <1>0, <3>2
  <2>3. (\E c \in Calls : CallStep(c)) \/ UNCHANGED outcome
    BY Cases DEF Launch, JobExits, Script, Die, ForkStep, Fork, Tick, vars, Delete
  <2> QED
    BY <1>0, <2>2, <2>3
<1>5. /\ status' \in [Jobs -> {0, 1}]
      /\ job' \in [Jobs -> {"idle", "running", "exited", "done"}]
  <2>1. ASSUME NEW j \in Jobs, Launch(j) \/ JobExits(j) \/ Script(j) \/ Die(j)
        PROVE  /\ status' \in [Jobs -> {0, 1}]
               /\ job' \in [Jobs -> {"idle", "running", "exited", "done"}]
    BY <1>0, <2>1 DEF Launch, JobExits, ExitCode, Script, Die
  <2>2. \/ \E j \in Jobs : Launch(j) \/ JobExits(j) \/ Script(j) \/ Die(j)
        \/ UNCHANGED <<status, job>>
    BY Cases DEF ForkStep, CallStep, Tick, vars, Delete
  <2> QED
    BY <1>0, <2>1, <2>2
<1>6. \A f \in DOMAIN files' : Labelled(f)'
  <2>0. now \in Nat /\ now' \in {now, now + 1}
    BY Clockwork, Clock DEF Tick, IInv
  <2>1. ASSUME NEW f \in DOMAIN files
        PROVE  /\ Labelled(f) /\ files[f].mtime \in Nat
               /\ asked'[files[f].by] = asked[files[f].by]
    <3>1. Labelled(f)
      BY Zenon DEF IInv, TypeOK, Labelled, FileOf
    <3>2. /\ files[f] \in [by : Calls, holds : {"nothing", "dump", "part", "mixed"}, mtime : Nat]
          /\ dump[files[f].by] # "none"
      BY DEF IInv, FilesInv, Ran
    <3>3. asked[files[f].by] # NotAsked
      BY <3>1, <3>2 DEF IInv, CallsInv, Labelled
    <3> QED
      BY <3>1, <3>2, <3>3, Steady DEF Labelled
  <2>3. ASSUME NEW f \in DOMAIN files', f \in DOMAIN files, files'[f] = files[f]
        PROVE  Labelled(f)'
    <3>1. files'[f].by = files[f].by /\ files'[f].mtime = files[f].mtime
      BY <2>3
    <3> QED
      BY <2>0, <2>1, <2>3, <3>1 DEF Labelled
  <2>4. ASSUME NEW c \in Calls, Open(c) \/ Exit(c), NEW f \in DOMAIN files' PROVE Labelled(f)'
    <3>1. /\ asked[c] # NotAsked /\ DOMAIN files' \subseteq DOMAIN files \cup {FileOf(c)}
          /\ \A g \in DOMAIN files \ {FileOf(c)} : files'[g] = files[g]
      BY <2>4, FilesMove
    <3>2. CASE f # FileOf(c)
      BY <2>3, <3>1, <3>2
    <3>3. CASE f = FileOf(c) /\ Open(c)
      <4>1. files'[f].by = c /\ files'[f].mtime = now /\ f = FileName(asked[c])
        <5>1. files'[f] = [by |-> c, holds |-> "nothing", mtime |-> now]
          BY <3>3, PutFacts DEF Open
        <5> QED
          BY <3>3, <5>1 DEF FileOf
      <4>2. asked'[c] = asked[c]
        BY <3>1, Steady
      <4> QED
        BY <2>0, <4>1, <4>2 DEF Labelled
    <3>4. CASE f \in DOMAIN files /\ files' = files
      BY <2>3, <3>4
    <3>5. ASSUME NEW what \in {"dump", "part"}, Write(c, what), f = FileOf(c) PROVE Labelled(f)'
      <4>0. FilesInv /\ now \in Nat
        BY <2>0 DEF IInv
      <4>1. /\ DOMAIN files' = DOMAIN files
            /\ Present(c) => /\ files'[FileOf(c)].by = files[FileOf(c)].by
                             /\ files'[FileOf(c)].mtime = now
        BY <3>5, <4>0, WriteFacts
      <4>2. files'[f].by = files[f].by /\ files'[f].mtime = now
        BY <2>4, <3>5, <4>1 DEF Present
      <4> QED
        BY <2>0, <2>1, <4>1, <4>2 DEF Labelled
    <3> QED
      BY <2>4, <3>2, <3>3, <3>4, <3>5 DEF Exit
  <2> QED
    BY <2>3, <2>4, Directory
<1>7. \A c \in Calls : outcome'[c] # "none" => dump'[c] \notin {"forked", "open"}
  <2>1. CallsInv'
    BY CallsStep
  <2>2. ASSUME NEW c \in Calls, outcome'[c] = "refused" PROVE dump'[c] = "none"
    BY <2>1, <2>2 DEF CallsInv
  <2> QED
    BY <2>1, <2>2 DEF CallsInv, Ran
<1> QED
  BY Zenon, <1>1, <1>2, <1>3, <1>4, <1>5, <1>6, <1>7 DEF TypeOK, Labelled, FileOf
-----------------------------------------------------------------------------
LEMMA FilesStep == IInv /\ [Next]_vars => FilesInv'
<1> SUFFICES ASSUME IInv, [Next]_vars, NEW f \in DOMAIN files'
             PROVE  /\ files'[f] \in [by : Calls, holds : {"nothing", "dump", "part", "mixed"}, mtime : Nat]
                    /\ dump'[files'[f].by] \in Ran \cup {"open"}
  BY DEF FilesInv
<1> DEFINE File == [by : Calls, holds : {"nothing", "dump", "part", "mixed"}, mtime : Nat]
<1>0. FilesInv /\ now \in Nat
  BY Clock DEF IInv
<1>1. \A c \in Calls : dump[c] \in Ran \cup {"open"} => dump'[c] \in Ran \cup {"open"}
  BY Onward
<1>2. ASSUME f \in DOMAIN files, files'[f] = files[f]
      PROVE  files'[f] \in File /\ dump'[files'[f].by] \in Ran \cup {"open"}
  <2>1. files[f] \in File /\ dump[files[f].by] \in Ran \cup {"open"}
    BY <1>0, <1>2 DEF FilesInv
  <2>2. files[f].by \in Calls
    BY <2>1
  <2> QED
    BY <1>1, <1>2, <2>1, <2>2
<1>3. ASSUME NEW c \in Calls, Open(c) \/ Exit(c)
      PROVE  files'[f] \in File /\ dump'[files'[f].by] \in Ran \cup {"open"}
  <2>1. /\ DOMAIN files' \subseteq DOMAIN files \cup {FileOf(c)}
        /\ \A g \in DOMAIN files \ {FileOf(c)} : files'[g] = files[g]
    BY <1>3, FilesMove
  <2>2. CASE f # FileOf(c)
    BY <1>2, <2>1, <2>2
  <2>3. CASE f = FileOf(c) /\ Open(c)
    <3>1. files'[f] = [by |-> c, holds |-> "nothing", mtime |-> now] /\ dump'[c] = "open"
      BY <2>3, OpenTouches, PutFacts DEF IInv
    <3> QED
      BY <1>0, <3>1
  <2>4. CASE f \in DOMAIN files /\ files' = files
    BY <1>2, <2>4
  <2>5. ASSUME NEW what \in {"dump", "part"}, Write(c, what), f = FileOf(c)
        PROVE  files'[f] \in File /\ dump'[files'[f].by] \in Ran \cup {"open"}
    <3>1. /\ DOMAIN files' = DOMAIN files
          /\ Present(c) => /\ files'[FileOf(c)] \in File
                           /\ files'[FileOf(c)].by = files[FileOf(c)].by
      BY <1>0, <2>5, WriteFacts
    <3>2. f \in DOMAIN files /\ files'[f] \in File /\ files'[f].by = files[f].by
      BY <2>5, <3>1 DEF Present
    <3>3. files[f] \in File /\ dump[files[f].by] \in Ran \cup {"open"}
      BY <1>0, <3>2 DEF FilesInv
    <3>4. files[f].by \in Calls
      BY <3>3
    <3> QED
      BY <1>1, <3>2, <3>3, <3>4
  <2> QED
    BY <1>3, <2>2, <2>3, <2>4, <2>5 DEF Exit
<1> QED
  BY <1>2, <1>3, Directory

LEMMA TimelyStep == IInv /\ [Next]_vars => Timely'
<1> SUFFICES ASSUME IInv, [Next]_vars, NEW c \in Calls, Underway(c)'
             PROVE  now' - asked'[c].at <= LongestRun
  BY DEF Timely
<1>0. now \in Nat /\ asked[c].at \in Nat
  BY Clock DEF IInv
<1>1. ASSUME Underway(c), asked'[c] = asked[c]
      PROVE  now' - asked'[c].at <= LongestRun
  <2>1. CASE Tick
    BY <1>0, <1>1, <2>1 DEF Tick
  <2>2. CASE UNCHANGED now
    BY <1>1, <2>2 DEF IInv, Timely
  <2> QED
    BY <2>1, <2>2, Clockwork
<1>2. CASE asked[c] = NotAsked
  <2>1. dump[c] = "none"
    BY <1>2 DEF IInv, CallsInv
  <2>2. CASE asked'[c] = NotAsked
    <3>1. CallsInv'
      BY CallsStep
    <3> QED
      BY <2>2, <3>1 DEF Underway, CallsInv
  <2>3. ASSUME asked'[c] # NotAsked
        PROVE  asked'[c].at = now /\ UNCHANGED now
    BY <1>2, <2>3, Asking
  <2> QED
    BY <1>0, <2>2, <2>3
<1>3. CASE asked[c] # NotAsked
  <2>1. asked'[c] = asked[c]
    BY <1>3, Steady
  <2>2. Underway(c)
    <3>1. CASE dump'[c] \in {"forked", "open"}
      BY <3>1, <1>3, Onward DEF Underway
    <3>2. ASSUME NEW j \in Jobs, c \in CallsOf(j)', job'[j] \in {"running", "exited"}
          PROVE  Underway(c)
      BY <1>3, <3>2, Working DEF Underway
    <3> QED
      BY <3>1, <3>2 DEF Underway
  <2> QED
    BY <1>1, <2>1, <2>2
<1> QED
  BY <1>2, <1>3

LEMMA JobsStep == IInv /\ [Next]_vars => JobsInv'
<1> SUFFICES ASSUME IInv, [Next]_vars PROVE JobsInv'
  OBVIOUS
<1>0. DOMAIN list = Jobs /\ DOMAIN format = Jobs /\ \A j \in Jobs : JobInv(j)
  BY DEF IInv, JobsInv
<1>0a. job \in [Jobs -> {"idle", "running", "exited", "done"}] /\ status \in [Jobs -> {0, 1}]
  BY Zenon DEF IInv, TypeOK
<1>1. ASSUME UNCHANGED jobVars,
             \A c \in Calls : asked[c] = NotAsked => asked'[c] = NotAsked
      PROVE  JobsInv'
  <2>1. ASSUME NEW j \in Jobs PROVE JobInv(j)'
    <3>1. JobInv(j) /\ list[j]' = list[j] /\ format[j]' = format[j] /\ job[j]' = job[j]
          /\ status[j]' = status[j]
      BY <1>0, <1>1
    <3>2. \A i \in DOMAIN list[j] : asked'[<<j, i>>] = asked[<<j, i>>]
      BY <1>1, CallsExist, Steady DEF IInv
    <3>3. \A i : <<j, i>> \in Calls /\ asked[<<j, i>>] = NotAsked => asked'[<<j, i>>] = NotAsked
      BY <1>1
    <3>4. \A i \in DOMAIN list[j] : outcome[<<j, i>>] = "ok" => outcome'[<<j, i>>] = "ok"
      BY CallsExist, Steady DEF IInv
    <3> QED
      BY <3>1, <3>2, <3>3, <3>4 DEF JobInv, CallsOf
  <2> QED
    BY <1>0, <1>1, <2>1 DEF JobsInv
<1>2. ASSUME NEW k \in Jobs, NEW i \in DOMAIN list[k], ForkStep(k, i) PROVE JobsInv'
  <2>1. /\ <<k, i>> \in Calls /\ Touches(<<k, i>>) /\ UNCHANGED outcome
        /\ asked'[<<k, i>>] = [db |-> list[k][i], at |-> now, format |-> format[k]]
        /\ job[k] = "running" /\ UNCHANGED jobVars
    BY <1>2, CallsExist, ForkTouches DEF ForkStep, IInv
  <2>2. asked'[<<k, i>>].db = list[k][i]
    BY <2>1
  <2>3. ASSUME NEW j \in Jobs PROVE JobInv(j)'
    <3>1. JobInv(j)
      BY <1>0
    <3>2. ASSUME NEW h, <<j, h>> \in Calls, <<j, h>> # <<k, i>>
          PROVE  asked'[<<j, h>>] = asked[<<j, h>>]
      BY <2>1, <3>2 DEF Touches
    <3>3. \A h \in DOMAIN list[j] : <<j, h>> \in Calls
      BY CallsExist DEF IInv
    <3> QED
      BY <2>1, <2>2, <3>1, <3>2, <3>3 DEF JobInv, CallsOf
  <2> QED
    BY <1>0, <2>1, <2>3 DEF JobsInv
<1>3. ASSUME NEW k \in Jobs, Launch(k) PROVE JobsInv'
  <2>1. PICK l \in Lists[k] : list' = [list EXCEPT ![k] = l]
    BY <1>3 DEF Launch
  <2>2. PICK f \in Formats \cup {"custom"} : format' = [format EXCEPT ![k] = f]
    BY <1>3 DEF Launch
  <2>3. /\ job[k] = "idle" /\ job' = [job EXCEPT ![k] = "running"]
        /\ UNCHANGED <<asked, outcome, status>>
    BY <1>3 DEF Launch
  <2>4. JobInv(k)'
    <3>1. list'[k] = l /\ format'[k] = f /\ job'[k] = "running"
      BY <1>0, <1>0a, <2>1, <2>2, <2>3
    <3>2. \A i \in DOMAIN l : <<k, i>> \in Calls
      BY ListsAssumption
    <3>3. \A i \in DOMAIN l : asked[<<k, i>>] = NotAsked
      BY <1>0, <2>3, <3>2 DEF JobInv
    <3> QED
      BY <2>3, <3>1, <3>3 DEF JobInv
  <2>5. ASSUME NEW j \in Jobs \ {k} PROVE JobInv(j)'
    <3>1. JobInv(j) /\ list'[j] = list[j] /\ format'[j] = format[j] /\ job'[j] = job[j]
      BY <1>0, <1>0a, <2>1, <2>2, <2>3
    <3> QED
      BY <2>3, <3>1 DEF JobInv, CallsOf
  <2> QED
    BY <1>0, <2>1, <2>2, <2>4, <2>5 DEF JobsInv
<1>4. ASSUME NEW k \in Jobs, JobExits(k) \/ Script(k) \/ Die(k) PROVE JobsInv'
  <2>1. UNCHANGED <<asked, outcome, list, format>>
    BY <1>4 DEF JobExits, Script, Die
  <2>2. ASSUME NEW j \in Jobs \ {k} PROVE JobInv(j)'
    <3>1. JobInv(j) /\ job'[j] = job[j] /\ status'[j] = status[j]
      BY <1>0, <1>0a, <1>4 DEF JobExits, Script, Die
    <3> QED
      BY <2>1, <3>1 DEF JobInv, CallsOf
  <2>3. JobInv(k)'
    <3>1. CASE job'[k] = "done"
      BY <1>0, <2>1, <3>1 DEF JobInv, CallsOf
    <3>2. CASE JobExits(k)
      <4>1. job'[k] \in {"exited", "done"} /\ status'[k] = ExitCode(k)
        BY <1>0a, <3>2 DEF JobExits
      <4>2. status'[k] = 0 => \A c \in CallsOf(k) : outcome[c] = "ok"
        BY <4>1 DEF ExitCode
      <4> QED
        BY <1>0, <2>1, <4>1, <4>2 DEF JobInv, CallsOf
    <3> QED
      BY <1>0a, <1>4, <3>1, <3>2 DEF Script, Die
  <2> QED
    BY <1>0, <2>1, <2>2, <2>3 DEF JobsInv
<1>5. ASSUME \/ \E c \in Calls : CallStep(c) \/ (Delete(c) /\ UNCHANGED jobVars)
             \/ Tick \/ UNCHANGED vars
      PROVE  UNCHANGED <<asked, jobVars>>
  BY <1>5 DEF CallStep, Refuse, Return, Open, Exit, Delete, Tick, vars
<1> QED
  BY <1>1, <1>2, <1>3, <1>4, <1>5, Cases
-----------------------------------------------------------------------------
(* Good: what becomes of one call's file.                                  *)

\* A step that leaves the call, its file and the clock alone.
LEMMA KeptFrame ==
  ASSUME NEW c \in Calls, Kept(c), asked'[c] = asked[c], dump'[c] = dump[c],
         outcome'[c] = outcome[c], UNCHANGED now,
         FileOf(c) \in DOMAIN files' <=> FileOf(c) \in DOMAIN files,
         FileOf(c) \in DOMAIN files => files'[FileOf(c)] = files[FileOf(c)]
  PROVE  Kept(c)'
<1>1. FileOf(c)' = FileOf(c)
  BY DEF FileOf
<1>2. Present(c)' <=> Present(c)
  BY <1>1 DEF Present
<1>3. \A what : Own(c, what)' <=> Own(c, what)
  BY <1>1, <1>2 DEF Own, Present
<1>4. Aged(c)' <=> Aged(c)
  BY DEF Aged
<1> QED
  BY <1>2, <1>3, <1>4 DEF Kept

\* Before its pg_dump starts, a call that shares its name has no file.
LEMMA NoFileYet ==
  ASSUME IInv, NEW c \in Calls, dump[c] = "forked", Unshared(c)
  PROVE  ~Present(c)
<1> SUFFICES ASSUME FileOf(c) \in DOMAIN files PROVE FALSE
  BY DEF Present
<1> DEFINE k == files[FileOf(c)].by
<1>1. k \in Calls /\ FileOf(c) = FileOf(k)
  BY Zenon DEF IInv, TypeOK
<1>2. dump[k] \in Ran \cup {"open"}
  BY DEF IInv, FilesInv
<1>3. k # c /\ asked[k] # NotAsked /\ asked[c] # NotAsked
  BY <1>1, <1>2 DEF IInv, CallsInv, Ran
<1> QED
  BY <1>1, <1>3, NamesDiffer DEF IInv

\* The call's own steps.
LEMMA OwnSteps ==
  ASSUME IInv, NEW c \in Calls, CallStep(c), asked[c] # NotAsked, Unshared(c)
  PROVE  Kept(c)'
<1>0. /\ Kept(c) /\ now \in Nat /\ asked[c].at \in Nat /\ asked[c].at <= now
      /\ TypeOK /\ FilesInv
      /\ outcome[c] = "ok" => dump[c] \in Ran
  BY Clock DEF IInv, Good, CallsInv
<1>1. CASE Refuse(c)
  BY <1>1 DEF Refuse
<1>2. CASE Return(c)
  <2>1. /\ UNCHANGED <<asked, dump, files, now>> /\ dump[c] \in Ran
        /\ outcome'[c] = Verdict(c)
    BY <1>0, <1>2, ReturnTouches DEF Touches
  <2>2. Verdict(c) = "ok" => dump[c] = "complete"
    BY <1>0, <2>1 DEF Verdict, Kept, Own, Ran
  <2>3. FileOf(c)' = FileOf(c)
    BY <2>1 DEF FileOf
  <2> QED
    BY <1>0, <2>1, <2>2, <2>3 DEF Kept, Own, Present, Aged
<1>3. CASE Open(c)
  <2>1. /\ UNCHANGED <<asked, outcome>> /\ dump[c] = "forked" /\ dump'[c] = "open"
        /\ Put(FileOf(c), [by |-> c, holds |-> "nothing", mtime |-> now])
    BY <1>0, <1>3, OpenTouches
  <2>2. /\ FileOf(c) \in DOMAIN files'
        /\ files'[FileOf(c)] = [by |-> c, holds |-> "nothing", mtime |-> now]
    BY <2>1, PutFacts
  <2>3. FileOf(c)' = FileOf(c)
    BY <2>1 DEF FileOf
  <2>4. Own(c, "nothing")'
    BY <1>0, <2>1, <2>2, <2>3 DEF Own, Present
  <2> QED
    BY <1>0, <2>1, <2>4 DEF Kept, Ran
<1>4. CASE Exit(c)
  <2>1. /\ UNCHANGED <<asked, outcome, now>> /\ dump[c] \in {"forked", "open"}
        /\ outcome[c] # "ok"
    BY <1>0, <1>4, ExitTouches DEF Touches, Ran
  <2>2. FileOf(c)' = FileOf(c)
    BY <2>1 DEF FileOf
  <2>3. CASE dump[c] = "open" /\ dump'[c] = "complete" /\ Write(c, "dump")
    <3>1. Own(c, "nothing")
      BY <1>0, <2>3 DEF Kept
    <3>2. /\ DOMAIN files' = DOMAIN files /\ files'[FileOf(c)].by = c
          /\ files'[FileOf(c)].holds = "dump" /\ files'[FileOf(c)].mtime = now
      <4>1. "dump" \in {"dump", "part"}
        OBVIOUS
      <4>2. /\ DOMAIN files' = DOMAIN files
            /\ Present(c) =>
                 /\ files'[FileOf(c)].by = files[FileOf(c)].by
                 /\ files'[FileOf(c)].mtime = now
                 /\ files[FileOf(c)].by = c /\ files[FileOf(c)].holds = "nothing"
                      => files'[FileOf(c)].holds = "dump"
        BY <1>0, <2>3, <4>1, WriteFacts
      <4> QED
        BY <3>1, <4>2 DEF Own
    <3>3. Own(c, "dump")'
      BY <1>0, <2>1, <2>2, <3>1, <3>2 DEF Own, Present
    <3> QED
      BY <2>1, <2>3, <3>3 DEF Kept
  <2>4. CASE dump'[c] = "hollow" /\ UNCHANGED files
    <3>1. Present(c) => Own(c, "nothing")
      BY <1>0, <2>1, NoFileYet DEF Kept
    <3>2. (Present(c) => Own(c, "nothing"))'
      BY <2>1, <2>2, <2>4, <3>1 DEF Own, Present
    <3> QED
      BY <2>1, <2>4, <3>2 DEF Kept
  <2>5. CASE dump'[c] = "failed"
    BY <2>1, <2>5 DEF Kept
  <2> QED
    BY <1>0, <1>4, <2>3, <2>4, <2>5, ExitTouches
<1> QED
  BY <1>1, <1>2, <1>3, <1>4 DEF CallStep

\* The script spares the files that are not old.
LEMMA SparedFacts ==
  ASSUME IInv, NEW j \in Jobs, NEW c \in Calls, NEW what, Own(c, what), ~Aged(c),
         asked[c] # NotAsked
  PROVE  FileOf(c) \in Spared(j)
<1>1. /\ now \in Nat /\ asked[c].at \in Nat /\ asked[c].format \in Single
      /\ files[FileOf(c)].mtime \in Nat
  BY Clock DEF IInv, CallsInv, Own, Present, FilesInv
<1>2. FileOf(c)[3] = Ext(asked[c].format)
  BY DEF FileOf, FileName
<1>3. Ext(asked[c].format) = ".dump" => asked[c].format = "custom"
  BY <1>1 DEF Ext, Single
<1>4. ~Old(FileOf(c))
  BY <1>1, <1>2, <1>3 DEF Old, Aged, Own
<1> QED
  BY <1>4 DEF Spared, Own, Present

LEMMA ScriptKeeps ==
  ASSUME IInv, NEW j \in Jobs, Script(j), NEW c \in Calls, asked[c] # NotAsked, Unshared(c)
  PROVE  Kept(c)'
<1>0. Kept(c) /\ now \in Nat /\ asked[c].at \in Nat
  BY Clock DEF IInv, Good
<1>1. /\ UNCHANGED <<asked, dump, outcome, now>> /\ DOMAIN files' = Spared(j)
      /\ \A f \in Spared(j) : files'[f] = files[f]
  BY DEF Script
<1>2. FileOf(c)' = FileOf(c) /\ (Aged(c)' <=> Aged(c))
  BY <1>1 DEF FileOf, Aged
<1>3. ASSUME NEW what, Own(c, what), ~Aged(c) PROVE Own(c, what)'
  <2>1. FileOf(c) \in Spared(j)
    BY <1>3, SparedFacts
  <2> QED
    BY <1>1, <1>2, <1>3, <2>1 DEF Own, Present
<1>4. dump[c] = "open" => ~Aged(c)
  BY <1>0 DEF IInv, Timely, Underway, Aged
<1>5. ASSUME Own(c, "nothing"), Present(c)' PROVE Own(c, "nothing")'
  BY <1>1, <1>2, <1>5 DEF Own, Present
<1>6. Present(c)' => Present(c)
  BY <1>1, <1>2 DEF Present, Spared
<1> QED
  BY <1>0, <1>1, <1>2, <1>3, <1>4, <1>5, <1>6 DEF Kept

LEMMA GoodStep == IInv /\ [Next]_vars => Good'
<1> SUFFICES ASSUME IInv, [Next]_vars, NEW c \in Calls, asked'[c] # NotAsked, Unshared(c)'
             PROVE  Kept(c)'
  BY DEF Good
<1>1. CASE asked[c] = NotAsked
  BY <1>1, Asking DEF Kept
<1>2. CASE asked[c] # NotAsked
  <2>1. asked'[c] = asked[c]
    BY <1>2, Steady
  <2>2. Unshared(c)
    BY <1>2, Steady, StaysUnshared DEF IInv
  <2>3. Kept(c)
    BY <1>2, <2>2 DEF IInv, Good
  <2>4. ASSUME NEW k \in Calls, CallStep(k) PROVE Kept(c)'
    <3>1. CASE k = c
      BY <1>2, <2>2, <2>4, <3>1, OwnSteps
    <3>2. CASE k # c
      <4>1. Touches(k)
        BY <2>4, RefuseTouches, ReturnTouches, OpenTouches, ExitTouches DEF CallStep, IInv
      <4>2. CASE UNCHANGED files
        BY <2>1, <2>3, <3>2, <4>1, <4>2, KeptFrame DEF Touches
      <4>3. CASE Open(k) \/ Exit(k)
        <5>1. /\ asked[k] # NotAsked
              /\ DOMAIN files' \subseteq DOMAIN files \cup {FileOf(k)}
              /\ DOMAIN files \subseteq DOMAIN files'
              /\ \A g \in DOMAIN files \ {FileOf(k)} : files'[g] = files[g]
          BY <4>3, FilesMove
        <5>2. FileOf(k) # FileOf(c)
          BY <1>2, <2>2, <3>2, <5>1, NamesDiffer DEF IInv
        <5>3. /\ FileOf(c) \in DOMAIN files' <=> FileOf(c) \in DOMAIN files
              /\ FileOf(c) \in DOMAIN files => files'[FileOf(c)] = files[FileOf(c)]
          BY <5>1, <5>2
        <5> QED
          BY <2>1, <2>3, <3>2, <4>1, <5>3, KeptFrame DEF Touches
      <4> QED
        BY <2>4, <4>2, <4>3 DEF CallStep, Refuse, Return
    <3> QED
      BY <3>1, <3>2
  <2>5. ASSUME NEW j \in Jobs, NEW i \in DOMAIN list[j], ForkStep(j, i) PROVE Kept(c)'
    <3>1. /\ <<j, i>> \in Calls /\ Touches(<<j, i>>) /\ UNCHANGED files
          /\ asked[<<j, i>>] = NotAsked
      BY <2>5, CallsExist, ForkTouches DEF ForkStep, IInv
    <3> QED
      BY <1>2, <2>1, <2>3, <3>1, KeptFrame DEF Touches
  <2>6. ASSUME NEW j \in Jobs, Script(j) PROVE Kept(c)'
    BY <1>2, <2>2, <2>6, ScriptKeeps
  <2>7. ASSUME NEW k \in Calls, Delete(k) PROVE Kept(c)'
    <3>1. /\ outcome[k] = "partial" /\ UNCHANGED <<now, asked, dump, outcome>>
          /\ DOMAIN files' = DOMAIN files \ {FileOf(k)}
          /\ \A g \in DOMAIN files' : files'[g] = files[g]
      BY <2>7 DEF Delete
    <3>2. dump[k] = "failed" /\ asked[k] # NotAsked
      BY <3>1 DEF IInv, CallsInv
    <3>3. CASE k = c
      BY <2>3, <3>1, <3>2, <3>3 DEF Kept
    <3>4. CASE k # c
      <4>1. FileOf(k) # FileOf(c)
        BY <1>2, <2>2, <3>2, <3>4, NamesDiffer DEF IInv
      <4> QED
        BY <2>1, <2>3, <3>1, <4>1, KeptFrame
    <3> QED
      BY <3>3, <3>4
  <2>8. CASE Tick
    <3>1. /\ now' = now + 1 /\ UNCHANGED <<asked, dump, outcome, files>>
          /\ now \in Nat /\ asked[c].at \in Nat
      BY <2>8, Clock DEF Tick, IInv
    <3>2. FileOf(c)' = FileOf(c)
      BY <3>1 DEF FileOf
    <3>3. Aged(c) => Aged(c)'
      BY <3>1 DEF Aged
    <3>4. \A what : Own(c, what) => Own(c, what)'
      BY <3>1, <3>2 DEF Own, Present
    <3> QED
      BY <2>3, <3>1, <3>2, <3>3, <3>4 DEF Kept, Present
  <2>9. CASE UNCHANGED <<dumpVars>>
    BY <2>3, <2>9, KeptFrame
  <2>10. ASSUME NEW j \in Jobs, Launch(j) \/ JobExits(j) \/ Die(j) PROVE UNCHANGED dumpVars
    BY <2>10 DEF Launch, JobExits, Die
  <2> QED
    BY Zenon, <2>4, <2>5, <2>6, <2>7, <2>8, <2>9, <2>10, Cases DEF vars
<1> QED
  BY <1>1, <1>2
-----------------------------------------------------------------------------
LEMMA Invariance == Spec => []IInv
<1>1. IInv /\ [Next]_vars => IInv'
  BY TypeStep, CallsStep, JobsStep, TimelyStep, FilesStep, GoodStep DEF IInv
<1> QED
  BY <1>1, InitIInv, PTL DEF Spec

\* Type correctness of the calls, the jobs and the directory.
THEOREM TypeCorrect == Spec => []TypeOK
<1>1. IInv => TypeOK
  BY DEF IInv
<1> QED
  BY <1>1, Invariance, PTL

\* A backup that was reported OK, under a name that no other call has, is a whole
\* dump written by that call until it is older than the window of the retention.
THEOREM OkStaysGood == Spec => []OkIsGood
<1>1. IInv => OkIsGood
  <2> SUFFICES ASSUME IInv, NEW c \in Calls, outcome[c] = "ok", Unshared(c)
               PROVE  \/ /\ Whole(FileOf(c)) /\ files[FileOf(c)].by = c
                         /\ \A k \in Calls \ {c} : asked[k] # NotAsked => FileOf(k) # FileOf(c)
                      \/ Aged(c)
    BY DEF OkIsGood, Aged
  <2>1. asked[c] # NotAsked
    BY DEF IInv, CallsInv, Ran
  <2>2. Own(c, "dump") \/ Aged(c)
    BY <2>1 DEF IInv, Good, Kept
  <2>3. \A k \in Calls \ {c} : asked[k] # NotAsked => FileOf(k) # FileOf(c)
    BY <2>1, NamesDiffer DEF IInv
  <2> QED
    BY <2>2, <2>3 DEF Own, Whole, Present
<1> QED
  BY <1>1, Invariance, PTL

\* Whoever prunes after a successful run still has a whole, reported dump of each
\* database of its list that it dumped under a name of its own.
THEOREM PrunersKeepTheirOwn == Spec => PruneSparesOwn
<1>1. ASSUME IInv, [Next]_vars, NEW j \in Jobs, job[j] = "exited", job'[j] = "done",
             status[j] = 0, NEW i \in DOMAIN list[j], Unshared(<<j, i>>)
      PROVE  Copy(list[j][i])'
  <2> DEFINE c == <<j, i>>
  <2>1. Script(j)
    <3>1. job \in [Jobs -> {"idle", "running", "exited", "done"}]
      BY Zenon, <1>1 DEF IInv, TypeOK
    <3>2. ASSUME NEW k \in Jobs, Launch(k) \/ JobExits(k) \/ Die(k) \/ Script(k)
          PROVE  k = j /\ Script(k)
      BY <1>1, <3>1, <3>2 DEF Launch, JobExits, Die, Script
    <3>3. \/ \E k \in Jobs : Launch(k) \/ JobExits(k) \/ Script(k) \/ Die(k)
          \/ UNCHANGED job
      BY <1>1, Cases DEF ForkStep, CallStep, Tick, vars
    <3> QED
      BY <1>1, <3>2, <3>3
  <2>2. c \in Calls /\ c \in CallsOf(j)
    BY <1>1, CallsExist DEF IInv, CallsOf
  <2>3. outcome[c] = "ok"
    BY <1>1, <2>2 DEF IInv, JobsInv, JobInv
  <2>4. asked[c] # NotAsked
    BY <2>2, <2>3, <1>1 DEF IInv, CallsInv, Ran
  <2>5. asked[c].db = list[j][i]
    BY <1>1, <2>4 DEF IInv, JobsInv, JobInv
  <2>6. ~Aged(c)
    <3>1. Underway(c)
      BY <1>1, <2>2, <2>4 DEF Underway
    <3>2. now - asked[c].at <= LongestRun /\ now \in Nat /\ asked[c].at \in Nat
      BY <1>1, <2>2, <3>1, Clock DEF IInv, Timely
    <3> QED
      BY <3>2 DEF Aged
  <2>7. Own(c, "dump")
    BY <1>1, <2>2, <2>3, <2>4, <2>6 DEF IInv, Good, Kept
  <2>8. FileOf(c) \in Spared(j)
    BY <1>1, <2>2, <2>4, <2>6, <2>7, SparedFacts
  <2>9. /\ UNCHANGED <<asked, outcome, list>> /\ DOMAIN files' = Spared(j)
        /\ files'[FileOf(c)] = files[FileOf(c)]
    BY <2>1, <2>8 DEF Script
  <2>10. FileOf(c)' = FileOf(c)
    BY <2>9 DEF FileOf
  <2> HIDE DEF c
  <2> QED
    BY <2>2, <2>3, <2>5, <2>7, <2>8, <2>9, <2>10 DEF Copy, Whole, Own
<1>2. IInv /\ [Next]_vars =>
        [\A j \in Jobs :
          job[j] = "exited" /\ job'[j] = "done" /\ status[j] = 0 =>
            \A i \in DOMAIN list[j] : Unshared(<<j, i>>) => Copy(list[j][i])']_vars
  BY <1>1
<1> QED
  BY <1>2, Invariance, PTL DEF Spec, PruneSparesOwn
=============================================================================

------------------------- MODULE CommandArgsProofs -------------------------
(***************************************************************************)
(* Proofs about CommandArgs, for lines of any length.  The argument: what  *)
(* is still to be parsed is the end of the line, from a position that is   *)
(* nobody's value; what was parsed up to there has had the effect that the *)
(* reference gives it.                                                     *)
(***************************************************************************)
EXTENDS CommandArgs, SequenceTheorems, WellFoundedInduction, TLAPS

-----------------------------------------------------------------------------
(* The reference.                                                          *)

LEMMA LeastNatural ==
  ASSUME NEW S \in SUBSET Nat, S # {}
  PROVE  \E i \in S : \A j \in S : i <= j
<1>1. PICK i \in S : \A j \in S : ~ (<<j, i>> \in OpToRel(<, Nat))
  BY WFMin, NatLessThanWellFounded, Zenon
<1>2. \A j \in S : <<j, i>> \in OpToRel(<, Nat) <=> j < i
  BY Zenon DEF OpToRel
<1>3. \A j \in S : ~ (j < i)
  BY Zenon, <1>1, <1>2
<1>4. \A m, n \in Nat : ~ (m < n) => n <= m
  OBVIOUS
<1>5. S \subseteq Nat
  OBVIOUS
<1> QED
  BY Zenon, <1>3, <1>4, <1>5

\* Which arguments are nobody's value, up to n.
Reading(line, n, head) ==
  head = [i \in 0 .. n |-> i = 0 \/ i = 1 \/ ~(head[i - 1] /\ Is(line[i - 1]) = "bare")]

\* There is such a reading for every n: otherwise there were a least n without.
LEMMA ReadingExists == ASSUME NEW line, NEW n \in Nat PROVE \E head : Reading(line, n, head)
<1> DEFINE Without == {m \in Nat : ~ \E head : Reading(line, m, head)}
<1> SUFFICES ASSUME Without # {} PROVE FALSE
  OBVIOUS
<1>1. PICK m \in Without : \A j \in Without : m <= j
  BY LeastNatural
<1>2. CASE m = 0
  <2> DEFINE g == [i \in 0 .. 0 |-> TRUE]
  <2>1. \A i \in 0 .. 0 : (i = 0 \/ i = 1 \/ ~(g[i - 1] /\ Is(line[i - 1]) = "bare")) = TRUE
    OBVIOUS
  <2>2. g = [i \in 0 .. 0 |-> i = 0 \/ i = 1 \/ ~(g[i - 1] /\ Is(line[i - 1]) = "bare")]
    BY <2>1, Zenon
  <2>3. Reading(line, 0, g)
    BY <2>2 DEF Reading
  <2> QED
    BY <1>1, <1>2, <2>3
<1>3. CASE m # 0
  <2>1. m - 1 \in Nat /\ m - 1 \notin Without
    BY <1>1, <1>3
  <2>2. PICK h : Reading(line, m - 1, h)
    BY <2>1
  <2> DEFINE g == [i \in 0 .. m |->
                     i = 0 \/ i = 1 \/ ~(h[i - 1] /\ Is(line[i - 1]) = "bare")]
  <2>3. \A i \in 0 .. m - 1 : g[i] = h[i]
    BY <2>1, <2>2 DEF Reading
  <2>4. \A i \in 0 .. m : i # 0 => i - 1 \in 0 .. m - 1
    BY <2>1
  <2>5. \A i \in 0 .. m : i # 0 => g[i - 1] = h[i - 1]
    BY <2>3, <2>4
  <2>6. Reading(line, m, g)
    BY <2>5 DEF Reading
  <2> QED
    BY <2>6
<1> QED
  BY <1>2, <1>3

\* What Heads is: the first argument, and whoever does not follow a bare flag
\* that is itself nobody's value.
LEMMA HeadsAre ==
  ASSUME NEW line, Len(line) \in Nat
  PROVE  /\ Heads(line) \subseteq 1 .. Len(line)
         /\ Len(line) > 0 => 1 \in Heads(line)
         /\ \A i \in 1 .. Len(line) - 1 :
              i + 1 \in Heads(line) <=> ~(i \in Heads(line) /\ Is(line[i]) = "bare")
<1> DEFINE head == CHOOSE h : Reading(line, Len(line), h)
<1>1. Heads(line) = {i \in 1 .. Len(line) : head[i]}
  BY DEF Heads, Reading
<1>2. Reading(line, Len(line), head)
  BY ReadingExists
<1> HIDE DEF head
<1>3. \A i \in 0 .. Len(line) :
        head[i] = (i = 0 \/ i = 1 \/ ~(head[i - 1] /\ Is(line[i - 1]) = "bare"))
  BY <1>2 DEF Reading
<1>4. ASSUME NEW i \in 1 .. Len(line) - 1
      PROVE  i + 1 \in Heads(line) <=> ~(i \in Heads(line) /\ Is(line[i]) = "bare")
  <2>1. i + 1 \in 0 .. Len(line) /\ i + 1 # 0 /\ i + 1 # 1 /\ (i + 1) - 1 = i
        /\ i \in 1 .. Len(line) /\ i + 1 \in 1 .. Len(line)
    OBVIOUS
  <2>2. head[i + 1] = ~(head[i] /\ Is(line[i]) = "bare")
    BY <1>3, <2>1
  <2> QED
    BY <1>1, <2>1, <2>2
<1>5. Len(line) > 0 => 1 \in Heads(line)
  <2>1. Len(line) > 0 => 1 \in 0 .. Len(line) /\ 1 \in 1 .. Len(line)
    OBVIOUS
  <2> QED
    BY <1>1, <1>3, <2>1
<1> QED
  BY <1>1, <1>4, <1>5
-----------------------------------------------------------------------------
(* What was read of a line.                                                *)

NoStop(line) == \A i \in Heads(line) : Is(line[i]) # "stop"

\* The settings are those of the first k arguments.
Latest(line, k, fl) ==
  \A flag \in DOMAIN Default :
    \/ /\ fl[flag] = Default[flag]
       /\ \A i \in Heads(line) : i <= k => ~ Sets(line[i], flag)
    \/ \E i \in Heads(line) :
         /\ i <= k /\ Sets(line[i], flag) /\ fl[flag] = Value(line, i)
         /\ \A j \in Heads(line) : j <= k /\ Sets(line[j], flag) => j <= i

\* The first word is the file, and the second pass began after it.
FileFound(cmd, line, k, f, ps) ==
  \/ /\ ps = 1 /\ f = ""
     /\ \A i \in Heads(line) : i <= k => Is(line[i]) # "word"
  \/ /\ ps = 2 /\ cmd = "restore"
     /\ \E w \in Heads(line) :
          /\ w <= k /\ Is(line[w]) = "word" /\ f = line[w]
          /\ \A i \in Heads(line) : i <= k /\ Is(line[i]) = "word" => i = w

FlagsWell(cmd, line, k) ==
  \A i \in Heads(line) : i <= k /\ IsFlag(line[i]) => CanSet(cmd, line, i)

\* The first k arguments had the effect that they should have.
Settled(cmd, line, k, fl, f, ps) ==
  /\ k \in 0 .. Len(line)
  /\ k < Len(line) => k + 1 \in Heads(line)
  /\ fl = [flag \in DOMAIN Default |-> fl[flag]]
  /\ Latest(line, k, fl)
  /\ FileFound(cmd, line, k, f, ps)
  /\ FlagsWell(cmd, line, k)

LEMMA NothingRead ==
  ASSUME NEW cmd, NEW line, Len(line) \in Nat
  PROVE  Settled(cmd, line, 0, Default, "", 1)
<1>1. \A i \in Heads(line) : ~(i <= 0)
  BY HeadsAre
<1>2. Len(line) > 0 => 0 + 1 \in Heads(line)
  BY HeadsAre
<1>3. 0 \in 0 .. Len(line)
  OBVIOUS
<1> QED
  BY <1>1, <1>2, <1>3, DefaultAssumption DEF Settled, Latest, FileFound, FlagsWell

\* A flag at position k + 1 is followed by its value or by somebody of his own.
LEMMA NextHead ==
  ASSUME NEW line, Len(line) \in Nat, NEW k \in Nat, k < Len(line), k + 1 \in Heads(line),
         NEW used, used = IF Is(line[k + 1]) = "bare" THEN 2 ELSE 1
  PROVE  \A i \in Heads(line) : i \in Nat /\ (i <= k + used <=> i <= k \/ i = k + 1)
<1>1. used = 2 => k + 2 \notin Heads(line)
  <2>1. k + 2 <= Len(line) => k + 1 \in 1 .. Len(line) - 1 /\ (k + 1) + 1 = k + 2
    OBVIOUS
  <2>2. used = 2 => Is(line[k + 1]) = "bare"
    OBVIOUS
  <2> QED
    BY <2>1, <2>2, HeadsAre
<1>2. \A i \in Heads(line) : i \in 1 .. Len(line)
  BY HeadsAre
<1>3. used \in {1, 2}
  OBVIOUS
<1> QED
  BY <1>1, <1>2, <1>3

\* One flag more, with its value.
LEMMA FlagRead ==
  ASSUME NEW cmd, NEW line, Len(line) \in Nat, NEW k, NEW fl, NEW f, NEW ps,
         Settled(cmd, line, k, fl, f, ps), k < Len(line), CanSet(cmd, line, k + 1),
         NEW used, used = IF Is(line[k + 1]) = "bare" THEN 2 ELSE 1, k + used <= Len(line)
  PROVE  Settled(cmd, line, k + used,
                 [fl EXCEPT ![Meaning[line[k + 1]].flag] = Value(line, k + 1)], f, ps)
<1> DEFINE m == Meaning[line[k + 1]]
           new == [fl EXCEPT ![m.flag] = Value(line, k + 1)]
<1>1. /\ k \in Nat /\ used \in {1, 2} /\ k + used \in 0 .. Len(line) /\ k + used \in Nat
      /\ k + 1 \in Heads(line) /\ k + 1 \in 1 .. Len(line) /\ k + 1 <= k + used /\ ~(k + 1 <= k)
  BY DEF Settled
<1>2. \A i \in Heads(line) : i \in Nat /\ (i <= k + used <=> i <= k \/ i = k + 1)
  BY <1>1, NextHead
<1>3. k + used < Len(line) => (k + used) + 1 \in Heads(line)
  <2> SUFFICES ASSUME k + used < Len(line) PROVE (k + used) + 1 \in Heads(line)
    OBVIOUS
  <2>1. /\ k + 1 \in 1 .. Len(line) - 1 /\ (k + 1) + 1 = k + 2
        /\ k + used \in 1 .. Len(line) - 1
    BY <1>1
  <2>2. CASE used = 1
    BY <1>1, <2>1, <2>2, HeadsAre
  <2>3. CASE used = 2
    BY <1>1, <2>1, <2>3, HeadsAre
  <2> QED
    BY <1>1, <2>2, <2>3
<1>4. fl = [flag \in DOMAIN Default |-> fl[flag]] /\ DOMAIN fl = DOMAIN Default
  BY DEF Settled
<1>5. \A flag \in DOMAIN Default :
        new[flag] = IF flag = m.flag THEN Value(line, k + 1) ELSE fl[flag]
  BY <1>4
<1>6. new = [flag \in DOMAIN Default |-> new[flag]]
  BY <1>4
<1> HIDE DEF new
<1>7. \A flag : Sets(line[k + 1], flag) <=> flag = m.flag
  BY DEF Sets, CanSet, IsKnown
<1>8. Latest(line, k + used, new)
  <2> SUFFICES ASSUME NEW flag \in DOMAIN Default
               PROVE  \/ /\ new[flag] = Default[flag]
                         /\ \A i \in Heads(line) : i <= k + used => ~ Sets(line[i], flag)
                      \/ \E i \in Heads(line) :
                           /\ i <= k + used /\ Sets(line[i], flag) /\ new[flag] = Value(line, i)
                           /\ \A j \in Heads(line) :
                                j <= k + used /\ Sets(line[j], flag) => j <= i
    BY DEF Latest
  <2>1. CASE flag = m.flag
    <3>1. new[flag] = Value(line, k + 1) /\ Sets(line[k + 1], flag)
      BY <1>5, <1>7, <2>1
    <3>2. \A j \in Heads(line) : j <= k + used => j <= k + 1
      BY <1>1, <1>2
    <3> QED
      BY <1>1, <3>1, <3>2
  <2>2. CASE flag # m.flag
    <3>1. new[flag] = fl[flag] /\ ~ Sets(line[k + 1], flag)
      BY <1>5, <1>7, <2>2
    <3> QED
      BY <1>2, <3>1 DEF Settled, Latest
  <2> QED
    BY <2>1, <2>2
<1>9. Is(line[k + 1]) # "word"
  BY DEF CanSet, IsKnown
<1>10. FileFound(cmd, line, k + used, f, ps)
  BY <1>2, <1>9 DEF Settled, FileFound
<1>11. FlagsWell(cmd, line, k + used)
  BY <1>2 DEF Settled, FlagsWell
<1> QED
  BY <1>1, <1>3, <1>6, <1>8, <1>10, <1>11 DEF Settled, new

\* The file.
LEMMA WordRead ==
  ASSUME NEW line, Len(line) \in Nat, NEW k, NEW fl, NEW f,
         Settled("restore", line, k, fl, f, 1), k < Len(line), Is(line[k + 1]) = "word"
  PROVE  Settled("restore", line, k + 1, fl, line[k + 1], 2)
<1>1. /\ k \in Nat /\ k + 1 \in 0 .. Len(line)
      /\ k + 1 \in Heads(line) /\ k + 1 \in 1 .. Len(line) /\ ~(k + 1 <= k)
  BY DEF Settled
<1>2. \A i \in Heads(line) : i \in Nat /\ (i <= k + 1 <=> i <= k \/ i = k + 1)
  BY <1>1, HeadsAre
<1>3. k + 1 < Len(line) => (k + 1) + 1 \in Heads(line)
  <2>1. k + 1 < Len(line) => k + 1 \in 1 .. Len(line) - 1
    BY <1>1
  <2> QED
    BY <2>1, HeadsAre
<1>4. ~ IsFlag(line[k + 1]) /\ \A flag : ~ Sets(line[k + 1], flag)
  BY DEF IsFlag, Sets
<1>5. Latest(line, k + 1, fl)
  BY <1>2, <1>4 DEF Settled, Latest
<1>6. FileFound("restore", line, k + 1, line[k + 1], 2)
  <2>1. FileFound("restore", line, k, f, 1)
    BY DEF Settled
  <2>2. 1 # 2
    OBVIOUS
  <2>4. \A i \in Heads(line) : i <= k => Is(line[i]) # "word"
    BY <2>1, <2>2, Zenon DEF FileFound
  <2>3. k + 1 <= k + 1
    BY <1>1
  <2> QED
    BY <1>1, <1>2, <2>3, <2>4 DEF FileFound
<1>7. FlagsWell("restore", line, k + 1)
  BY <1>2, <1>4 DEF Settled, FlagsWell
<1>8. fl = [flag \in DOMAIN Default |-> fl[flag]]
  BY DEF Settled
<1> QED
  BY <1>1, <1>3, <1>5, <1>6, <1>7, <1>8 DEF Settled

\* When all was read that counts, the flags are what the reference sets.
LEMMA AllRead ==
  ASSUME NEW cmd, NEW line, Len(line) \in Nat, NEW k, NEW fl, NEW f, NEW ps,
         Settled(cmd, line, k, fl, f, ps), ps = 2 => cmd # "backup",
         k = Len(line) \/ (cmd = "backup" /\ k < Len(line) /\ Is(line[k + 1]) = "word")
  PROVE  Settings(cmd, line) = fl /\ WellFormed(cmd, line)
<1>1. k \in Nat /\ \A i \in Heads(line) : i \in 1 .. Len(line)
  BY HeadsAre DEF Settled
<1>2. Read(cmd, line) = {i \in Heads(line) : i <= k}
  <2>1. CASE k = Len(line)
    <3>1. cmd = "backup" => Words(line) = {}
      <4> SUFFICES ASSUME cmd = "backup", NEW w \in Words(line) PROVE FALSE
        OBVIOUS
      <4>1. w \in Heads(line) /\ Is(line[w]) = "word" /\ w <= k
        BY <1>1, <2>1 DEF Words
      <4>2. FileFound(cmd, line, k, f, ps)
        BY DEF Settled
      <4> QED
        BY <4>1, <4>2 DEF FileFound
    <3>2. \A i \in Heads(line) : i <= k
      BY <1>1, <2>1
    <3> QED
      BY <3>1, <3>2 DEF Read
  <2>2. CASE cmd = "backup" /\ k < Len(line) /\ Is(line[k + 1]) = "word"
    <3>1. k + 1 \in Words(line)
      BY <2>2 DEF Settled, Words
    <3>2. \A w \in Words(line) : k < w
      <4>1. FileFound(cmd, line, k, f, ps)
        BY DEF Settled
      <4>2. \A w \in Words(line) : w \in Heads(line) /\ Is(line[w]) = "word"
        BY DEF Words
      <4>3. \A w \in Words(line) : ~(w <= k)
        BY <2>2, <4>1, <4>2 DEF FileFound
      <4> QED
        BY <1>1, <4>2, <4>3
    <3>3. \A i \in Heads(line) : i <= k <=> i < k + 1
      BY <1>1
    <3>4. \A i \in Heads(line), w \in Words(line) : i <= k => i < w
      BY <1>1, <3>2 DEF Words
    <3> QED
      BY <2>2, <3>1, <3>3, <3>4 DEF Read
  <2> QED
    BY <2>1, <2>2
<1>3. WellFormed(cmd, line)
  BY <1>2 DEF Settled, FlagsWell, WellFormed
<1>4. ASSUME NEW flag \in DOMAIN Default
      PROVE  (LET setters == Setters(cmd, line, flag)
              IN IF setters = {} THEN Default[flag]
                 ELSE Value(line, CHOOSE i \in setters : \A j \in setters : j <= i)) = fl[flag]
  <2> DEFINE setters == Setters(cmd, line, flag)
  <2>1. setters = {i \in Heads(line) : i <= k /\ Sets(line[i], flag)}
    BY <1>2 DEF Setters
  <2>2. CASE setters = {}
    BY <2>1, <2>2 DEF Settled, Latest
  <2>3. CASE setters # {}
    <3>1. PICK i \in setters : fl[flag] = Value(line, i) /\ \A j \in setters : j <= i
      BY <2>1, <2>3 DEF Settled, Latest
    <3>2. \A h \in setters : (\A j \in setters : j <= h) => h = i
      BY <1>1, <2>1, <3>1
    <3> HIDE DEF setters
    <3>3. (CHOOSE h \in setters : \A j \in setters : j <= h) = i
      BY <3>1, <3>2
    <3> QED
      BY <2>3, <3>1, <3>3 DEF setters
  <2> QED
    BY <2>2, <2>3
<1>5. fl = [flag \in DOMAIN Default |-> fl[flag]]
  BY DEF Settled
<1> QED
  BY <1>3, <1>4, <1>5 DEF Settings

-----------------------------------------------------------------------------
(* Sequences.                                                              *)

IsLine(line) == line \in Seq({line[i] : i \in DOMAIN line})

LEMMA LineFacts ==
  ASSUME NEW S, NEW line \in Seq(S)
  PROVE  /\ IsLine(line) /\ Len(line) \in Nat /\ (line = <<>> <=> Len(line) = 0)
         /\ line # <<>> => Head(line) = line[1]
<1>1. line \in [1 .. Len(line) -> S] /\ Len(line) \in Nat /\ DOMAIN line = 1 .. Len(line)
  BY LenProperties
<1> DEFINE T == {line[i] : i \in DOMAIN line}
<1>2. line \in [1 .. Len(line) -> T]
  BY <1>1
<1> HIDE DEF T
<1>3. line \in Seq(T)
  BY <1>1, <1>2, SeqDef
<1>4. line = <<>> <=> Len(line) = 0
  BY EmptySeq
<1> QED
  BY <1>1, <1>3, <1>4 DEF IsLine, T

\* What is left of a line from position k on.
IsEnd(rest, line, k) ==
  /\ IsLine(rest) /\ k \in 0 .. Len(line) /\ Len(rest) = Len(line) - k
  /\ \A i \in 1 .. Len(rest) : rest[i] = line[k + i]

LEMMA EndOfLine ==
  ASSUME NEW line, NEW k, NEW rest, IsLine(line), IsEnd(rest, line, k)
  PROVE  /\ rest = <<>> <=> k = Len(line)
         /\ rest # <<>> => k < Len(line) /\ Head(rest) = line[k + 1]
         /\ Len(rest) > 1 => rest[2] = line[k + 2]
         /\ \A used \in 1 .. Len(rest) :
              IsEnd(SubSeq(rest, used + 1, Len(rest)), line, k + used)
         /\ rest # <<>> => IsEnd(Tail(rest), line, k + 1)
<1> DEFINE S == {rest[i] : i \in DOMAIN rest}
<1>1. rest \in Seq(S)
  BY DEF IsEnd, IsLine
<1> HIDE DEF S
<1>2. Len(line) \in Nat
  BY LineFacts DEF IsLine
<1>3. Len(rest) \in Nat /\ (rest = <<>> <=> Len(rest) = 0) /\ (rest # <<>> => Head(rest) = rest[1])
  BY <1>1, LineFacts
<1>4. k \in Nat /\ Len(rest) = Len(line) - k /\ \A i \in 1 .. Len(rest) : rest[i] = line[k + i]
  BY <1>2 DEF IsEnd
<1>5. ASSUME NEW used \in 1 .. Len(rest)
      PROVE  IsEnd(SubSeq(rest, used + 1, Len(rest)), line, k + used)
  <2> DEFINE new == SubSeq(rest, used + 1, Len(rest))
  <2>1. \A i \in used + 1 .. Len(rest) : rest[i] \in S
    BY <1>1, <1>3, ElementOfSeq
  <2>2. used + 1 \in Int /\ Len(rest) \in Int
    BY <1>3
  <2>3. /\ new \in Seq(S)
        /\ Len(new) = IF used + 1 <= Len(rest) THEN Len(rest) - (used + 1) + 1 ELSE 0
        /\ \A i \in 1 .. Len(rest) - (used + 1) + 1 : new[i] = rest[(used + 1) + i - 1]
    BY <2>1, <2>2, SubSeqProperties
  <2> HIDE DEF new
  <2>4. Len(new) = Len(rest) - used /\ k + used \in 0 .. Len(line)
        /\ Len(new) = Len(line) - (k + used)
    <3>1. Len(new) = Len(rest) - used
      BY <1>3, <2>3
    <3>2. used \in Nat /\ used <= Len(rest)
      BY <1>3
    <3> QED
      BY <1>2, <1>3, <1>4, <3>1, <3>2
  <2>5. \A i \in 1 .. Len(new) : new[i] = line[(k + used) + i]
    <3> SUFFICES ASSUME NEW i \in 1 .. Len(new) PROVE new[i] = line[(k + used) + i]
      OBVIOUS
    <3>1. /\ (used + 1) + i - 1 = used + i /\ used + i \in 1 .. Len(rest)
          /\ i \in 1 .. Len(rest) - (used + 1) + 1
          /\ k + (used + i) = (k + used) + i
      BY <1>3, <1>4, <2>4
    <3> QED
      BY <1>4, <2>3, <3>1
  <2>6. IsLine(new)
    BY <2>3, LineFacts
  <2> QED
    BY <2>4, <2>5, <2>6 DEF IsEnd, new
<1>6. ASSUME rest # <<>> PROVE IsEnd(Tail(rest), line, k + 1)
  <2>1. Tail(rest) \in Seq(S) /\ Len(Tail(rest)) = Len(rest) - 1
    BY <1>1, <1>6, HeadTailProperties
  <2>2. \A i \in 1 .. Len(Tail(rest)) : Tail(rest)[i] = rest[i + 1]
    BY <1>1, <1>6, HeadTailProperties
  <2>3. k + 1 \in 0 .. Len(line) /\ Len(Tail(rest)) = Len(line) - (k + 1)
    BY <1>2, <1>3, <1>4, <1>6, <2>1
  <2>4. \A i \in 1 .. Len(Tail(rest)) : Tail(rest)[i] = line[(k + 1) + i]
    <3> SUFFICES ASSUME NEW i \in 1 .. Len(Tail(rest)) PROVE Tail(rest)[i] = line[(k + 1) + i]
      OBVIOUS
    <3>1. i + 1 \in 1 .. Len(rest) /\ k + (i + 1) = (k + 1) + i
      BY <1>3, <1>4, <2>1
    <3> QED
      BY <1>4, <2>2, <3>1
  <2>5. IsLine(Tail(rest))
    BY <2>1, LineFacts
  <2> QED
    BY <2>3, <2>4, <2>5 DEF IsEnd
<1>7. Len(rest) > 1 => rest[2] = line[k + 2]
  BY <1>3, <1>4
<1>8. rest # <<>> => k < Len(line) /\ Head(rest) = line[k + 1]
  BY <1>2, <1>3, <1>4
<1>9. rest = <<>> <=> k = Len(line)
  BY <1>2, <1>3, <1>4
<1> QED
  BY <1>5, <1>6, <1>7, <1>8, <1>9

LEMMA Joined ==
  ASSUME NEW S, NEW s \in Seq(S), NEW u \in Seq(S)
  PROVE  /\ s \o u \in Seq(S) /\ Len(s \o u) = Len(s) + Len(u)
         /\ \A i \in 1 .. Len(s) : (s \o u)[i] = s[i]
         /\ \A i \in 1 .. Len(u) : (s \o u)[Len(s) + i] = u[i]
<1>1. /\ s \o u \in Seq(S) /\ Len(s \o u) = Len(s) + Len(u)
      /\ \A i \in 1 .. Len(s) + Len(u) :
           (s \o u)[i] = IF i <= Len(s) THEN s[i] ELSE u[i - Len(s)]
  BY ConcatProperties
<1>2. Len(s) \in Nat /\ Len(u) \in Nat
  BY LenProperties
<1>3. \A i \in 1 .. Len(u) : /\ Len(s) + i \in 1 .. Len(s) + Len(u) /\ ~(Len(s) + i <= Len(s))
                             /\ (Len(s) + i) - Len(s) = i
  BY <1>2
<1>4. \A i \in 1 .. Len(s) : i \in 1 .. Len(s) + Len(u) /\ i <= Len(s)
  BY <1>2
<1> QED
  BY <1>1, <1>3, <1>4

LEMMA JoinedThree ==
  ASSUME NEW S, NEW x \in Seq(S), NEW y \in Seq(S), NEW z \in Seq(S)
  PROVE  x \o y \o z \in Seq(S) /\ y \o z \in Seq(S) /\ x \o (y \o z) \in Seq(S)
OBVIOUS

\* An opaque name for the equation, for Zenon.
Regroups(x, y, z, r) == x \o y \o z \o r = x \o (y \o (z \o r))

LEMMA Regrouped ==
  ASSUME NEW S, NEW x \in Seq(S), NEW y \in Seq(S), NEW z \in Seq(S), NEW r \in Seq(S)
  PROVE  Regroups(x, y, z, r)
BY DEF Regroups

\* So has this one: six parts, grouped to the right.
Grouped(S, a, b, c, d, e, f) ==
  /\ a \o b \o c \o d \o e \o f = a \o (b \o (c \o (d \o (e \o f))))
  /\ e \o f \in Seq(S) /\ d \o (e \o f) \in Seq(S) /\ c \o (d \o (e \o f)) \in Seq(S)
  /\ b \o (c \o (d \o (e \o f))) \in Seq(S)
  /\ a \o (b \o (c \o (d \o (e \o f)))) \in Seq(S)

LEMMA SixParts ==
  ASSUME NEW S, NEW a \in Seq(S), NEW b \in Seq(S), NEW c \in Seq(S), NEW d \in Seq(S),
         NEW e \in Seq(S), NEW f \in Seq(S)
  PROVE  Grouped(S, a, b, c, d, e, f)
<1>1. a \o b \o c \in Seq(S)
  BY JoinedThree, Zenon
<1>2. e \o f \in Seq(S) /\ d \o (e \o f) \in Seq(S)
  BY JoinedThree, Zenon
<1>3. c \o (d \o (e \o f)) \in Seq(S) /\ b \o (c \o (d \o (e \o f))) \in Seq(S)
  BY <1>2, JoinedThree, Zenon
<1>4. a \o (b \o (c \o (d \o (e \o f)))) \in Seq(S)
  BY <1>3, JoinedThree, Zenon
<1>5. Regroups(a \o b \o c, d, e, f)
  BY <1>1, Regrouped, Zenon
<1>6. Regroups(a, b, c, d \o (e \o f))
  BY <1>2, Regrouped, Zenon
<1> QED
  BY <1>2, <1>3, <1>4, <1>5, <1>6, Zenon DEF Regroups, Grouped

\* The command that is offered, as a function of what it is made from.
Option(s, x, default) == IF x # default THEN <<s, x>> ELSE <<>>
Switch(s, x) == IF x = "true" THEN <<s>> ELSE <<>>

CommandOf(o) ==
  Option("-provider", o.flags["provider"], Default["provider"])
    \o Option("-host", o.flags["host"], Default["host"])
    \o Option("-port", o.flags["port"], Default["port"])
    \o <<"-user", o.flags["user"]>>
    \o Switch("-no-owner", o.flags["no-owner"])
    \o <<"-db", o.name, o.file>>

\* Its strings.
Strings(o) ==
  {"-provider", "-host", "-port", "-user", "-no-owner", "-db", o.flags["provider"],
   o.flags["host"], o.flags["port"], o.flags["user"], o.name, o.file}

LEMMA OptionIs ==
  ASSUME NEW S, NEW s \in S, NEW x \in S, NEW default
  PROVE  Option(s, x, default) \in Seq(S) /\ <<s, x>> \in Seq(S) /\ <<s>> \in Seq(S)
           /\ Switch(s, x) \in Seq(S)
<1>1. <<s, x>> \in Seq(S) /\ <<s>> \in Seq(S) /\ <<>> \in Seq(S)
  OBVIOUS
<1>2. Option(s, x, default) = <<s, x>> \/ Option(s, x, default) = <<>>
  BY Zenon DEF Option
<1>3. Switch(s, x) = <<s>> \/ Switch(s, x) = <<>>
  BY Zenon DEF Switch
<1> QED
  BY <1>1, <1>2, <1>3, Zenon

LEMMA OfferedParts ==
  ASSUME NEW o
  PROVE  LET p == Option("-provider", o.flags["provider"], Default["provider"])
             h == Option("-host", o.flags["host"], Default["host"])
             n == Option("-port", o.flags["port"], Default["port"])
             u == <<"-user", o.flags["user"]>>
             w == Switch("-no-owner", o.flags["no-owner"])
             d == <<"-db", o.name, o.file>>
             S == Strings(o)
         IN /\ CommandOf(o) = p \o (h \o (n \o (u \o (w \o d))))
            /\ d \in Seq(S) /\ w \o d \in Seq(S) /\ u \o (w \o d) \in Seq(S)
            /\ n \o (u \o (w \o d)) \in Seq(S) /\ h \o (n \o (u \o (w \o d))) \in Seq(S)
            /\ CommandOf(o) \in Seq(S)
<1> DEFINE p == Option("-provider", o.flags["provider"], Default["provider"])
           h == Option("-host", o.flags["host"], Default["host"])
           n == Option("-port", o.flags["port"], Default["port"])
           u == <<"-user", o.flags["user"]>>
           w == Switch("-no-owner", o.flags["no-owner"])
           d == <<"-db", o.name, o.file>>
           S == Strings(o)
<1>1. /\ "-provider" \in S /\ "-host" \in S /\ "-port" \in S /\ "-user" \in S
      /\ "-no-owner" \in S /\ "-db" \in S
      /\ o.flags["provider"] \in S /\ o.flags["host"] \in S /\ o.flags["port"] \in S
      /\ o.flags["user"] \in S /\ o.name \in S /\ o.file \in S
  BY DEF Strings
<1>2. d \in Seq(S)
  <2> HIDE DEF S
  <2> QED
    BY <1>1
<1>5. w \in Seq(S)
  <2>1. <<"-no-owner">> \in Seq(S) /\ <<>> \in Seq(S)
    <3> HIDE DEF S
    <3> QED
      BY <1>1
  <2> QED
    BY <2>1 DEF Switch
<1>6. p \in Seq(S) /\ h \in Seq(S) /\ n \in Seq(S) /\ u \in Seq(S)
  <2> HIDE DEF S
  <2> QED
    BY <1>1, OptionIs
<1>7. CommandOf(o) = p \o h \o n \o u \o w \o d
  BY DEF CommandOf
<1>8. /\ CommandOf(o) = p \o (h \o (n \o (u \o (w \o d))))
      /\ w \o d \in Seq(S) /\ u \o (w \o d) \in Seq(S)
      /\ n \o (u \o (w \o d)) \in Seq(S) /\ h \o (n \o (u \o (w \o d))) \in Seq(S)
      /\ p \o (h \o (n \o (u \o (w \o d)))) \in Seq(S)
  <2> HIDE DEF p, h, n, u, w, d, S
  <2>1. Grouped(S, p, h, n, u, w, d)
    BY <1>2, <1>5, <1>6, SixParts, Zenon
  <2> QED
    BY <1>7, <2>1, Zenon DEF Grouped
<1> QED
  BY <1>2, <1>8, Zenon

LEMMA OfferedIsLine == ASSUME NEW o PROVE IsLine(CommandOf(o))
  BY OfferedParts, LineFacts
-----------------------------------------------------------------------------
(* Two passes read what one reading does.                                  *)

Done == Len(given) - Len(args)

\* Where the parser is, and what it made of the arguments before.
InPlace ==
  IsEnd(args, given, Done) /\ Settled(command, given, Done, flags, file, pass)

Inv ==
  /\ command \in {"backup", "restore"} /\ IsLine(given)
  /\ outcome = "parsing" /\ NoStop(given) => InPlace
  /\ ReadsAsWritten

LEMMA InPlaceFacts ==
  ASSUME IsLine(given), NoStop(given), InPlace
  PROVE  /\ Len(given) \in Nat /\ Done \in 0 .. Len(given) /\ Len(args) = Len(given) - Done
         /\ args = <<>> <=> Done = Len(given)
         /\ args # <<>> => /\ Done < Len(given) /\ Head(args) = given[Done + 1]
                           /\ Done + 1 \in Heads(given) /\ Is(Head(args)) # "stop"
         /\ Rest = args
         /\ pass = 1 \/ (pass = 2 /\ command = "restore")
<1>1. Len(given) \in Nat
  BY LineFacts DEF IsLine
<1>2. Done \in 0 .. Len(given) /\ Len(args) = Len(given) - Done
  BY DEF InPlace, IsEnd
<1>3. /\ args = <<>> <=> Done = Len(given)
      /\ args # <<>> => Done < Len(given) /\ Head(args) = given[Done + 1]
  BY EndOfLine DEF InPlace
<1>4. args # <<>> => Done + 1 \in Heads(given)
  BY <1>3 DEF InPlace, Settled
<1>5. args # <<>> => Is(Head(args)) # "stop"
  BY <1>3, <1>4 DEF NoStop
<1>6. pass = 1 \/ (pass = 2 /\ command = "restore")
  BY DEF InPlace, Settled, FileFound
<1> QED
  BY <1>1, <1>2, <1>3, <1>4, <1>5, <1>6 DEF Rest

\* A flag that the parser refuses is one that the reference refuses.
LEMMA Refused ==
  ASSUME NEW cmd, NEW line, Len(line) \in Nat, NEW k, NEW fl, NEW f, NEW ps,
         Settled(cmd, line, k, fl, f, ps), k < Len(line), IsFlag(line[k + 1]),
         ~ CanSet(cmd, line, k + 1)
  PROVE  ~ Acceptable(cmd, line)
<1>1. /\ k \in Nat /\ k + 1 \in Heads(line)
      /\ \A i \in Heads(line) : i \in Nat
  BY HeadsAre DEF Settled
<1>2. cmd = "backup" => \A w \in Words(line) : k + 1 < w
  <2> SUFFICES ASSUME cmd = "backup", NEW w \in Words(line) PROVE k + 1 < w
    OBVIOUS
  <2>1. w \in Heads(line) /\ Is(line[w]) = "word" /\ w \in Nat
    BY <1>1 DEF Words
  <2>2. \A i \in Heads(line) : i <= k => Is(line[i]) # "word"
    BY Zenon DEF Settled, FileFound
  <2>3. w # k + 1
    BY <2>1 DEF IsFlag
  <2> QED
    BY <1>1, <2>1, <2>2, <2>3
<1>3. k + 1 \in Read(cmd, line)
  BY <1>1, <1>2 DEF Read
<1>4. ~ WellFormed(cmd, line)
  BY <1>3 DEF WellFormed
<1> QED
  BY <1>4 DEF Acceptable

LEMMA FileIs ==
  ASSUME NEW cmd, NEW line, NEW k, NEW f, NEW ps, FileFound(cmd, line, k, f, ps)
  PROVE  /\ ps = 1 => f = "" /\ \A i \in Heads(line) : i <= k => Is(line[i]) # "word"
         /\ ps = 2 => \E w \in Heads(line) :
                       /\ w <= k /\ Is(line[w]) = "word" /\ f = line[w]
                       /\ \A i \in Heads(line) : i <= k /\ Is(line[i]) = "word" => i = w
<1>1. 1 # 2
  OBVIOUS
<1>2. CASE ps = 1
  BY <1>1, <1>2, Zenon DEF FileFound
<1>3. CASE ps = 2
  BY <1>1, <1>3, Zenon DEF FileFound
<1> QED
  BY <1>1, <1>2, <1>3, Zenon

\* The checks of backup and of restore, after the last pass.
LEMMA BackupChecked ==
  ASSUME Inv, outcome = "parsing", NoStop(given), ParseEnds, command = "backup"
  PROVE  /\ BackupVerdict = "accepted" <=> Acceptable(command, given)
         /\ flags = Settings(command, given)
<1>1. InPlace /\ IsLine(given)
  BY DEF Inv
<1>2. Done = Len(given) \/ (Done < Len(given) /\ Is(given[Done + 1]) = "word")
  BY <1>1, InPlaceFacts DEF ParseEnds, IsFlag
<1>3. Len(given) \in Nat /\ (pass = 2 => command # "backup")
  BY <1>1, InPlaceFacts
<1>4. Settled(command, given, Done, flags, file, pass)
  BY <1>1 DEF InPlace
<1>5. Settings(command, given) = flags /\ WellFormed(command, given)
  BY <1>2, <1>3, <1>4, AllRead
<1> QED
  BY <1>5 DEF BackupVerdict, Acceptable

LEMMA RestoreChecked ==
  ASSUME Inv, outcome = "parsing", NoStop(given), ParseEnds, command = "restore",
         pass = 2 \/ Rest = <<>>
  PROVE  /\ RestoreVerdict(Rest) = "accepted" <=> Acceptable(command, given)
         /\ RestoreVerdict(Rest) = "accepted" =>
              /\ flags = Settings(command, given)
              /\ \E w \in Words(given) : Words(given) = {w} /\ file = given[w]
<1>1. InPlace /\ IsLine(given)
  BY DEF Inv
<1>2. /\ Len(given) \in Nat /\ Rest = args /\ Done \in 0 .. Len(given)
      /\ args = <<>> <=> Done = Len(given)
  BY <1>1, InPlaceFacts
<1>3. Settled(command, given, Done, flags, file, pass)
  BY <1>1 DEF InPlace
<1>4. \A w \in Words(given) : w \in Heads(given) /\ Is(given[w]) = "word" /\ w \in 1 .. Len(given)
  BY <1>2, HeadsAre DEF Words
<1>5. CASE args # <<>>
  <2>1. pass = 2 /\ Done + 1 \in Words(given)
    BY <1>1, <1>2, <1>5, InPlaceFacts DEF ParseEnds, IsFlag, Words
  <2>2. \E w \in Words(given) : w <= Done
    BY <1>3, <2>1, FileIs, Zenon DEF Settled, Words
  <2>3. \A w \in Words(given) : w <= Done => w # Done + 1
    BY <1>2, <1>4
  <2>4. ~ \E w \in Words(given) : Words(given) = {w}
    BY <2>1, <2>2, <2>3
  <2>5. ~ Acceptable(command, given)
    BY <2>4 DEF Acceptable
  <2>6. RestoreVerdict(Rest) # "accepted"
    BY <1>2, <1>5 DEF RestoreVerdict
  <2> QED
    BY <2>5, <2>6
<1>6. CASE args = <<>>
  <2>1. Settings(command, given) = flags /\ WellFormed(command, given)
    BY <1>2, <1>3, <1>6, AllRead
  <2>2. CASE pass = 1
    <3>1. file = "" /\ Words(given) = {}
      <4>1. file = "" /\ \A i \in Heads(given) : i <= Done => Is(given[i]) # "word"
        BY <1>3, <2>2, FileIs DEF Settled
      <4>2. \A w \in Words(given) : w <= Done
        BY <1>2, <1>4, <1>6
      <4> QED
        BY <1>4, <4>1, <4>2
    <3> QED
      BY <3>1 DEF RestoreVerdict, Acceptable
  <2>3. CASE pass = 2
    <3>1. PICK w \in Words(given) : file = given[w] /\ Words(given) = {w}
      BY <1>2, <1>3, <1>4, <1>6, <2>3 DEF Settled, FileFound, Words
    <3>2. Acceptable(command, given) <=>
            /\ flags["user"] # "" /\ file \notin HasCurly \cup {""}
            /\ flags["db"] \notin HasComma \cup HasEquals \cup HasCurly
      BY <2>1, <3>1 DEF Acceptable
    <3>3. RestoreVerdict(Rest) = "accepted" <=>
            /\ flags["user"] # "" /\ file \notin HasCurly \cup {""}
            /\ flags["db"] \notin HasComma \cup HasEquals \cup HasCurly
      BY <1>2, <1>6 DEF RestoreVerdict
    <3> QED
      BY <2>1, <3>1, <3>2, <3>3
  <2> QED
    BY <1>1, <2>2, <2>3, InPlaceFacts
<1> QED
  BY <1>5, <1>6

LEMMA WholeLine == ASSUME NEW line, IsLine(line), Len(line) \in Nat PROVE IsEnd(line, line, 0)
<1>1. 0 \in 0 .. Len(line) /\ Len(line) = Len(line) - 0
  OBVIOUS
<1>2. \A i \in 1 .. Len(line) : 0 + i = i
  OBVIOUS
<1> QED
  BY <1>1, <1>2 DEF IsEnd

LEMMA InvInit == Init => Inv
<1> SUFFICES ASSUME Init PROVE Inv
  OBVIOUS
<1>1. PICK n \in 0 .. MaxArgs : given \in [1 .. n -> DOMAIN Meaning]
  BY DEF Init
<1>2. n \in Nat
  BY MaxArgsAssumption
<1>3. given \in Seq(DOMAIN Meaning)
  BY <1>1, <1>2, SeqDef
<1>4. IsLine(given) /\ Len(given) \in Nat
  BY <1>3, LineFacts
<1>5. Done = 0 /\ IsEnd(args, given, Done)
  <2>1. args = given /\ Done = 0
    <3>1. args = given
      BY DEF Init
    <3>2. Len(given) - Len(given) = 0
      BY <1>4
    <3> QED
      BY <3>1, <3>2, Zenon DEF Done
  <2> QED
    BY <1>4, <2>1, WholeLine
<1>6. Settled(command, given, Done, flags, file, pass)
  BY <1>4, <1>5, NothingRead DEF Init
<1> QED
  BY <1>4, <1>5, <1>6 DEF Init, Inv, InPlace, ReadsAsWritten

\* The parser and the reference see the same text after a flag.
LEMMA SameText ==
  ASSUME NEW cmd, NEW line, IsLine(line), NEW k, NEW rest, IsEnd(rest, line, k), rest # <<>>
  PROVE  /\ CanSet(cmd, rest, 1) <=> CanSet(cmd, line, k + 1)
         /\ CanSet(cmd, rest, 1) => Text(rest, 1) = Text(line, k + 1)
<1>1. Len(rest) \in Nat /\ Len(line) \in Nat /\ k \in Nat /\ Len(rest) = Len(line) - k
  BY LineFacts DEF IsEnd, IsLine
<1>2. rest[1] = line[k + 1] /\ (Len(rest) > 1 => rest[1 + 1] = line[(k + 1) + 1])
  <2>1. Len(rest) > 0
    BY LineFacts, <1>1 DEF IsEnd, IsLine
  <2>2. k + 2 = (k + 1) + 1 /\ 1 + 1 = 2
    BY <1>1
  <2> QED
    BY <1>1, <2>1, <2>2 DEF IsEnd
<1>3. 1 < Len(rest) <=> k + 1 < Len(line)
  BY <1>1
<1>4. Len(rest) > 1 \/ Is(rest[1]) # "bare" => Text(rest, 1) = Text(line, k + 1)
  BY <1>2 DEF Text, Is
<1>5. Len(rest) > 1 <=> 1 < Len(rest)
  BY <1>1
<1> QED
  BY <1>2, <1>3, <1>4, <1>5 DEF CanSet

LEMMA FlagStep == ASSUME Inv, ParseFlag PROVE Inv'
<1>1. /\ outcome = "parsing" /\ args # <<>> /\ IsFlag(Head(args))
      /\ UNCHANGED <<command, given, file, pass>>
  BY DEF ParseFlag
<1>2. command' \in {"backup", "restore"} /\ IsLine(given)'
  BY <1>1 DEF Inv, IsLine
<1>3. NoStop(given)' = NoStop(given)
  BY <1>1 DEF NoStop
<1>4. CASE ~ NoStop(given)
  BY <1>2, <1>3, <1>4 DEF Inv, ReadsAsWritten, NoStop
<1>5. CASE NoStop(given)
  <2>1. InPlace /\ IsLine(given)
    BY <1>1, <1>5 DEF Inv
  <2>2. /\ Len(given) \in Nat /\ Done \in 0 .. Len(given) /\ Len(args) = Len(given) - Done
        /\ Done < Len(given) /\ Head(args) = given[Done + 1]
    BY <1>1, <1>5, <2>1, InPlaceFacts
  <2>3. Settled(command, given, Done, flags, file, pass)
    BY <2>1 DEF InPlace
  <2> DEFINE s == Head(args)
  <2>4. /\ CanSet(command, args, 1) <=> CanSet(command, given, Done + 1)
        /\ CanSet(command, args, 1) => Text(args, 1) = Text(given, Done + 1)
    BY <1>1, <2>1, SameText DEF InPlace
  <2>5. ASSUME NEW how, how \in {"help", "badflags"}, Fail(how), ~ CanSet(command, args, 1)
        PROVE  Inv'
    <3>1. ~ Acceptable(command, given)
      BY <1>1, <2>2, <2>3, <2>4, <2>5, Refused
    <3>2. outcome' # "parsing" /\ outcome' # "accepted"
      BY <2>5 DEF Fail
    <3>3. ReadsAsWritten'
      BY <1>1, <3>1, <3>2 DEF ReadsAsWritten
    <3> QED
      BY <1>2, <3>2, <3>3 DEF Inv
  <2>6. Is(s) = "help" => ~ CanSet(command, args, 1)
    <3>1. args[1] = s
      BY <1>1, <2>1, EndOfLine, LineFacts DEF InPlace, IsEnd, IsLine
    <3> QED
      BY <3>1 DEF CanSet, IsKnown
  <2>7. CASE CanSet(command, args, 1)
             /\ Set(Meaning[s].flag, Taken(Meaning[s].flag, Text(args, 1)),
                    IF Is(s) = "bare" THEN 2 ELSE 1)
    <3> DEFINE used == IF Is(s) = "bare" THEN 2 ELSE 1
    <3>1. /\ flags' = [flags EXCEPT ![Meaning[s].flag] = Value(given, Done + 1)]
          /\ args' = SubSeq(args, used + 1, Len(args)) /\ outcome' = "parsing"
      BY <1>1, <2>2, <2>4, <2>7 DEF Set, Value
    <3>2. used \in 1 .. Len(args) /\ Done + used <= Len(given)
      <4>1. Is(s) = "bare" => Done + 1 < Len(given)
        BY <2>2, <2>4, <2>7 DEF CanSet
      <4> QED
        BY <2>2, <4>1
    <3>3. IsEnd(args', given, Done + used)
      BY <2>1, <3>1, <3>2, EndOfLine DEF InPlace
    <3>4. Done' = Done + used
      <4>1. Len(args') = Len(given) - (Done + used) /\ Done + used \in Int
        BY <2>2, <3>2, <3>3 DEF IsEnd
      <4>2. Done' = Len(given) - Len(args')
        BY <1>1, Zenon DEF Done
      <4> HIDE DEF used
      <4> QED
        BY <2>2, <4>1, <4>2
    <3>5. Settled(command, given, Done + used, flags', file, pass)
      <4>1. CanSet(command, given, Done + 1)
        BY <2>4, <2>7
      <4>2. used = IF Is(given[Done + 1]) = "bare" THEN 2 ELSE 1
        BY <2>2
      <4> HIDE DEF used
      <4> QED
        BY <2>2, <2>3, <3>1, <3>2, <4>1, <4>2, FlagRead
    <3>6. InPlace'
      BY <1>1, <3>3, <3>4, <3>5 DEF InPlace
    <3>7. ReadsAsWritten'
      BY <3>1 DEF ReadsAsWritten
    <3> QED
      BY <1>2, <3>6, <3>7 DEF Inv
  <2> QED
    BY <2>5, <2>6, <2>7 DEF ParseFlag
<1> QED
  BY <1>4, <1>5

LEMMA FileStep == ASSUME Inv, SecondPass PROVE Inv'
<1>1. /\ command = "restore" /\ pass = 1 /\ ParseEnds /\ Rest # <<>> /\ outcome = "parsing"
      /\ file' = Head(Rest) /\ args' = Tail(Rest) /\ pass' = 2
      /\ UNCHANGED <<command, given, flags, outcome>>
  BY DEF SecondPass, ParseEnds
<1>2. command' \in {"backup", "restore"} /\ IsLine(given)' /\ ReadsAsWritten'
  BY <1>1 DEF Inv, IsLine, ReadsAsWritten
<1>3. NoStop(given)' = NoStop(given)
  BY <1>1 DEF NoStop
<1>4. ASSUME NoStop(given) PROVE InPlace'
  <2>1. InPlace /\ IsLine(given)
    BY <1>1, <1>4 DEF Inv
  <2>2. /\ Len(given) \in Nat /\ Done \in 0 .. Len(given) /\ Rest = args
        /\ Done < Len(given) /\ Head(args) = given[Done + 1] /\ Is(Head(args)) # "stop"
    BY <1>1, <1>4, <2>1, InPlaceFacts
  <2>3. Is(given[Done + 1]) = "word"
    BY <1>1, <2>2 DEF ParseEnds, IsFlag
  <2>4. Settled("restore", given, Done, flags, file, 1)
    BY <1>1, <2>1 DEF InPlace
  <2>5. Settled("restore", given, Done + 1, flags, given[Done + 1], 2)
    BY <2>2, <2>3, <2>4, WordRead
  <2>6. IsEnd(args', given, Done + 1)
    BY <1>1, <2>1, <2>2, EndOfLine DEF InPlace
  <2>7. Done' = Done + 1
    BY <1>1, <2>2, <2>6 DEF Done, IsEnd
  <2> QED
    BY <1>1, <2>2, <2>5, <2>6, <2>7 DEF InPlace
<1> QED
  BY <1>2, <1>3, <1>4 DEF Inv

LEMMA CheckStep == ASSUME Inv, Check PROVE Inv'
<1>1. /\ outcome = "parsing" /\ ParseEnds
      /\ UNCHANGED <<command, given, args, flags, file, pass>>
  BY DEF Check, ParseEnds
<1>2. command' \in {"backup", "restore"} /\ IsLine(given)' /\ outcome' # "parsing"
  BY <1>1 DEF Inv, IsLine, Check, BackupVerdict, RestoreVerdict
<1>3. ReadsAsWritten'
  <2>1. CASE ~ NoStop(given)
    BY <1>1, <2>1 DEF ReadsAsWritten, NoStop
  <2>2. CASE NoStop(given) /\ command = "backup"
    <3>1. outcome' = BackupVerdict
      BY <2>2 DEF Check
    <3> QED
      BY <1>1, <2>2, <3>1, BackupChecked DEF ReadsAsWritten
  <2>3. CASE NoStop(given) /\ command = "restore"
    <3>1. outcome' = RestoreVerdict(Rest) /\ (pass = 2 \/ Rest = <<>>)
      BY <2>3 DEF Check
    <3> QED
      BY <1>1, <2>3, <3>1, RestoreChecked DEF ReadsAsWritten
  <2> QED
    BY <2>1, <2>2, <2>3 DEF Inv
<1> QED
  BY <1>2, <1>3 DEF Inv

LEMMA OfferStep == ASSUME Inv, RunOffered PROVE Inv'
<1>1. PICK name \in Names : /\ Run("restore", RestoreCommand(name))
                            /\ offered' = <<[flags |-> flags, file |-> file, name |-> name]>>
  BY DEF RunOffered
<1> DEFINE o == [flags |-> flags, file |-> file, name |-> name]
<1>2. RestoreCommand(name) = CommandOf(o)
  BY DEF RestoreCommand, IfGiven, CommandOf, Option, Switch
<1>3. IsLine(RestoreCommand(name))
  BY <1>2, OfferedIsLine
<1>4. /\ given' = RestoreCommand(name) /\ args' = given' /\ command' = "restore"
      /\ flags' = Default /\ file' = "" /\ pass' = 1 /\ outcome' = "parsing"
  BY <1>1 DEF Run
<1>5. IsLine(given') /\ Len(given') \in Nat
  BY <1>3, <1>4, LineFacts DEF IsLine
<1>6. Done' = 0 /\ IsEnd(args', given', Done')
  <2>1. Done' = 0
    <3>1. Len(given') - Len(given') = 0
      BY <1>5
    <3> QED
      BY <1>4, <3>1, Zenon DEF Done
  <2> QED
    BY <1>4, <1>5, <2>1, WholeLine
<1>7. Settled(command', given', Done', flags', file', pass')
  BY <1>4, <1>5, <1>6, NothingRead
<1> QED
  BY <1>4, <1>5, <1>6, <1>7 DEF Inv, InPlace, ReadsAsWritten

LEMMA InvStep == Inv /\ [Next]_vars => Inv'
<1> SUFFICES ASSUME Inv, [Next]_vars PROVE Inv'
  OBVIOUS
<1>1. CASE ParseFlag
  BY <1>1, FlagStep
<1>2. CASE SecondPass
  BY <1>2, FileStep
<1>3. CASE Check
  BY <1>3, CheckStep
<1>4. CASE RunOffered
  BY <1>4, OfferStep
<1>5. CASE Stop \/ UNCHANGED vars
  BY <1>5 DEF Stop, vars, Inv, IsLine, NoStop, InPlace, Done, ReadsAsWritten
<1> QED
  BY <1>1, <1>2, <1>3, <1>4, <1>5 DEF Next

\* "Flags may appear before or after the file": for every line without the mark
\* --, of whatever length, the two passes accept what one reading from left to
\* right accepts, with the same settings and the same file.
THEOREM ParsedAsWritten == Spec => []ReadsAsWritten
<1>1. Inv => ReadsAsWritten
  BY DEF Inv
<1> QED
  BY <1>1, InvInit, InvStep, PTL DEF Spec
-----------------------------------------------------------------------------
(* The command that a refusal offers.                                      *)

\* The flags of the offered command, and what each sets.
LEMMA FlagWords ==
  /\ \A s \in {"-provider", "-host", "-port", "-user", "-db", "-no-owner"} :
       IsKnown("restore", s) /\ Meaning[s].flag \in DOMAIN Default
  /\ \A s \in {"-provider", "-host", "-port", "-user", "-db"} : Is(s) = "bare"
  /\ Is("-no-owner") = "bool"
  /\ Meaning["-provider"].flag = "provider" /\ Meaning["-host"].flag = "host"
  /\ Meaning["-port"].flag = "port" /\ Meaning["-user"].flag = "user"
  /\ Meaning["-db"].flag = "db" /\ Meaning["-no-owner"].flag = "no-owner"
<1>1. \A s \in {"-provider", "-host", "-port", "-user", "-db", "-no-owner"} :
        Meaning[s].flag \in Known["restore"] \cap DOMAIN Default
  BY OfferedFlagsAssumption
<1>2. /\ \A s \in {"-provider", "-host", "-port", "-user", "-db"} : Is(s) = "bare"
      /\ Is("-no-owner") = "bool"
  BY OfferedFlagsAssumption, Zenon
<1>3. \A s \in {"-provider", "-host", "-port", "-user", "-db", "-no-owner"} : IsKnown("restore", s)
  BY <1>1, <1>2 DEF IsKnown
<1> QED
  BY <1>1, <1>2, <1>3, OfferedFlagsAssumption

\* What is left of a line after its flags so far set fl, and nothing else was met.
Reached(line, rest, k, fl) ==
  /\ IsEnd(rest, line, k) /\ Settled("restore", line, k, fl, "", 1)
  /\ \A i \in Heads(line) : i <= k => Is(line[i]) # "stop"

\* all is g followed by r.
Splits(all, g, r) ==
  /\ Len(g) \in Nat /\ Len(r) \in Nat /\ Len(all) = Len(g) + Len(r) /\ IsLine(r)
  /\ \A i \in 1 .. Len(g) : all[i] = g[i]
  /\ \A i \in 1 .. Len(r) : all[Len(g) + i] = r[i]

\* g is what line has after k, and r what is left then.
Front(g, r, line, k) ==
  /\ k + Len(g) <= Len(line) /\ k \in Nat /\ Len(line) \in Nat
  /\ \A i \in 1 .. Len(g) : line[k + i] = g[i]
  /\ IsEnd(r, line, k + Len(g))

LEMMA FrontOf ==
  ASSUME NEW all, NEW g, NEW r, NEW line, NEW k,
         Splits(all, g, r), IsLine(line), IsEnd(all, line, k)
  PROVE  Front(g, r, line, k)
<1>1. Len(line) \in Nat
  BY LineFacts DEF IsLine
<1>2. /\ Len(g) \in Nat /\ Len(r) \in Nat /\ Len(all) = Len(g) + Len(r) /\ IsLine(r)
      /\ \A i \in 1 .. Len(g) : all[i] = g[i]
      /\ \A i \in 1 .. Len(r) : all[Len(g) + i] = r[i]
  BY Zenon DEF Splits
<1>3. /\ k \in 0 .. Len(line) /\ Len(all) = Len(line) - k
      /\ \A i \in 1 .. Len(all) : all[i] = line[k + i]
  BY Zenon DEF IsEnd
<1>4. /\ k + Len(g) \in 0 .. Len(line) /\ Len(r) = Len(line) - (k + Len(g))
      /\ k + Len(g) <= Len(line) /\ k \in Nat
  BY <1>1, <1>2, <1>3
<1>5. ASSUME NEW i \in 1 .. Len(r) PROVE r[i] = line[(k + Len(g)) + i]
  <2>1. Len(g) + i \in 1 .. Len(all) /\ k + (Len(g) + i) = (k + Len(g)) + i
    BY <1>2, <1>4
  <2> QED
    BY <1>2, <1>3, <2>1
<1>6. ASSUME NEW i \in 1 .. Len(g) PROVE line[k + i] = g[i]
  <2>1. i \in 1 .. Len(all)
    BY <1>2
  <2> QED
    BY <1>2, <1>3, <2>1
<1> QED
  BY <1>1, <1>2, <1>4, <1>5, <1>6 DEF Front, IsEnd

LEMMA After ==
  ASSUME NEW S, NEW g \in Seq(S), NEW r \in Seq(S), NEW line, NEW k, IsLine(line),
         IsEnd(g \o r, line, k)
  PROVE  Front(g, r, line, k)
<1>1. Splits(g \o r, g, r)
  BY Joined, LineFacts DEF Splits
<1> QED
  BY <1>1, FrontOf, Zenon

\* Arithmetic, for Zenon.
LEMMA Within ==
  ASSUME NEW n \in Nat, NEW k \in 0 .. n, NEW used \in {1, 2}, k + used <= n
  PROVE  k \in Nat /\ k < n
OBVIOUS

\* A flag that takes the text after it, if it has one, unchanged.
LEMMA FlagReached ==
  ASSUME NEW line, IsLine(line), NEW rest, NEW k, NEW fl, Reached(line, rest, k, fl),
         NEW used \in {1, 2}, k + used <= Len(line), NEW x,
         IsKnown("restore", line[k + 1]),
         used = (IF Is(line[k + 1]) = "bare" THEN 2 ELSE 1),
         Text(line, k + 1) = x, Takes(Meaning[line[k + 1]].flag, x),
         Taken(Meaning[line[k + 1]].flag, x) = x
  PROVE  /\ Settled("restore", line, k + used,
                    [fl EXCEPT ![Meaning[line[k + 1]].flag] = x], "", 1)
         /\ \A i \in Heads(line) : i <= k + used => Is(line[i]) # "stop"
<1>1. Len(line) \in Nat /\ Settled("restore", line, k, fl, "", 1)
  BY LineFacts DEF IsLine, Reached
<1>2. k \in Nat /\ k < Len(line)
  <2>1. k \in 0 .. Len(line)
    BY <1>1, Zenon DEF Settled
  <2> QED
    BY <1>1, <2>1, Within, Zenon
<1>3. k + 1 \in Heads(line) /\ Value(line, k + 1) = x
  <2>1. k + 1 \in Heads(line)
    BY <1>1, <1>2, Zenon DEF Settled
  <2>2. Value(line, k + 1) = x
    BY DEF Value
  <2> QED
    BY <2>1, <2>2
<1>4. CanSet("restore", line, k + 1)
  <2>1. Is(line[k + 1]) = "bare" => k + 1 < Len(line)
    <3>1. Is(line[k + 1]) = "bare" => used = 2
      BY Zenon
    <3>2. Len(line) \in Nat /\ k \in Nat /\ k + used <= Len(line)
      BY <1>1, <1>2, Zenon
    <3>3. ASSUME NEW n \in Nat, NEW a \in Nat, a + 2 <= n PROVE a + 1 < n
      BY <3>3
    <3> QED
      BY <3>1, <3>2, <3>3, Zenon
  <2>2. Takes(Meaning[line[k + 1]].flag, Text(line, k + 1))
    BY Zenon
  <2> QED
    BY <2>1, <2>2, Zenon DEF CanSet
<1>5. Settled("restore", line, k + used,
              [fl EXCEPT ![Meaning[line[k + 1]].flag] = x], "", 1)
  <2>1. Settled("restore", line, k + used,
                [fl EXCEPT ![Meaning[line[k + 1]].flag] = Value(line, k + 1)], "", 1)
    BY <1>1, <1>2, <1>4, FlagRead
  <2> QED
    BY <1>3, <2>1
<1>6. \A i \in Heads(line) : i \in Nat /\ (i <= k + used <=> i <= k \/ i = k + 1)
  BY <1>1, <1>2, <1>3, NextHead
<1>7. Is(line[k + 1]) # "stop"
  BY DEF IsKnown
<1> QED
  BY <1>5, <1>6, <1>7 DEF Reached

\* <<s, x>>, where s is a flag that takes the next argument.
LEMMA BareReached ==
  ASSUME NEW s, NEW x, NEW all, NEW rest, Splits(all, <<s, x>>, rest), NEW line, IsLine(line),
         NEW k, NEW fl, Reached(line, all, k, fl), Is(s) = "bare", IsKnown("restore", s),
         Takes(Meaning[s].flag, x), Taken(Meaning[s].flag, x) = x
  PROVE  Reached(line, rest, k + 2, [fl EXCEPT ![Meaning[s].flag] = x])
<1> DEFINE g == <<s, x>>
<1>1. Len(g) = 2 /\ g[1] = s /\ g[2] = x
  OBVIOUS
<1>2. IsEnd(all, line, k)
  BY DEF Reached
<1>3. /\ k + Len(g) <= Len(line) /\ k \in Nat
      /\ \A i \in 1 .. Len(g) : line[k + i] = g[i]
      /\ IsEnd(rest, line, k + Len(g))
  <2>1. Splits(all, g, rest)
    OBVIOUS
  <2> HIDE DEF g
  <2>2. Front(g, rest, line, k)
    BY <1>2, <2>1, FrontOf, Zenon
  <2> QED
    BY <2>2, Zenon DEF Front
<1>4. k + 2 <= Len(line) /\ line[k + 1] = s /\ line[k + 2] = x /\ IsEnd(rest, line, k + 2)
  BY <1>1, <1>3
<1>5. Text(line, k + 1) = x
  <2>1. (k + 1) + 1 = k + 2
    BY <1>3
  <2> QED
    BY <1>4, <2>1 DEF Text, Is
<1>6. /\ Settled("restore", line, k + 2, [fl EXCEPT ![Meaning[s].flag] = x], "", 1)
      /\ \A i \in Heads(line) : i <= k + 2 => Is(line[i]) # "stop"
  BY <1>4, <1>5, FlagReached
<1> QED
  BY <1>4, <1>6 DEF Reached

LEMMA NoneReached ==
  ASSUME NEW S, NEW rest \in Seq(S), NEW line, NEW k, NEW fl,
         Reached(line, <<>> \o rest, k, fl)
  PROVE  Reached(line, rest, k, fl)
<1>1. <<>> \o rest = rest
  OBVIOUS
<1> QED
  BY <1>1

\* A flag that is there if it is not at its default.
LEMMA OptionReached ==
  ASSUME NEW S, NEW s \in S, NEW x \in S, NEW rest \in Seq(S), NEW line, IsLine(line), NEW k, NEW fl,
         NEW flag \in DOMAIN Default, flag = Meaning[s].flag, fl[flag] = Default[flag],
         DOMAIN fl = DOMAIN Default,
         Reached(line, Option(s, x, Default[flag]) \o rest, k, fl),
         Is(s) = "bare", IsKnown("restore", s),
         x # Default[flag] => Takes(flag, x) /\ Taken(flag, x) = x
  PROVE  \E n : Reached(line, rest, n, [fl EXCEPT ![flag] = x])
<1>1. CASE x # Default[flag]
  <2>1. Option(s, x, Default[flag]) = <<s, x>>
    BY <1>1 DEF Option
  <2>2. <<s, x>> \in Seq(S)
    OBVIOUS
  <2>3. Splits(<<s, x>> \o rest, <<s, x>>, rest)
    BY <2>2, Joined, LineFacts DEF Splits
  <2>4. Reached(line, <<s, x>> \o rest, k, fl) /\ Takes(flag, x) /\ Taken(flag, x) = x
    BY <1>1, <2>1
  <2> QED
    BY <2>3, <2>4, BareReached, Zenon
<1>2. CASE x = Default[flag]
  <2>1. Option(s, x, Default[flag]) = <<>>
    BY <1>2 DEF Option
  <2>2. Reached(line, rest, k, fl)
    BY <2>1, NoneReached
  <2>3. fl = [f \in DOMAIN Default |-> fl[f]]
    BY DEF Reached, Settled
  <2>4. [fl EXCEPT ![flag] = x] = fl
    BY <1>2, <2>3
  <2> QED
    BY <2>2, <2>4
<1> QED
  BY <1>1, <1>2

\* -no-owner, if it was set.
LEMMA SwitchReached ==
  ASSUME NEW S, "-no-owner" \in S, NEW x, NEW rest \in Seq(S), NEW line, IsLine(line), NEW k, NEW fl,
         Reached(line, Switch("-no-owner", x) \o rest, k, fl)
  PROVE  \E n : Reached(line, rest, n,
                        IF x = "true" THEN [fl EXCEPT !["no-owner"] = "true"] ELSE fl)
<1>1. CASE x # "true"
  <2>1. Switch("-no-owner", x) = <<>>
    BY <1>1 DEF Switch
  <2>2. Reached(line, rest, k, fl)
    BY <2>1, NoneReached
  <2> QED
    BY <1>1, <2>2
<1>2. CASE x = "true"
  <2> DEFINE g == <<"-no-owner">>
  <2>1. Switch("-no-owner", x) = g
    BY <1>2 DEF Switch
  <2>2. g \in Seq(S) /\ Len(g) = 1 /\ g[1] = "-no-owner"
    OBVIOUS
  <2>3. IsEnd(g \o rest, line, k)
    BY <2>1 DEF Reached
  <2>4. /\ k + Len(g) <= Len(line) /\ k \in Nat
        /\ \A i \in 1 .. Len(g) : line[k + i] = g[i]
        /\ IsEnd(rest, line, k + Len(g))
    <3> HIDE DEF g
    <3>1. Front(g, rest, line, k)
      BY <2>2, <2>3, After, Zenon
    <3> QED
      BY <3>1, Zenon DEF Front
  <2>5. k + 1 <= Len(line) /\ line[k + 1] = "-no-owner" /\ IsEnd(rest, line, k + 1)
    BY <2>2, <2>4
  <2>6. /\ Is("-no-owner") = "bool" /\ IsKnown("restore", "-no-owner")
        /\ Meaning["-no-owner"].flag = "no-owner"
    BY FlagWords
  <2>7. Text(line, k + 1) = "true"
    BY <2>5, <2>6 DEF Text, Is
  <2>8. Takes("no-owner", "true") /\ Taken("no-owner", "true") = "true"
    BY DEF Takes, Taken, IntFlags
  <2>9. Reached(line, Switch("-no-owner", x) \o rest, k, fl) /\ 1 \in {1, 2}
        /\ 1 = IF Is(line[k + 1]) = "bare" THEN 2 ELSE 1
    BY <2>5, <2>6
  <2>10. /\ Settled("restore", line, k + 1, [fl EXCEPT !["no-owner"] = "true"], "", 1)
         /\ \A i \in Heads(line) : i <= k + 1 => Is(line[i]) # "stop"
    BY <2>5, <2>6, <2>7, <2>8, <2>9, FlagReached
  <2> QED
    BY <1>2, <2>5, <2>10 DEF Reached
<1> QED
  BY <1>1, <1>2


\* Settings in which each flag is at its default, or as the flag takes it.
Printed(fl) ==
  /\ DOMAIN fl = DOMAIN Default
  /\ \A f \in DOMAIN Default :
       fl[f] # Default[f] => Takes(f, fl[f]) /\ Taken(f, fl[f]) = fl[f]

\* What the offered command sets, the name aside.
Rebuilt(o) ==
  LET p == [Default EXCEPT !["provider"] = o.flags["provider"]]
      h == [p EXCEPT !["host"] = o.flags["host"]]
      n == [h EXCEPT !["port"] = o.flags["port"]]
      u == [n EXCEPT !["user"] = o.flags["user"]]
  IN IF o.flags["no-owner"] = "true" THEN [u EXCEPT !["no-owner"] = "true"] ELSE u

\* Up to -db, the offered command sets what the first one had.
LEMMA OfferReached ==
  ASSUME NEW o, Printed(o.flags), NEW line, line = CommandOf(o)
  PROVE  \E k : Reached(line, <<"-db", o.name, o.file>>, k, Rebuilt(o))
<1> DEFINE S == Strings(o)
           P == Option("-provider", o.flags["provider"], Default["provider"])
           H == Option("-host", o.flags["host"], Default["host"])
           N == Option("-port", o.flags["port"], Default["port"])
           U == <<"-user", o.flags["user"]>>
           W == Switch("-no-owner", o.flags["no-owner"])
           d == <<"-db", o.name, o.file>>
           p == [Default EXCEPT !["provider"] = o.flags["provider"]]
           h == [p EXCEPT !["host"] = o.flags["host"]]
           n == [h EXCEPT !["port"] = o.flags["port"]]
           u == [n EXCEPT !["user"] = o.flags["user"]]
           w == IF o.flags["no-owner"] = "true" THEN [u EXCEPT !["no-owner"] = "true"] ELSE u
<1>1. /\ line = P \o (H \o (N \o (U \o (W \o d)))) /\ line \in Seq(S)
      /\ d \in Seq(S) /\ W \o d \in Seq(S) /\ U \o (W \o d) \in Seq(S)
      /\ N \o (U \o (W \o d)) \in Seq(S) /\ H \o (N \o (U \o (W \o d))) \in Seq(S)
  BY OfferedParts, Zenon
<1>2. IsLine(line)
  BY OfferedIsLine
<1>3. /\ "-provider" \in S /\ "-host" \in S /\ "-port" \in S /\ "-user" \in S
      /\ "-no-owner" \in S
      /\ o.flags["provider"] \in S /\ o.flags["host"] \in S /\ o.flags["port"] \in S
      /\ o.flags["user"] \in S
  BY DEF Strings
<1>4. {"provider", "host", "port", "user", "no-owner"} \subseteq DOMAIN Default
  BY OfferedFlagsAssumption
<1>5. \A f \in {"provider", "host", "port"} :
        o.flags[f] # Default[f] => Takes(f, o.flags[f]) /\ Taken(f, o.flags[f]) = o.flags[f]
  BY <1>4 DEF Printed
<1>6. /\ DOMAIN p = DOMAIN Default /\ p["host"] = Default["host"]
      /\ DOMAIN h = DOMAIN Default /\ h["port"] = Default["port"]
      /\ DOMAIN n = DOMAIN Default
  BY <1>4, DefaultAssumption
<1> HIDE DEF S, P, H, N, U, W, d, p, h, n, u, w
<1>7. Reached(line, line, 0, Default)
  <2>1. Len(line) \in Nat
    BY <1>2, LineFacts DEF IsLine
  <2>2. \A i \in Heads(line) : ~(i <= 0)
    BY <2>1, HeadsAre
  <2> QED
    BY <1>2, <2>1, <2>2, WholeLine, NothingRead DEF Reached
<1>8. \E k : Reached(line, H \o (N \o (U \o (W \o d))), k, p)
  <2>1. Reached(line, P \o (H \o (N \o (U \o (W \o d)))), 0, Default)
    BY <1>1, <1>7
  <2>2. /\ "provider" \in DOMAIN Default /\ "provider" = Meaning["-provider"].flag
        /\ Is("-provider") = "bare" /\ IsKnown("restore", "-provider")
    BY <1>4, FlagWords
  <2> QED
    BY <1>1, <1>2, <1>3, <1>5, <2>1, <2>2, OptionReached DEF P, p
<1>9. \E k : Reached(line, N \o (U \o (W \o d)), k, h)
  <2>1. PICK k : Reached(line, H \o (N \o (U \o (W \o d))), k, p)
    BY <1>8
  <2>2. /\ "host" \in DOMAIN Default /\ "host" = Meaning["-host"].flag
        /\ Is("-host") = "bare" /\ IsKnown("restore", "-host")
    BY <1>4, FlagWords
  <2> QED
    BY <1>1, <1>2, <1>3, <1>5, <1>6, <2>1, <2>2, OptionReached DEF H, h
<1>10. \E k : Reached(line, U \o (W \o d), k, n)
  <2>1. PICK k : Reached(line, N \o (U \o (W \o d)), k, h)
    BY <1>9
  <2>2. /\ "port" \in DOMAIN Default /\ "port" = Meaning["-port"].flag
        /\ Is("-port") = "bare" /\ IsKnown("restore", "-port")
    BY <1>4, FlagWords
  <2> QED
    BY <1>1, <1>2, <1>3, <1>5, <1>6, <2>1, <2>2, OptionReached DEF N, n
<1>11. \E k : Reached(line, W \o d, k, u)
  <2>1. PICK k : Reached(line, U \o (W \o d), k, n)
    BY <1>10
  <2>2. /\ "user" = Meaning["-user"].flag
        /\ Is("-user") = "bare" /\ IsKnown("restore", "-user")
    BY FlagWords
  <2>3. Takes("user", o.flags["user"]) /\ Taken("user", o.flags["user"]) = o.flags["user"]
    BY DEF Takes, Taken, IntFlags
  <2>4. U \in Seq(S)
    BY <1>3, OptionIs DEF U
  <2>5. Splits(U \o (W \o d), U, W \o d)
    <3> DEFINE r == W \o d
    <3>1. r \in Seq(S)
      BY <1>1
    <3> HIDE DEF r
    <3>2. Splits(U \o r, U, r)
      BY <2>4, <3>1, Joined, LineFacts DEF Splits
    <3> QED
      BY <3>2 DEF r
  <2> QED
    BY <1>2, <2>1, <2>2, <2>3, <2>5, BareReached DEF U, u
<1>12. \E k : Reached(line, d, k, w)
  <2>1. PICK k : Reached(line, W \o d, k, u)
    BY <1>11
  <2> QED
    BY <1>1, <1>2, <1>3, <2>1, SwitchReached DEF W, w
<1> QED
  BY <1>12 DEF Rebuilt, d, w, u, n, h, p

LEMMA LastOfThree == ASSUME NEW a, NEW b, NEW c PROVE Splits(<<a, b, c>>, <<a, b>>, <<c>>)
<1>1. <<c>> \in Seq({c})
  OBVIOUS
<1>2. IsLine(<<c>>)
  BY <1>1, LineFacts, Zenon
<1> QED
  BY <1>2 DEF Splits

LEMMA OneIsLast ==
  ASSUME NEW x, NEW line, IsLine(line), NEW k, IsEnd(<<x>>, line, k)
  PROVE  /\ Len(line) \in Nat /\ k \in Nat /\ k + 1 = Len(line) /\ line[k + 1] = x
         /\ \A i \in Heads(line) : i \in Nat /\ i <= k + 1 /\ (i <= k \/ i = k + 1)
<1>1. Len(line) \in Nat
  BY LineFacts DEF IsLine
<1>2. Len(<<x>>) = 1 /\ <<x>>[1] = x
  OBVIOUS
<1>3. /\ k \in 0 .. Len(line) /\ Len(<<x>>) = Len(line) - k
      /\ \A i \in 1 .. Len(<<x>>) : <<x>>[i] = line[k + i]
  BY Zenon DEF IsEnd
<1>4. k \in Nat /\ k + 1 = Len(line)
  BY <1>1, <1>2, <1>3
<1>5. line[k + 1] = x
  BY <1>2, <1>3
<1>6. \A i \in Heads(line) : i \in 1 .. Len(line)
  BY <1>1, HeadsAre
<1> QED
  BY <1>1, <1>4, <1>5, <1>6

\* A line of which one argument is left, the file.
LEMMA FileLeft ==
  ASSUME NEW x, Is(x) = "word", NEW line, IsLine(line), NEW k, NEW fl, Reached(line, <<x>>, k, fl)
  PROVE  /\ Settings("restore", line) = fl /\ WellFormed("restore", line) /\ NoStop(line)
         /\ \E w \in Words(line) : Words(line) = {w} /\ line[w] = x
         /\ DOMAIN fl = DOMAIN Default
<1>1. /\ IsEnd(<<x>>, line, k) /\ Settled("restore", line, k, fl, "", 1)
      /\ \A i \in Heads(line) : i <= k => Is(line[i]) # "stop"
  BY Zenon DEF Reached
<1>2. /\ Len(line) \in Nat /\ k \in Nat /\ k + 1 = Len(line) /\ line[k + 1] = x
      /\ \A i \in Heads(line) : i \in Nat /\ i <= k + 1 /\ (i <= k \/ i = k + 1)
  BY <1>1, OneIsLast
<1>3. Settled("restore", line, k + 1, fl, x, 2)
  <2>1. k < Len(line)
    BY <1>2
  <2> QED
    BY <1>1, <1>2, <2>1, WordRead
<1>4. Settings("restore", line) = fl /\ WellFormed("restore", line)
  BY <1>2, <1>3, AllRead
<1>5. NoStop(line)
  BY <1>1, <1>2 DEF NoStop
<1>6. \E w \in Words(line) : Words(line) = {w} /\ line[w] = x
  <2>0. 2 # 1
    OBVIOUS
  <2>1. FileFound("restore", line, k + 1, x, 2)
    BY <1>3, Zenon DEF Settled
  <2>2. \E w \in Heads(line) :
          /\ w <= k + 1 /\ Is(line[w]) = "word" /\ x = line[w]
          /\ \A i \in Heads(line) : i <= k + 1 /\ Is(line[i]) = "word" => i = w
    BY <2>0, <2>1, Zenon DEF FileFound
  <2> QED
    BY <1>2, <2>2 DEF Words
<1>7. DOMAIN fl = DOMAIN Default
  <2>1. fl = [f \in DOMAIN Default |-> fl[f]]
    BY <1>1, Zenon DEF Settled
  <2> QED
    BY <2>1
<1> QED
  BY <1>4, <1>5, <1>6, <1>7

\* Read from left to right, the offered command asks for what it was made from.
LEMMA OfferReads ==
  ASSUME NEW o, Is(o.file) = "word", o.file \notin HasCurly \cup {""}, o.name \in Plain,
         o.flags["user"] # "", Printed(o.flags), NEW line, line = CommandOf(o)
  PROVE  /\ NoStop(line) /\ Acceptable("restore", line)
         /\ \A w \in Words(line) : line[w] = o.file
         /\ Settings("restore", line) = [Rebuilt(o) EXCEPT !["db"] = o.name]
<1> DEFINE fl == [Rebuilt(o) EXCEPT !["db"] = o.name]
           d == <<"-db", o.name, o.file>>
<1>1. PICK b : Reached(line, d, b, Rebuilt(o))
  BY OfferReached
<1>2. IsLine(line)
  BY OfferedIsLine
<1>3. Splits(d, <<"-db", o.name>>, <<o.file>>)
  BY LastOfThree
<1>4. Reached(line, <<o.file>>, b + 2, fl)
  <2>1. Is("-db") = "bare" /\ IsKnown("restore", "-db") /\ Meaning["-db"].flag = "db"
    BY FlagWords
  <2>2. Takes("db", o.name) /\ Taken("db", o.name) = o.name
    BY DEF Takes, Taken, IntFlags
  <2> QED
    BY <1>1, <1>2, <1>3, <2>1, <2>2, BareReached
<1> HIDE DEF fl, d
<1>5. /\ Settings("restore", line) = fl /\ WellFormed("restore", line) /\ NoStop(line)
       /\ DOMAIN fl = DOMAIN Default
  BY <1>2, <1>4, FileLeft, Zenon
<1>6. PICK w \in Words(line) : Words(line) = {w} /\ line[w] = o.file
  BY <1>2, <1>4, FileLeft, Zenon
<1>7. "db" \in DOMAIN Default /\ "user" \in DOMAIN Default
  BY OfferedFlagsAssumption
<1>8. DOMAIN Rebuilt(o) = DOMAIN Default /\ Rebuilt(o)["user"] = o.flags["user"]
  BY <1>7, DefaultAssumption DEF Rebuilt
<1>9. fl["db"] = o.name /\ fl["user"] = o.flags["user"]
  BY <1>7, <1>8 DEF fl
<1>10. o.name \notin HasComma \cup HasEquals \cup HasCurly
  BY PlainAssumption
<1>11. Acceptable("restore", line)
  BY <1>5, <1>6, <1>9, <1>10 DEF Acceptable
<1> QED
  BY <1>5, <1>6, <1>11 DEF fl

\* Only what was accepted is offered, what is offered is what is run, and flags are
\* at their defaults or as they were taken.
Offering ==
  /\ Printed(flags)
  /\ outcome = "accepted" /\ command = "restore" =>
       flags["user"] # "" /\ file \notin HasCurly \cup {""}
  /\ offered # <<>> =>
       /\ command = "restore"
       /\ \E o : /\ offered = <<o>> /\ given = CommandOf(o) /\ Printed(o.flags)
                 /\ o.flags["user"] # "" /\ o.file \notin HasCurly \cup {""}

LEMMA OfferingStep == Offering /\ [Next]_vars => Offering'
<1> SUFFICES ASSUME Offering, [Next]_vars PROVE Offering'
  OBVIOUS
<1>1. CASE ParseFlag
  <2>1. outcome' # "accepted" /\ UNCHANGED <<command, given, offered>>
    BY <1>1 DEF ParseFlag, Fail, Set
  <2>2. Printed(flags)'
    <3>1. flags' = flags \/ \E flag, text : Takes(flag, text)
                              /\ flags' = [flags EXCEPT ![flag] = Taken(flag, text)]
      BY <1>1 DEF ParseFlag, Fail, Set, CanSet
    <3>2. ASSUME NEW flag, NEW text, Takes(flag, text),
                 flags' = [flags EXCEPT ![flag] = Taken(flag, text)]
          PROVE  Printed(flags)'
      <4>1. Takes(flag, Taken(flag, text)) /\ Taken(flag, Taken(flag, text)) = Taken(flag, text)
        BY <3>2, NumberAssumption DEF Takes, Taken
      <4> QED
        BY <3>2, <4>1 DEF Offering, Printed
    <3>3. CASE flags' = flags
      BY <3>3 DEF Offering, Printed
    <3> QED
      BY <3>1, <3>2, <3>3
  <2> QED
    BY <2>1, <2>2 DEF Offering
<1>2. CASE SecondPass
  <2>1. outcome' # "accepted" /\ UNCHANGED <<command, given, flags, offered>>
    BY <1>2 DEF SecondPass, ParseEnds
  <2> QED
    BY <2>1 DEF Offering, Printed
<1>3. CASE Check
  <2>1. UNCHANGED <<command, given, flags, file, offered>>
    BY <1>3 DEF Check
  <2>2. command = "restore" /\ outcome' = "accepted" =>
          flags["user"] # "" /\ file \notin HasCurly \cup {""}
    BY <1>3 DEF Check, RestoreVerdict
  <2> QED
    BY <2>1, <2>2 DEF Offering, Printed
<1>4. CASE RunOffered
  <2>1. PICK name \in Names : /\ Run("restore", RestoreCommand(name))
                              /\ offered' = <<[flags |-> flags, file |-> file, name |-> name]>>
    BY <1>4 DEF RunOffered
  <2> DEFINE o == [flags |-> flags, file |-> file, name |-> name]
  <2>2. given' = CommandOf(o) /\ command' = "restore" /\ outcome' = "parsing" /\ flags' = Default
    BY <2>1 DEF Run, RestoreCommand, IfGiven, CommandOf, Option, Switch
  <2>3. o.flags["user"] # "" /\ o.file \notin HasCurly \cup {""} /\ Printed(o.flags)
    BY <1>4 DEF RunOffered, Offering
  <2>4. Printed(flags)'
    BY <2>2 DEF Printed
  <2> QED
    BY <2>1, <2>2, <2>3, <2>4 DEF Offering
<1>5. CASE Stop \/ UNCHANGED vars
  BY <1>5 DEF Stop, vars, Offering, Printed
<1> QED
  BY <1>1, <1>2, <1>3, <1>4, <1>5 DEF Next

\* "A ready-to-run command that fixes it": the command that a refused restore
\* offers is accepted, for the same file, on the same server (provider, host, port
\* and user) and with the same rights, under the name that it offers; whatever the
\* first command was, if its file does not look like a flag and -db takes the name.
THEOREM OffersRun == Spec => []OfferRuns
<1>1. Init => Offering
  BY DEF Init, Offering, Printed
<1>2. Inv /\ Offering => OfferRuns
  <2> SUFFICES ASSUME Inv, Offering, offered # <<>>, outcome # "parsing", Comparable(offered[1])
               PROVE  /\ outcome = "accepted"
                      /\ file = offered[1].file /\ flags["db"] = offered[1].name
                      /\ \A f \in {"provider", "host", "port", "user", "no-owner"} :
                           SameSetting(f, offered[1])
    BY DEF OfferRuns
  <2>1. PICK o : /\ offered = <<o>> /\ given = CommandOf(o) /\ Printed(o.flags)
                 /\ o.flags["user"] # "" /\ o.file \notin HasCurly \cup {""}
    BY DEF Offering
  <2>2. offered[1] = o
    BY <2>1
  <2>3. Is(o.file) = "word" /\ o.name \in Plain /\ command = "restore"
    BY <2>2 DEF Comparable, Offering
  <2>4. /\ NoStop(given) /\ Acceptable("restore", given)
        /\ \A w \in Words(given) : given[w] = o.file
        /\ Settings("restore", given) = [Rebuilt(o) EXCEPT !["db"] = o.name]
    BY <2>1, <2>3, OfferReads
  <2>5. /\ outcome = "accepted" /\ flags = Settings("restore", given)
        /\ \E w \in Words(given) : file = given[w]
    BY <2>3, <2>4 DEF Inv, ReadsAsWritten, NoStop
  <2>6. {"provider", "host", "port", "user", "db", "no-owner"} \subseteq DOMAIN Default
    BY OfferedFlagsAssumption
  <2>7. flags = [Rebuilt(o) EXCEPT !["db"] = o.name] /\ file = o.file
    BY <2>4, <2>5
  <2>8. /\ DOMAIN Rebuilt(o) = DOMAIN Default
        /\ \A f \in {"provider", "host", "port", "user"} : Rebuilt(o)[f] = o.flags[f]
        /\ Rebuilt(o)["no-owner"] =
             IF o.flags["no-owner"] = "true" THEN "true" ELSE Default["no-owner"]
    BY <2>6, DefaultAssumption DEF Rebuilt
  <2>9. /\ flags["db"] = o.name
        /\ \A f \in {"provider", "host", "port", "user", "no-owner"} : flags[f] = Rebuilt(o)[f]
    BY <2>6, <2>7, <2>8
  <2>10. \A f \in {"provider", "host", "port", "user", "no-owner"} : SameSetting(f, o)
    BY <2>8, <2>9 DEF SameSetting
  <2> QED
    BY <2>2, <2>5, <2>7, <2>9, <2>10
<1> QED
  BY <1>1, <1>2, InvInit, InvStep, OfferingStep, PTL DEF Spec
=============================================================================

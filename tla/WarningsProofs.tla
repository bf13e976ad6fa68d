--------------------------- MODULE WarningsProofs ---------------------------
(***************************************************************************)
(* Proofs about Warnings and WarningManager, for any signals, limits,      *)
(* delays and demo warnings.                                               *)
(***************************************************************************)
EXTENDS Warnings, TLAPS, WellFoundedInduction

-----------------------------------------------------------------------------
(* Natural numbers *)

(* A set of natural numbers has a least element. *)
LEMMA LeastElement ==
  ASSUME NEW T \in SUBSET Nat, T # {}
  PROVE  \E m \in T : \A k \in T : m <= k
<1> DEFINE R == OpToRel(<, Nat)
<1>1. IsWellFoundedOn(R, Nat) BY NatLessThanWellFounded
<1>2. ASSUME NEW x \in T, NEW y \in T, y < x PROVE <<y, x>> \in R
  BY <1>2 DEF OpToRel
<1> HIDE DEF R
<1>3. PICK x \in T : \A y \in T : ~(<<y, x>> \in R) BY <1>1, WFMin
<1>4. \A y \in T : ~(y < x) BY <1>2, <1>3
<1> QED BY <1>4

(* Induction, for a set. *)
LEMMA SetInduction ==
  ASSUME NEW S \in SUBSET Nat, 0 \in S, \A n \in S : n + 1 \in S
  PROVE  S = Nat
<1> SUFFICES ASSUME Nat \ S # {} PROVE FALSE OBVIOUS
<1>1. PICK m \in Nat \ S : \A k \in Nat \ S : m <= k BY LeastElement
<1>2. m # 0 OBVIOUS
<1>3. m - 1 \in Nat /\ m - 1 \notin Nat \ S BY <1>1, <1>2
<1> QED BY <1>3

-----------------------------------------------------------------------------
(* Lists *)

(* What Selected is made of is well defined. *)
LEMMA SelectedSteps ==
  ASSUME NEW T, NEW list \in Seq(T), NEW positions
  PROVE  \E f : /\ Selected(list, positions) = f[Len(list)]
                /\ f[0] = <<>>
                /\ \A n \in 1 .. Len(list) :
                     f[n] = IF n \in positions THEN Append(f[n - 1], list[n]) ELSE f[n - 1]
<1> DEFINE H(f, k) == [n \in 0 .. k |->
             IF n = 0 THEN <<>>
             ELSE IF n \in positions THEN Append(f[n - 1], list[n]) ELSE f[n - 1]]
           E == {k \in Nat : \E f : f = H(f, k)}
           f0 == CHOOSE f : f = H(f, Len(list))
<1>1. Selected(list, positions) = f0[Len(list)] BY DEF Selected
<1>2. E = Nat
  <2>1. 0 \in E
    <3> DEFINE f == [n \in 0 .. 0 |-> <<>>]
    <3>1. f = H(f, 0) OBVIOUS
    <3> QED BY <3>1
  <2>2. ASSUME NEW k \in E PROVE k + 1 \in E
    <3>1. PICK f : f = H(f, k) OBVIOUS
    <3> DEFINE e == IF k + 1 \in positions THEN Append(f[k], list[k + 1]) ELSE f[k]
               g == [n \in 0 .. k + 1 |-> IF n = k + 1 THEN e ELSE f[n]]
    <3>2. \A n \in 0 .. k : g[n] = f[n] OBVIOUS
    <3>3. ASSUME NEW n \in 0 .. k + 1
          PROVE  g[n] = IF n = 0 THEN <<>>
                        ELSE IF n \in positions THEN Append(g[n - 1], list[n])
                        ELSE g[n - 1]
      <4>1. CASE n = k + 1
        <5>1. g[n] = e /\ g[n - 1] = f[k] /\ n # 0 BY <4>1
        <5> QED BY <4>1, <5>1
      <4>2. CASE n # k + 1
        <5>1. n \in 0 .. k BY <4>2
        <5>2. g[n] = f[n] BY <5>1
        <5>3. n # 0 => g[n - 1] = f[n - 1] BY <5>1
        <5>4. f[n] = IF n = 0 THEN <<>>
                     ELSE IF n \in positions THEN Append(f[n - 1], list[n])
                     ELSE f[n - 1]
          BY <3>1, <5>1
        <5> HIDE DEF g
        <5> QED BY <5>2, <5>3, <5>4
      <4> QED BY <4>1, <4>2
    <3>4. g = H(g, k + 1) BY <3>3
    <3>5. \E h : h = H(h, k + 1)
      <4> WITNESS g
      <4> QED BY <3>4
    <3> HIDE DEF H
    <3> QED BY <3>5
  <2> HIDE DEF E
  <2> QED BY <2>1, <2>2, SetInduction DEF E
<1>3. Len(list) \in Nat OBVIOUS
<1>4. \E f : f = H(f, Len(list)) BY <1>2, <1>3
<1>5. f0 = H(f0, Len(list)) BY <1>4
<1> HIDE DEF f0
<1>6. f0[0] = <<>> BY <1>3, <1>5
<1>7. \A n \in 1 .. Len(list) :
        f0[n] = IF n \in positions THEN Append(f0[n - 1], list[n]) ELSE f0[n - 1]
  <2> TAKE n \in 1 .. Len(list)
  <2>1. n \in 0 .. Len(list) /\ n # 0 BY <1>3
  <2> QED BY <1>5, <2>1
<1> QED BY <1>1, <1>6, <1>7

(* What is chosen of a list is at the positions, and the other way round.  *)
Picks(T, list, positions, chosen) ==
  /\ chosen \in Seq(T)
  /\ \A i \in 1 .. Len(chosen) :
       \E j \in 1 .. Len(list) : j \in positions /\ chosen[i] = list[j]
  /\ \A j \in 1 .. Len(list) :
       j \in positions => \E i \in 1 .. Len(chosen) : chosen[i] = list[j]

LEMMA SelectedIs ==
  ASSUME NEW T, NEW list \in Seq(T), NEW positions
  PROVE  Picks(T, list, positions, Selected(list, positions))
<1>1. PICK f : /\ Selected(list, positions) = f[Len(list)]
               /\ f[0] = <<>>
               /\ \A n \in 1 .. Len(list) :
                    f[n] = IF n \in positions THEN Append(f[n - 1], list[n]) ELSE f[n - 1]
  BY SelectedSteps
<1> DEFINE P(n) ==
             /\ f[n] \in Seq(T)
             /\ \A i \in 1 .. Len(f[n]) :
                  \E j \in 1 .. n : j \in positions /\ f[n][i] = list[j]
             /\ \A j \in 1 .. n :
                  j \in positions => \E i \in 1 .. Len(f[n]) : f[n][i] = list[j]
           S == {n \in Nat : n <= Len(list) => P(n)}
<1>2. 0 \in S
  <2>1. f[0] \in Seq(T) /\ Len(f[0]) = 0 BY <1>1
  <2>2. 1 .. Len(f[0]) = {} /\ 1 .. 0 = {} BY <2>1
  <2>3. P(0) BY <2>1, <2>2
  <2> QED BY <2>3
<1>3. ASSUME NEW n \in S PROVE n + 1 \in S
  <2> SUFFICES ASSUME n + 1 <= Len(list) PROVE P(n + 1) OBVIOUS
  <2>1. n + 1 \in 1 .. Len(list) /\ P(n) /\ (n + 1) - 1 = n /\ n \in Nat OBVIOUS
  <2> DEFINE a == f[n] b == f[n + 1]
  <2>2. b = IF n + 1 \in positions THEN Append(a, list[n + 1]) ELSE a BY <1>1, <2>1
  <2>3. /\ a \in Seq(T)
        /\ \A i \in 1 .. Len(a) : \E j \in 1 .. n : j \in positions /\ a[i] = list[j]
        /\ \A j \in 1 .. n : j \in positions => \E i \in 1 .. Len(a) : a[i] = list[j]
    BY <2>1
  <2>4. list[n + 1] \in T BY <2>1
  <2> HIDE DEF a, b
  <2>5. CASE n + 1 \in positions
    <3>1. b = Append(a, list[n + 1]) BY <2>2, <2>5
    <3>2. /\ b \in Seq(T) /\ Len(b) = Len(a) + 1 /\ b[Len(a) + 1] = list[n + 1]
          /\ \A i \in 1 .. Len(a) : b[i] = a[i]
          /\ Len(a) \in Nat
      BY <2>3, <2>4, <3>1
    <3>3. ASSUME NEW i \in 1 .. Len(b)
          PROVE  \E j \in 1 .. n + 1 : j \in positions /\ b[i] = list[j]
      <4>1. CASE i = Len(a) + 1 BY <2>1, <2>5, <3>2, <4>1
      <4>2. CASE i # Len(a) + 1
        <5>1. i \in 1 .. Len(a) BY <3>2, <4>2
        <5>2. PICK j \in 1 .. n : j \in positions /\ a[i] = list[j] BY <2>3, <5>1
        <5> QED BY <2>1, <3>2, <5>1, <5>2
      <4> QED BY <4>1, <4>2
    <3>4. ASSUME NEW j \in 1 .. n + 1, j \in positions
          PROVE  \E i \in 1 .. Len(b) : b[i] = list[j]
      <4>1. CASE j = n + 1
        <5>1. Len(a) + 1 \in 1 .. Len(b) BY <3>2
        <5> QED BY <3>2, <4>1, <5>1
      <4>2. CASE j # n + 1
        <5>1. j \in 1 .. n BY <2>1, <4>2
        <5>2. PICK i \in 1 .. Len(a) : a[i] = list[j] BY <2>3, <3>4, <5>1
        <5>3. i \in 1 .. Len(b) BY <3>2
        <5> QED BY <3>2, <5>2, <5>3
      <4> QED BY <4>1, <4>2
    <3> QED BY <3>2, <3>3, <3>4 DEF b
  <2>6. CASE n + 1 \notin positions
    <3>1. b = a BY <2>2, <2>6
    <3>2. \A i \in 1 .. Len(b) : \E j \in 1 .. n + 1 : j \in positions /\ b[i] = list[j]
      BY <2>1, <2>3, <3>1
    <3>3. \A j \in 1 .. n + 1 : j \in positions => \E i \in 1 .. Len(b) : b[i] = list[j]
      BY <2>1, <2>3, <2>6, <3>1
    <3> QED BY <2>3, <3>1, <3>2, <3>3 DEF b
  <2> QED BY <2>5, <2>6
<1> HIDE DEF P
<1>4. S = Nat BY <1>2, <1>3, SetInduction
<1>5. P(Len(list)) BY <1>4
<1>6. Picks(T, list, positions, f[Len(list)]) BY <1>5 DEF P, Picks
<1> QED BY <1>1, <1>6
-----------------------------------------------------------------------------
(* The manager *)

Warning == [id : Ids, severity : Severities, acknowledged : BOOLEAN]
Manager == [warnings : Seq(Warning), current : Int]

(* What is listed of a warning is the same. *)
Keeps(m, n, id) ==
  /\ Holds(n.warnings, id) <=> Holds(m.warnings, id)
  /\ \A severity \in Severities : Listed(m, id, severity) <=> Listed(n, id, severity)

(* Nothing is acknowledged that was not, as severe. *)
Silences(m, n) ==
  \A i \in DOMAIN n.warnings :
    n.warnings[i].acknowledged =>
      \E j \in DOMAIN m.warnings :
        /\ m.warnings[j].id = n.warnings[i].id
        /\ m.warnings[j].acknowledged
        /\ Rank[m.warnings[j].severity] >= Rank[n.warnings[i].severity]

LEMMA Ranks ==
  /\ \A severity \in Severities : Rank[severity] \in Int
  /\ {"critical", "warning"} \subseteq Severities
BY DEF Severities, Rank

LEMMA SilencesNothing ==
  ASSUME NEW m \in Manager
  PROVE  Silences(m, m)
<1>1. \A i \in DOMAIN m.warnings : m.warnings[i] \in Warning BY DEF Manager
<1>2. \A i \in DOMAIN m.warnings : Rank[m.warnings[i].severity] \in Int
  BY <1>1, Ranks DEF Warning
<1>3. \A i \in DOMAIN m.warnings :
        Rank[m.warnings[i].severity] >= Rank[m.warnings[i].severity]
  BY <1>2
<1> QED BY <1>3 DEF Silences

LEMMA SilencesAfter ==
  ASSUME NEW k \in Manager, NEW m \in Manager, NEW n \in Manager,
         Silences(k, m), Silences(m, n)
  PROVE  Silences(k, n)
<1> SUFFICES ASSUME NEW i \in DOMAIN n.warnings, n.warnings[i].acknowledged
             PROVE  \E j \in DOMAIN k.warnings :
                      /\ k.warnings[j].id = n.warnings[i].id
                      /\ k.warnings[j].acknowledged
                      /\ Rank[k.warnings[j].severity] >= Rank[n.warnings[i].severity]
  BY DEF Silences
<1>1. PICK h \in DOMAIN m.warnings :
        /\ m.warnings[h].id = n.warnings[i].id
        /\ m.warnings[h].acknowledged
        /\ Rank[m.warnings[h].severity] >= Rank[n.warnings[i].severity]
  BY DEF Silences
<1>2. PICK j \in DOMAIN k.warnings :
        /\ k.warnings[j].id = m.warnings[h].id
        /\ k.warnings[j].acknowledged
        /\ Rank[k.warnings[j].severity] >= Rank[m.warnings[h].severity]
  BY <1>1 DEF Silences
<1>3. k.warnings[j] \in Warning /\ m.warnings[h] \in Warning /\ n.warnings[i] \in Warning
  BY DEF Manager
<1>4. /\ Rank[k.warnings[j].severity] \in Int /\ Rank[m.warnings[h].severity] \in Int
      /\ Rank[n.warnings[i].severity] \in Int
  BY <1>3, Ranks DEF Warning
<1> QED BY <1>1, <1>2, <1>4

(* The positions of the warnings that are pending. *)
LEMMA PendingIs ==
  ASSUME NEW list \in Seq(Warning)
  PROVE  /\ Pending(list) \in Seq(1 .. Len(list))
         /\ \A i \in 1 .. Len(Pending(list)) : ~list[Pending(list)[i]].acknowledged
<1> DEFINE all == [i \in DOMAIN list |-> i]
           open == {i \in DOMAIN list : ~list[i].acknowledged}
<1>1. all \in Seq(1 .. Len(list)) /\ Len(all) = Len(list) /\ \A i \in 1 .. Len(list) : all[i] = i
  OBVIOUS
<1>2. Pending(list) = Selected(all, open) BY DEF Pending
<1> DEFINE p == Selected(all, open)
<1> HIDE DEF all, open
<1>3. /\ p \in Seq(1 .. Len(list))
      /\ \A i \in 1 .. Len(p) : \E j \in 1 .. Len(all) : j \in open /\ p[i] = all[j]
  <2>1. Picks(1 .. Len(list), all, open, p) BY <1>1, SelectedIs
  <2> HIDE DEF p
  <2> QED BY <2>1 DEF Picks
<1> HIDE DEF p
<1>4. ASSUME NEW i \in 1 .. Len(p) PROVE ~list[p[i]].acknowledged
  <2>1. PICK j \in 1 .. Len(all) : j \in open /\ p[i] = all[j] BY <1>3
  <2>2. p[i] \in open BY <1>1, <2>1
  <2> QED BY <2>2 DEF open
<1> QED BY <1>2, <1>3, <1>4 DEF p

LEMMA CountIs ==
  ASSUME NEW list \in Seq(Warning)
  PROVE  Len(Pending(list)) \in Nat
BY PendingIs

LEMMA RaiseIs ==
  ASSUME NEW m \in Manager, NEW id \in Ids, NEW severity \in Severities
  PROVE  LET n == RaiseWarning(m, id, severity)
         IN  /\ n \in Manager
             /\ Holds(n.warnings, id) /\ Listed(n, id, severity)
             /\ \A other : other # id => Keeps(m, n, other)
             /\ Silences(m, n)
<1> DEFINE old == m.warnings
           new == [id |-> id, severity |-> severity, acknowledged |-> FALSE]
           n == RaiseWarning(m, id, severity)
           list == n.warnings
<1>1. /\ old \in Seq(Warning) /\ Len(old) \in Nat /\ DOMAIN old = 1 .. Len(old)
      /\ \A i \in DOMAIN old : old[i] \in Warning
  BY DEF Manager
<1>2. \A i \in DOMAIN old : /\ old[i].id \in Ids /\ old[i].severity \in Severities
                            /\ old[i].acknowledged \in BOOLEAN
                            /\ Rank[old[i].severity] \in Int
  BY <1>1, Ranks DEF Warning
<1>3. new \in Warning /\ Rank[severity] \in Int BY Ranks DEF Warning
<1>4. list = IF Holds(old, id)
             THEN [i \in DOMAIN old |->
                     IF old[i].id = id THEN Update(old[i], severity) ELSE old[i]]
             ELSE Append(old, new)
  BY DEF RaiseWarning
<1>5. n = [warnings |-> list, current |-> AtLeastZero(Len(Pending(list)) - 1)]
  BY DEF RaiseWarning
<1> HIDE DEF n
<1>6. CASE Holds(old, id)
  <2>1. list = [i \in DOMAIN old |->
                  IF old[i].id = id THEN Update(old[i], severity) ELSE old[i]]
    BY <1>4, <1>6
  <2>2. ASSUME NEW i \in DOMAIN old
        PROVE  /\ list[i] \in Warning /\ list[i].id = old[i].id
               /\ list[i].id # id => list[i] = old[i]
               /\ list[i].id = id => list[i].severity = severity
               /\ list[i].acknowledged => old[i].acknowledged
               /\ list[i].acknowledged => Rank[old[i].severity] >= Rank[list[i].severity]
    <3>1. old[i] \in Warning /\ Rank[old[i].severity] \in Int /\ old[i].acknowledged \in BOOLEAN
      BY <1>1, <1>2
    <3>2. CASE old[i].id = id
      <4>1. list[i] = [old[i] EXCEPT !.severity = severity,
                                     !.acknowledged = @ /\ Rank[severity] <= Rank[old[i].severity]]
        BY <2>1, <3>2 DEF Update
      <4>2. /\ list[i].id = old[i].id /\ list[i].severity = severity
            /\ list[i].acknowledged <=>
                 old[i].acknowledged /\ Rank[severity] <= Rank[old[i].severity]
            /\ list[i] \in Warning
        BY <3>1, <4>1 DEF Warning
      <4> QED BY <1>3, <3>1, <3>2, <4>2
    <3>3. CASE old[i].id # id
      <4>1. list[i] = old[i] BY <2>1, <3>3
      <4> QED BY <3>1, <3>3, <4>1
    <3> QED BY <3>2, <3>3
  <2>3. list \in Seq(Warning) /\ DOMAIN list = DOMAIN old
    <3>1. DOMAIN list = DOMAIN old BY <2>1
    <3>2. list \in [1 .. Len(old) -> Warning] BY <1>1, <2>1, <2>2
    <3> QED BY <1>1, <3>1, <3>2
  <2> HIDE DEF list, old
  <2>4. Holds(list, id) BY <1>6, <2>2, <2>3 DEF Holds
  <2>5. Listed(n, id, severity)
    <3>1. PICK i \in DOMAIN old : old[i].id = id BY <1>6 DEF Holds
    <3>2. list[i].id = id /\ list[i].severity = severity BY <2>2, <3>1
    <3> QED BY <2>3, <3>2 DEF Listed, list
  <2>6. ASSUME NEW other, other # id PROVE Keeps(m, n, other)
    <3>1. \A i \in DOMAIN old : list[i].id = other <=> old[i].id = other BY <2>2
    <3>2. \A i \in DOMAIN old : list[i].id = other => list[i] = old[i] BY <2>2, <2>6
    <3>3. Holds(list, other) <=> Holds(old, other) BY <2>3, <3>1 DEF Holds
    <3>4. \A sev \in Severities :
            (\E i \in DOMAIN old : old[i].id = other /\ old[i].severity = sev)
              <=> (\E i \in DOMAIN list : list[i].id = other /\ list[i].severity = sev)
      BY <2>3, <3>1, <3>2
    <3> QED BY <3>3, <3>4 DEF Keeps, Listed, list, old
  <2>7. Silences(m, n)
    <3>1. \A i \in DOMAIN list : list[i].acknowledged =>
            /\ i \in DOMAIN old /\ old[i].id = list[i].id /\ old[i].acknowledged
            /\ Rank[old[i].severity] >= Rank[list[i].severity]
      BY <2>2, <2>3
    <3> QED BY <3>1 DEF Silences, list, old
  <2>8. AtLeastZero(Len(Pending(list)) - 1) \in Int BY <2>3, CountIs DEF AtLeastZero
  <2>9. n \in Manager BY <1>5, <2>3, <2>8 DEF Manager
  <2> QED BY <2>4, <2>5, <2>6, <2>7, <2>9 DEF n, list
<1>7. CASE ~Holds(old, id)
  <2>1. list = Append(old, new) BY <1>4, <1>7
  <2>2. /\ list \in Seq(Warning) /\ Len(list) = Len(old) + 1 /\ DOMAIN list = 1 .. Len(old) + 1
        /\ \A i \in DOMAIN old : list[i] = old[i] /\ i \in DOMAIN list
        /\ list[Len(old) + 1] = new /\ Len(old) + 1 \in DOMAIN list
        /\ \A i \in DOMAIN list : i # Len(old) + 1 => i \in DOMAIN old
    BY <1>1, <1>3, <2>1
  <2>3. new.id = id /\ new.severity = severity /\ new.acknowledged = FALSE OBVIOUS
  <2> HIDE DEF list, old, new
  <2>4. Holds(list, id) BY <2>2, <2>3 DEF Holds
  <2>5. Listed(n, id, severity) BY <2>2, <2>3 DEF Listed, list
  <2>6. ASSUME NEW other, other # id PROVE Keeps(m, n, other)
    <3>1. \A i \in DOMAIN list : list[i].id = other => i \in DOMAIN old BY <2>2, <2>3, <2>6
    <3>2. Holds(list, other) <=> Holds(old, other) BY <2>2, <3>1 DEF Holds
    <3>3. \A sev \in Severities :
            (\E i \in DOMAIN old : old[i].id = other /\ old[i].severity = sev)
              <=> (\E i \in DOMAIN list : list[i].id = other /\ list[i].severity = sev)
      BY <2>2, <3>1
    <3> QED BY <3>2, <3>3 DEF Keeps, Listed, list, old
  <2>7. Silences(m, n)
    <3>1. \A i \in DOMAIN list : list[i].acknowledged =>
            i \in DOMAIN old /\ list[i] = old[i]
      BY <2>2, <2>3
    <3>2. \A i \in DOMAIN old : Rank[old[i].severity] >= Rank[old[i].severity] BY <1>2
    <3>3. \A i \in DOMAIN list : list[i].acknowledged =>
            /\ i \in DOMAIN old /\ old[i].id = list[i].id /\ old[i].acknowledged
            /\ Rank[old[i].severity] >= Rank[list[i].severity]
      BY <3>1, <3>2
    <3> QED BY <3>3 DEF Silences, list, old
  <2>8. AtLeastZero(Len(Pending(list)) - 1) \in Int BY <2>2, CountIs DEF AtLeastZero
  <2>9. n \in Manager BY <1>5, <2>2, <2>8 DEF Manager
  <2> QED BY <2>4, <2>5, <2>6, <2>7, <2>9 DEF n, list
<1> QED BY <1>6, <1>7

LEMMA ClearIs ==
  ASSUME NEW m \in Manager, NEW id
  PROVE  LET n == ClearWarning(m, id)
         IN  /\ n \in Manager
             /\ ~Holds(n.warnings, id)
             /\ \A other : other # id => Keeps(m, n, other)
             /\ Silences(m, n)
<1> DEFINE old == m.warnings
           others == {k \in DOMAIN old : old[k].id # id}
           list == Selected(old, others)
           n == ClearWarning(m, id)
<1>1. /\ old \in Seq(Warning) /\ Len(old) \in Nat /\ DOMAIN old = 1 .. Len(old)
      /\ \A i \in DOMAIN old : old[i] \in Warning
      /\ m.current \in Int
  BY DEF Manager
<1>2. \A i \in DOMAIN old : Rank[old[i].severity] \in Int
  BY <1>1, Ranks DEF Warning
<1>3. CASE ~Holds(old, id)
  <2>1. n = m BY <1>3 DEF ClearWarning
  <2>2. \A other : Keeps(m, m, other) BY DEF Keeps
  <2> QED BY <1>3, <2>1, <2>2, SilencesNothing
<1>4. CASE Holds(old, id)
  <2>1. n = [warnings |-> list,
             current |-> AtLeastZero(UpTo(Len(Pending(list)) - 1, m.current))]
    BY <1>4 DEF ClearWarning
  <2>2. /\ list \in Seq(Warning)
        /\ \A i \in 1 .. Len(list) :
             \E j \in 1 .. Len(old) :
               j \in others /\ list[i] = old[j]
        /\ \A j \in 1 .. Len(old) :
             j \in others => \E i \in 1 .. Len(list) : list[i] = old[j]
    <3>1. old \in Seq(Warning) BY <1>1
    <3> HIDE DEF others, old
    <3>2. Picks(Warning, old, others, list) BY <3>1, SelectedIs
    <3> HIDE DEF list
    <3> QED BY <3>2 DEF Picks
  <2>3. DOMAIN list = 1 .. Len(list) BY <2>2
  <2> HIDE DEF list, n, old
  <2>4. \A i \in DOMAIN list : \E j \in DOMAIN old : old[j].id # id /\ list[i] = old[j]
    BY <1>1, <2>2, <2>3
  <2>5. \A j \in DOMAIN old : old[j].id # id => \E i \in DOMAIN list : list[i] = old[j]
    BY <1>1, <2>2, <2>3
  <2>6. n.warnings = list BY <2>1
  <2>7. ~Holds(list, id) BY <2>4 DEF Holds
  <2>8. ASSUME NEW other, other # id PROVE Keeps(m, n, other)
    <3>1. Holds(list, other) <=> Holds(old, other) BY <2>4, <2>5, <2>8 DEF Holds
    <3>2. \A sev \in Severities :
            (\E i \in DOMAIN old : old[i].id = other /\ old[i].severity = sev)
              <=> (\E i \in DOMAIN list : list[i].id = other /\ list[i].severity = sev)
      BY <2>4, <2>5, <2>8
    <3> QED BY <2>6, <3>1, <3>2 DEF Keeps, Listed, old
  <2>9. Silences(m, n)
    <3>1. \A i \in DOMAIN old : Rank[old[i].severity] >= Rank[old[i].severity] BY <1>2
    <3>2. \A i \in DOMAIN list : list[i].acknowledged =>
            \E j \in DOMAIN old :
              /\ old[j].id = list[i].id /\ old[j].acknowledged
              /\ Rank[old[j].severity] >= Rank[list[i].severity]
      BY <2>4, <3>1
    <3> QED BY <2>6, <3>2 DEF Silences, old
  <2>10. AtLeastZero(UpTo(Len(Pending(list)) - 1, m.current)) \in Int
    <3>1. Len(Pending(list)) \in Nat BY <2>2, CountIs
    <3> QED BY <1>1, <3>1 DEF AtLeastZero, UpTo
  <2>11. n \in Manager BY <2>1, <2>2, <2>10 DEF Manager
  <2> QED BY <2>6, <2>7, <2>8, <2>9, <2>11 DEF n
<1> QED BY <1>3, <1>4
(* Only what is shown is acknowledged. *)
LEMMA AcknowledgeIs ==
  ASSUME NEW m \in Manager, OverlayVisible(m)
  PROVE  LET n == AcknowledgeCurrent(m)
         IN  /\ n \in Manager
             /\ \A id : Keeps(m, n, id)
             /\ \A i \in DOMAIN n.warnings :
                  \/ i \in DOMAIN m.warnings /\ n.warnings[i] = m.warnings[i]
                  \/ Shown(m) = [n.warnings[i] EXCEPT !.acknowledged = FALSE]
<1> DEFINE old == m.warnings
           pending == Pending(old)
           at == pending[PendingIndex(m) + 1]
           list == [old EXCEPT ![at].acknowledged = TRUE]
           n == AcknowledgeCurrent(m)
<1>1. /\ old \in Seq(Warning) /\ Len(old) \in Nat /\ DOMAIN old = 1 .. Len(old)
      /\ \A i \in DOMAIN old : old[i] \in Warning
      /\ m.current \in Int
  BY DEF Manager
<1>2. /\ pending \in Seq(1 .. Len(old))
      /\ \A i \in 1 .. Len(pending) : ~old[pending[i]].acknowledged
  <2>1. old \in Seq(Warning) BY <1>1
  <2> HIDE DEF old
  <2> QED BY <2>1, PendingIs
<1>3. pending # <<>> BY DEF OverlayVisible
<1>4. Shown(m) = old[at] BY DEF Shown
<1>5. n = [warnings |-> list,
           current |-> AtLeastZero(UpTo(Len(Pending(list)) - 1, PendingIndex(m)))]
  BY DEF AcknowledgeCurrent
<1>6. PendingIndex(m) = AtLeastZero(UpTo(Len(pending) - 1, m.current)) BY DEF PendingIndex
<1>7. PendingIndex(m) \in Int /\ PendingIndex(m) + 1 \in 1 .. Len(pending)
  <2>1. Len(pending) \in Nat \ {0} BY <1>2, <1>3
  <2> QED BY <1>1, <1>6, <2>1 DEF AtLeastZero, UpTo
<1>8. at \in DOMAIN old /\ ~old[at].acknowledged
  <2> HIDE DEF pending, old
  <2> QED BY <1>1, <1>2, <1>7
<1>9. /\ list \in Seq(Warning) /\ DOMAIN list = DOMAIN old
      /\ \A i \in DOMAIN old : list[i].id = old[i].id /\ list[i].severity = old[i].severity
      /\ \A i \in DOMAIN old : i # at => list[i] = old[i]
      /\ old[at] = [list[at] EXCEPT !.acknowledged = FALSE]
  <2> HIDE DEF at, old
  <2>1. list = [i \in DOMAIN old |->
                  IF i = at THEN [old[at] EXCEPT !.acknowledged = TRUE] ELSE old[i]]
    BY <1>8
  <2>2. /\ [old[at] EXCEPT !.acknowledged = TRUE] \in Warning
        /\ old[at] = [[old[at] EXCEPT !.acknowledged = TRUE] EXCEPT !.acknowledged = FALSE]
    <3>1. old[at] \in Warning /\ old[at].acknowledged = FALSE BY <1>1, <1>8 DEF Warning
    <3> QED BY <3>1 DEF Warning
  <2>3. DOMAIN list = DOMAIN old /\ list \in [1 .. Len(old) -> Warning] BY <1>1, <2>1, <2>2
  <2>4. list \in Seq(Warning) BY <1>1, <2>3
  <2>5. list[at] = [old[at] EXCEPT !.acknowledged = TRUE] BY <1>8, <2>1
  <2>6. old[at] = [list[at] EXCEPT !.acknowledged = FALSE] BY <2>2, <2>5
  <2>7. \A i \in DOMAIN old : i # at => list[i] = old[i] BY <2>1
  <2>8. list[at].id = old[at].id /\ list[at].severity = old[at].severity
    <3>1. old[at] \in Warning BY <1>1, <1>8
    <3> QED BY <2>5, <3>1 DEF Warning
  <2>9. \A i \in DOMAIN old : list[i].id = old[i].id /\ list[i].severity = old[i].severity
    BY <2>7, <2>8
  <2> QED BY <2>3, <2>4, <2>6, <2>7, <2>9
<1>10. n.warnings = list BY <1>5
<1> HIDE DEF list, n, at, pending, old
<1>11. n \in Manager
  <2>1. Len(Pending(list)) \in Nat BY <1>9, CountIs
  <2>2. AtLeastZero(UpTo(Len(Pending(list)) - 1, PendingIndex(m))) \in Int
    BY <1>7, <2>1 DEF AtLeastZero, UpTo
  <2> QED BY <1>5, <1>9, <2>2 DEF Manager
<1>12. ASSUME NEW id PROVE Keeps(m, n, id)
  <2>1. Holds(list, id) <=> Holds(old, id) BY <1>9 DEF Holds
  <2>2. \A sev \in Severities :
          (\E i \in DOMAIN old : old[i].id = id /\ old[i].severity = sev)
            <=> (\E i \in DOMAIN list : list[i].id = id /\ list[i].severity = sev)
    BY <1>9
  <2> QED BY <1>10, <2>1, <2>2 DEF Keeps, Listed, old
<1>13. \A i \in DOMAIN list : \/ i \in DOMAIN old /\ list[i] = old[i]
                              \/ old[at] = [list[i] EXCEPT !.acknowledged = FALSE]
  BY <1>9
<1> QED BY <1>4, <1>10, <1>11, <1>12, <1>13 DEF n, old

LEMMA MoveIs ==
  ASSUME NEW m \in Manager, NEW delta \in Int
  PROVE  MoveCurrent(m, delta) \in Manager /\ MoveCurrent(m, delta).warnings = m.warnings
<1> DEFINE count == Len(Pending(m.warnings))
<1>1. m.warnings \in Seq(Warning) /\ m.current \in Int BY DEF Manager
<1>2. count \in Nat BY <1>1, CountIs
<1> HIDE DEF count
<1>3. CASE count < 2
  <2>1. MoveCurrent(m, delta) = m BY <1>3 DEF MoveCurrent, count
  <2> QED BY <2>1
<1>4. CASE ~(count < 2)
  <2>1. MoveCurrent(m, delta) = [m EXCEPT !.current = (@ + delta + count) % count]
    BY <1>4 DEF MoveCurrent, count
  <2>2. (m.current + delta + count) % count \in Int BY <1>1, <1>2, <1>4
  <2> QED BY <1>1, <2>1, <2>2 DEF Manager
<1> QED BY <1>3, <1>4

(* What a step may silence. *)
SilencedStep(m, n) ==
  \A i \in DOMAIN n.warnings :
    LET warning == n.warnings[i]
    IN  warning.acknowledged =>
          \/ \E j \in DOMAIN m.warnings :
               /\ m.warnings[j].id = warning.id
               /\ m.warnings[j].acknowledged
               /\ Rank[m.warnings[j].severity] >= Rank[warning.severity]
          \/ /\ OverlayVisible(m)
             /\ Shown(m) = [warning EXCEPT !.acknowledged = FALSE]

LEMMA ActionIs ==
  ASSUME manager \in Manager, NEW action \in Actions, HandleAction(action)
  PROVE  /\ manager' \in Manager
         /\ \A id : Keeps(manager, manager', id)
         /\ SilencedStep(manager, manager')
<1>1. OverlayVisible(manager) BY DEF HandleAction
<1>2. \A i \in DOMAIN manager.warnings :
        Rank[manager.warnings[i].severity] >= Rank[manager.warnings[i].severity]
  <2>1. \A i \in DOMAIN manager.warnings : manager.warnings[i] \in Warning BY DEF Manager
  <2>2. \A i \in DOMAIN manager.warnings : Rank[manager.warnings[i].severity] \in Int
    BY <2>1, Ranks DEF Warning
  <2> QED BY <2>2
<1>3. CASE action = "activate"
  <2> DEFINE n == AcknowledgeCurrent(manager)
  <2>1. manager' = n BY <1>3 DEF HandleAction
  <2>2. /\ n \in Manager
        /\ \A id : Keeps(manager, n, id)
        /\ \A i \in DOMAIN n.warnings :
             \/ i \in DOMAIN manager.warnings /\ n.warnings[i] = manager.warnings[i]
             \/ Shown(manager) = [n.warnings[i] EXCEPT !.acknowledged = FALSE]
    BY <1>1, AcknowledgeIs
  <2> HIDE DEF n
  <2>3. SilencedStep(manager, n) BY <1>1, <1>2, <2>2 DEF SilencedStep
  <2> QED BY <2>1, <2>2, <2>3
<1>4. CASE action # "activate"
  <2>1. manager' \in Manager /\ manager'.warnings = manager.warnings
    <3>1. CASE action = "up"
      <4>1. manager' = MoveCurrent(manager, -1) BY <3>1 DEF HandleAction
      <4> QED BY <4>1, MoveIs
    <3>2. CASE action = "down"
      <4>1. manager' = MoveCurrent(manager, 1) BY <3>2 DEF HandleAction
      <4> QED BY <4>1, MoveIs
    <3>3. CASE action = "menu"
      <4>1. manager' = manager BY <3>3 DEF HandleAction
      <4> QED BY <4>1
    <3> QED BY <1>4, <3>1, <3>2, <3>3 DEF Actions
  <2>2. SilencedStep(manager, manager') BY <1>2, <2>1 DEF SilencedStep
  <2> QED BY <2>1, <2>2 DEF Keeps, Listed
<1> QED BY <1>3, <1>4
-----------------------------------------------------------------------------
(* The invariant *)

Ages == Never .. MaxAge
Levels == Normal .. Critical
States == [current : Levels, kind : Kinds, candidate : Levels, candidateKind : Kinds,
           since : Ages]
Freshnesses == [active : BOOLEAN, candidateStale : BOOLEAN, since : Ages, enabled : Ages]
Samples == [value : Values \cup {NotReceived.value}, valid : BOOLEAN, age : Ages]

WarningsTypeOK ==
  /\ presentation \in Presentations
  /\ manager \in Manager /\ latest \in Samples /\ state \in States
  /\ freshness \in Freshnesses
  /\ DOMAIN config.resolved \subseteq DOMAIN Rules
  /\ due \in BOOLEAN /\ breach \in [WarningKinds -> Ages] /\ calm \in Ages

(* What the list holds of a level and of a freshness. *)
ThresholdListed(m, st) ==
  /\ Holds(m.warnings, "threshold") <=> st.current # Normal
  /\ st.current # Normal =>
       Listed(m, "threshold", IF st.current = Critical THEN "critical" ELSE "warning")
FreshnessListed(m, fresh) ==
  /\ Holds(m.warnings, "freshness") <=> fresh.active
  /\ fresh.active => Listed(m, "freshness", StaleSeverity)

KindHasRule(st) == st.current # Normal => st.kind \in DOMAIN Rules

(* While the value stays beyond a warning limit, the candidate is at least *)
(* as old.                                                                 *)
Pressing(since, st) ==
  \A kind \in WarningKinds \cap DOMAIN Rules :
    since[kind] # Never =>
      \/ st.current = Critical
      \/ st.candidate = Critical /\ st.candidateKind = kind /\ st.since >= since[kind]

(* While the signal is silent, the candidate is as old as the silence is   *)
(* longer than its limit; a tick is ahead of the evaluation.               *)
Falling(silence, fresh, ahead) ==
  silence > StaleAfter + ahead =>
    \/ fresh.active
    \/ fresh.candidateStale /\ fresh.since >= silence - (StaleAfter + 1)

Raised(since, st) ==
  \A kind \in WarningKinds \cap DOMAIN Rules :
    since[kind] >= Rules[kind].activationDelay => st.current = Critical
Noticed(silence, fresh) == silence > StaleAfter + StaleDelay => fresh.active

(* While the warning is being taken back, it has been calm for as long.    *)
Calming(since, st) ==
  st.current # Normal /\ st.candidate = Normal /\ st.since # Never => since >= st.since

WarningsInv ==
  /\ WarningsTypeOK
  /\ ThresholdListed(manager, state) /\ FreshnessListed(manager, freshness)
  /\ KindHasRule(state)
  /\ Pressing(breach, state)
  /\ presentation.freshness =>
       Falling(Silence(freshness, latest), freshness, IF due THEN 1 ELSE 0)
  /\ ~due => /\ Raised(breach, state)
             /\ presentation.freshness => Noticed(Silence(freshness, latest), freshness)
  /\ Calming(calm, state)

LEMMA Numbers ==
  /\ MaxAge \in Nat /\ StaleAfter \in Nat /\ StaleDelay \in Nat /\ FreshDelay \in Nat
  /\ MaxAge > StaleAfter + StaleDelay
  /\ \A kind \in DOMAIN Rules :
       Rules[kind].activationDelay \in Nat /\ Rules[kind].clearDelay \in Nat
  /\ DOMAIN Rules \subseteq Kinds
  /\ Never = -1 /\ Normal = 0 /\ Caution = 1 /\ Critical = 2
  /\ Ages = -1 .. MaxAge /\ Levels = 0 .. 2
<1>1. {StaleAfter, StaleDelay, FreshDelay, SourceStale, MaxAge} \subseteq Nat
  BY WarningsAssumption
<1>2. MaxAge > StaleAfter + StaleDelay BY WarningsAssumption
<1>3. \A kind \in DOMAIN Rules :
        Rules[kind].activationDelay \in Nat /\ Rules[kind].clearDelay \in Nat
  BY WarningsAssumption DEF Rule
<1>4. DOMAIN Rules \subseteq Kinds BY WarningsAssumption
<1> QED BY <1>1, <1>2, <1>3, <1>4 DEF Never, Normal, Caution, Critical, Ages, Levels

-----------------------------------------------------------------------------
(* The threshold *)

(* Of limits that are exceeded, a low one is used. *)
LEMMA LowFirstIs ==
  ASSUME NEW kinds \in SUBSET Kinds, kinds # {}
  PROVE  /\ LowFirst(kinds) \in kinds
         /\ \A kind \in WarningKinds :
              kind \in kinds /\ kinds \subseteq WarningKinds
                /\ (kind = "high_warning" => "low_warning" \notin kinds)
              => LowFirst(kinds) = kind
<1>1. CASE kinds \cap LowKinds # {}
  <2>1. LowFirst(kinds) = CHOOSE kind \in kinds : kind \in LowKinds BY <1>1 DEF LowFirst
  <2>2. LowFirst(kinds) \in kinds /\ LowFirst(kinds) \in LowKinds BY <1>1, <2>1
  <2> QED BY <2>2 DEF LowKinds, WarningKinds
<1>2. CASE kinds \cap LowKinds = {}
  <2>1. LowFirst(kinds) = CHOOSE kind \in kinds : TRUE BY <1>2 DEF LowFirst
  <2>2. LowFirst(kinds) \in kinds BY <2>1
  <2> QED BY <1>2, <2>2 DEF LowKinds, WarningKinds
<1> QED BY <1>1, <1>2

(* Beyond this warning limit, and not also too low. *)
Leads(resolved, kind, value) ==
  /\ Breached(resolved, kind, value, 0)
  /\ kind = "high_warning" => ~Breached(resolved, "low_warning", value, 0)

LEMMA DesiredIs ==
  ASSUME NEW resolved, DOMAIN resolved \subseteq DOMAIN Rules, NEW st \in States, NEW value
  PROVE  LET desired == Desired(resolved, st, value)
         IN  /\ desired.level \in Levels /\ desired.kind \in Kinds
             /\ desired.level # Normal => desired.kind \in DOMAIN Rules
             /\ desired.level = Normal /\ st.current # Normal =>
                  ~Breached(resolved, st.kind, value, Rules[st.kind].hysteresis)
             /\ \A kind \in WarningKinds :
                  Leads(resolved, kind, value) =>
                    desired.level = Critical /\ desired.kind = kind
<1> DEFINE beyond == {kind \in Kinds : Breached(resolved, kind, value, 0)}
           worst == beyond \cap WarningKinds
           held == /\ st.current # Normal
                   /\ Breached(resolved, st.kind, value, Rules[st.kind].hysteresis)
           desired == Desired(resolved, st, value)
<1>1. desired = IF worst # {} THEN [level |-> Critical, kind |-> LowFirst(worst)]
                ELSE IF held THEN [level |-> st.current, kind |-> st.kind]
                ELSE IF beyond # {} THEN [level |-> Caution, kind |-> LowFirst(beyond)]
                ELSE [level |-> Normal, kind |-> "high_caution"]
  BY DEF Desired
<1>2. \A kind, slack : Breached(resolved, kind, value, slack) => kind \in DOMAIN Rules
  BY DEF Breached
<1>3. beyond \in SUBSET Kinds /\ worst \in SUBSET Kinds /\ worst \subseteq WarningKinds
      /\ beyond \subseteq DOMAIN Rules
  BY <1>2
<1>4. ASSUME NEW kind \in WarningKinds, Leads(resolved, kind, value)
      PROVE  worst # {} /\ LowFirst(worst) = kind
  <2>1. kind \in worst BY <1>4 DEF Leads, WarningKinds, Kinds, LowKinds, HighKinds
  <2>2. kind = "high_warning" => "low_warning" \notin worst BY <1>4 DEF Leads
  <2> HIDE DEF worst
  <2> QED BY <1>3, <2>1, <2>2, LowFirstIs
<1>5. "high_caution" \in Kinds BY DEF Kinds, HighKinds
<1>6. st.current \in Levels /\ st.kind \in Kinds BY DEF States
<1>7. worst # {} => LowFirst(worst) \in worst
  <2> HIDE DEF worst
  <2> QED BY <1>3, LowFirstIs
<1>8. beyond # {} => LowFirst(beyond) \in beyond
  <2> HIDE DEF beyond
  <2> QED BY <1>3, LowFirstIs
<1>9. worst \subseteq beyond OBVIOUS
<1>10. held => st.kind \in DOMAIN Rules BY <1>2
<1> DEFINE calmly == ~Breached(resolved, st.kind, value, Rules[st.kind].hysteresis)
<1>11. st.current # Normal => (~held <=> calmly) OBVIOUS
<1> HIDE DEF beyond, worst, held, desired, calmly
<1>12. /\ desired.level \in Levels /\ desired.kind \in Kinds
       /\ desired.level # Normal => desired.kind \in DOMAIN Rules
       /\ desired.level = Normal /\ st.current # Normal => ~held
  BY <1>1, <1>3, <1>5, <1>6, <1>7, <1>8, <1>9, <1>10, Numbers
<1>13. \A kind \in WarningKinds :
         Leads(resolved, kind, value) => desired.level = Critical /\ desired.kind = kind
  BY <1>1, <1>4
<1> QED BY <1>11, <1>12, <1>13 DEF desired, calmly

LEMMA InLevelIs ==
  ASSUME NEW level \in Levels, NEW kind \in Kinds
  PROVE  /\ InLevel(level, kind) \in States
         /\ InLevel(level, kind).current = level /\ InLevel(level, kind).kind = kind
         /\ InLevel(level, kind).since = Never
<1>1. "high_caution" \in Kinds BY DEF Kinds, HighKinds
<1> QED BY <1>1, Numbers DEF InLevel, States

LEMMA CandidateIs ==
  ASSUME NEW st \in States, NEW desired, desired.level \in Levels, desired.kind \in Kinds
  PROVE  LET waiting == Candidate(st, desired)
         IN  /\ waiting \in States
             /\ waiting.current = st.current /\ waiting.kind = st.kind
             /\ waiting.candidate = desired.level /\ waiting.candidateKind = desired.kind
             /\ waiting.since # Never
             /\ \/ /\ waiting.since = 0
                   /\ \/ st.since = Never \/ st.candidate # desired.level
                      \/ st.candidateKind # desired.kind
                \/ /\ waiting.since = st.since
                   /\ st.candidate = desired.level /\ st.candidateKind = desired.kind
<1>1. CASE \/ st.since = Never
           \/ st.candidate # desired.level \/ st.candidateKind # desired.kind
  <2>1. Candidate(st, desired) =
          [st EXCEPT !.candidate = desired.level, !.candidateKind = desired.kind, !.since = 0]
    BY <1>1 DEF Candidate
  <2>2. 0 \in Ages /\ 0 # Never BY Numbers
  <2>3. Candidate(st, desired) \in States BY <2>1, <2>2 DEF States
  <2>4. /\ Candidate(st, desired).current = st.current
        /\ Candidate(st, desired).kind = st.kind
        /\ Candidate(st, desired).candidate = desired.level
        /\ Candidate(st, desired).candidateKind = desired.kind
        /\ Candidate(st, desired).since = 0
    BY <2>1 DEF States
  <2> QED BY <1>1, <2>2, <2>3, <2>4
<1>2. CASE ~(\/ st.since = Never
             \/ st.candidate # desired.level \/ st.candidateKind # desired.kind)
  <2>1. Candidate(st, desired) = st BY <1>2 DEF Candidate
  <2> QED BY <1>2, <2>1 DEF States
<1> QED BY <1>1, <1>2

LEMMA CommitIs ==
  ASSUME NEW m \in Manager, NEW level \in Levels, NEW st, st.current = level
  PROVE  LET n == Commit(m, level)
         IN  /\ n \in Manager /\ ThresholdListed(n, st)
             /\ Keeps(m, n, "freshness") /\ Silences(m, n)
<1>1. "threshold" \in Ids /\ "freshness" # "threshold" BY IdsAssumption
<1>2. CASE level = Normal
  <2>1. Commit(m, level) = ClearWarning(m, "threshold") BY <1>2 DEF Commit
  <2> QED BY <1>1, <1>2, <2>1, ClearIs DEF ThresholdListed
<1>3. CASE level # Normal
  <2> DEFINE severity == IF level = Critical THEN "critical" ELSE "warning"
  <2>1. Commit(m, level) = RaiseWarning(m, "threshold", severity) BY <1>3 DEF Commit
  <2>2. severity \in Severities BY Ranks
  <2> HIDE DEF severity
  <2>3. LET n == RaiseWarning(m, "threshold", severity)
        IN  /\ n \in Manager
            /\ Holds(n.warnings, "threshold") /\ Listed(n, "threshold", severity)
            /\ Keeps(m, n, "freshness")
            /\ Silences(m, n)
    BY <1>1, <2>2, RaiseIs
  <2> QED BY <1>3, <2>1, <2>3 DEF ThresholdListed, severity
<1> QED BY <1>2, <1>3
(* What an evaluation of the threshold does. *)
LEMMA ThresholdIs ==
  ASSUME state \in States, KindHasRule(state),
         NEW conf, DOMAIN conf.resolved \subseteq DOMAIN Rules, NEW lat,
         NEW m \in Manager, ThresholdListed(m, state)
  PROVE  LET r == EvaluateThreshold(lat, conf, m)
         IN  /\ r.state \in States /\ KindHasRule(r.state)
             /\ r.manager \in Manager /\ ThresholdListed(r.manager, r.state)
             /\ Keeps(m, r.manager, "freshness") /\ Silences(m, r.manager)
             /\ \A kind \in WarningKinds :
                  Leads(conf.resolved, kind, lat.value) =>
                    \/ r.state.current = Critical
                    \/ /\ r.state.candidate = Critical /\ r.state.candidateKind = kind
                       /\ kind \in DOMAIN Rules
                       /\ r.state.since # Never /\ r.state.since < Rules[kind].activationDelay
                       /\ state.current # Critical
                       /\ r.state.since = 0 \/ r.state.since = state.since
                       /\ state.since # Never /\ state.candidate = Critical
                            /\ state.candidateKind = kind
                          => r.state.since = state.since
             /\ r.state.current # Normal /\ r.state.candidate = Normal /\ r.state.since # Never =>
                  /\ r.state.current = state.current /\ r.state.kind = state.kind
                  /\ ~Breached(conf.resolved, state.kind, lat.value, Rules[state.kind].hysteresis)
                  /\ \/ r.state.since = 0
                     \/ state.candidate = Normal /\ r.state.since = state.since
             /\ state.current # Normal /\ r.state.current = Normal =>
                  \/ 0 >= Rules[state.kind].clearDelay
                  \/ /\ state.candidate = Normal /\ state.since # Never
                     /\ state.since >= Rules[state.kind].clearDelay
<1> DEFINE desired == Desired(conf.resolved, state, lat.value)
           waiting == Candidate(state, desired)
           delay == Delay(state, desired)
           r == EvaluateThreshold(lat, conf, m)
<1>1. /\ desired.level \in Levels /\ desired.kind \in Kinds
      /\ desired.level # Normal => desired.kind \in DOMAIN Rules
      /\ desired.level = Normal /\ state.current # Normal =>
           ~Breached(conf.resolved, state.kind, lat.value, Rules[state.kind].hysteresis)
      /\ \A kind \in WarningKinds :
           Leads(conf.resolved, kind, lat.value) =>
             desired.level = Critical /\ desired.kind = kind
  BY DesiredIs
<1>2. /\ r = IF /\ desired.level = state.current
                /\ desired.level = Normal \/ desired.kind = state.kind
             THEN [state |-> InLevel(state.current, state.kind), manager |-> m]
             ELSE IF waiting.since >= delay
             THEN [state |-> InLevel(desired.level, desired.kind),
                   manager |-> Commit(m, desired.level)]
             ELSE [state |-> waiting, manager |-> m]
  BY DEF EvaluateThreshold
<1>3. /\ waiting \in States
      /\ waiting.current = state.current /\ waiting.kind = state.kind
      /\ waiting.candidate = desired.level /\ waiting.candidateKind = desired.kind
      /\ waiting.since # Never
      /\ \/ /\ waiting.since = 0
            /\ \/ state.since = Never \/ state.candidate # desired.level
               \/ state.candidateKind # desired.kind
         \/ /\ waiting.since = state.since
            /\ state.candidate = desired.level /\ state.candidateKind = desired.kind
  <2> HIDE DEF desired
  <2> QED BY <1>1, CandidateIs
<1>4. delay = IF desired.level > state.current THEN Rules[desired.kind].activationDelay
              ELSE IF state.current # Normal THEN Rules[state.kind].clearDelay ELSE 0
  BY DEF Delay
<1>5. /\ state.current \in Levels /\ state.kind \in Kinds /\ state.since \in Ages
      /\ waiting.since \in Ages
  BY <1>3 DEF States
<1>6. Keeps(m, m, "freshness") /\ Silences(m, m) BY SilencesNothing DEF Keeps
<1> HIDE DEF desired, waiting, delay, r
<1>7. CASE desired.level = state.current /\ (desired.level = Normal \/ desired.kind = state.kind)
  <2> DEFINE st == InLevel(state.current, state.kind)
  <2>1. r = [state |-> st, manager |-> m] BY <1>2, <1>7
  <2>2. st \in States /\ st.current = state.current /\ st.kind = state.kind /\ st.since = Never
    BY <1>5, InLevelIs
  <2> HIDE DEF st
  <2>3. r.state = st /\ r.manager = m BY <2>1
  <2>4. KindHasRule(st) /\ ThresholdListed(m, st) BY <2>2 DEF KindHasRule, ThresholdListed
  <2>5. \A kind \in WarningKinds : Leads(conf.resolved, kind, lat.value) => st.current = Critical
    BY <1>1, <1>7, <2>2
  <2> QED BY <1>6, <2>2, <2>3, <2>4, <2>5 DEF r
<1>8. CASE /\ ~(desired.level = state.current /\ (desired.level = Normal \/ desired.kind = state.kind))
           /\ waiting.since >= delay
  <2> DEFINE st == InLevel(desired.level, desired.kind)
             n == Commit(m, desired.level)
  <2>1. r = [state |-> st, manager |-> n] BY <1>2, <1>8
  <2>2. /\ st \in States /\ st.current = desired.level /\ st.kind = desired.kind
        /\ st.since = Never
    BY <1>1, InLevelIs
  <2> HIDE DEF st
  <2>3. /\ n \in Manager /\ ThresholdListed(n, st)
        /\ Keeps(m, n, "freshness") /\ Silences(m, n)
    BY <1>1, <2>2, CommitIs
  <2> HIDE DEF n
  <2>4. r.state = st /\ r.manager = n BY <2>1
  <2>5. KindHasRule(st) BY <1>1, <2>2 DEF KindHasRule
  <2>6. \A kind \in WarningKinds : Leads(conf.resolved, kind, lat.value) => st.current = Critical
    BY <1>1, <2>2
  <2>7. state.current # Normal /\ st.current = Normal =>
          \/ 0 >= Rules[state.kind].clearDelay
          \/ /\ state.candidate = Normal /\ state.since # Never
             /\ state.since >= Rules[state.kind].clearDelay
    <3> SUFFICES ASSUME state.current # Normal, st.current = Normal
                 PROVE  \/ 0 >= Rules[state.kind].clearDelay
                        \/ /\ state.candidate = Normal /\ state.since # Never
                           /\ state.since >= Rules[state.kind].clearDelay
      OBVIOUS
    <3>0. desired.level = Normal BY <2>2
    <3>1. desired.level = Normal /\ ~(desired.level > state.current)
      <4>1. state.current \in 0 .. 2 /\ desired.level = 0 BY <1>5, <3>0, Numbers
      <4> QED BY <3>0, <4>1
    <3>2. delay = Rules[state.kind].clearDelay BY <1>4, <3>1
    <3> QED BY <1>3, <1>8, <3>1, <3>2
  <2> QED BY <2>2, <2>3, <2>4, <2>5, <2>6, <2>7 DEF r
<1>9. CASE /\ ~(desired.level = state.current /\ (desired.level = Normal \/ desired.kind = state.kind))
           /\ ~(waiting.since >= delay)
  <2>1. r.state = waiting /\ r.manager = m BY <1>2, <1>9
  <2>2. KindHasRule(waiting) /\ ThresholdListed(m, waiting)
    BY <1>3 DEF KindHasRule, ThresholdListed
  <2>3. ASSUME NEW kind \in WarningKinds, Leads(conf.resolved, kind, lat.value),
               waiting.current # Critical
        PROVE  /\ waiting.candidate = Critical /\ waiting.candidateKind = kind
               /\ kind \in DOMAIN Rules
               /\ waiting.since # Never /\ waiting.since < Rules[kind].activationDelay
               /\ state.current # Critical
               /\ waiting.since = 0 \/ waiting.since = state.since
               /\ state.since # Never /\ state.candidate = Critical
                    /\ state.candidateKind = kind
                  => waiting.since = state.since
    <3>1. desired.level = Critical /\ desired.kind = kind BY <1>1, <2>3
    <3>2. kind \in DOMAIN Rules BY <1>1, <3>1, Numbers
    <3>3. desired.level > state.current BY <1>3, <1>5, <2>3, <3>1, Numbers
    <3>4. delay = Rules[kind].activationDelay BY <1>4, <3>1, <3>3
    <3>5. waiting.since < delay BY <1>5, <1>9, <3>2, <3>4, Numbers
    <3> QED BY <1>3, <2>3, <3>1, <3>2, <3>4, <3>5
  <2>4. waiting.current # Normal /\ waiting.candidate = Normal /\ waiting.since # Never =>
          /\ waiting.current = state.current /\ waiting.kind = state.kind
          /\ ~Breached(conf.resolved, state.kind, lat.value, Rules[state.kind].hysteresis)
          /\ \/ waiting.since = 0
             \/ state.candidate = Normal /\ waiting.since = state.since
    BY <1>1, <1>3
  <2> QED BY <1>3, <1>6, <2>1, <2>2, <2>3, <2>4 DEF r
<1> QED BY <1>7, <1>8, <1>9
-----------------------------------------------------------------------------
(* The freshness *)

(* What an evaluation of the freshness does. *)
LEMMA FreshnessIs ==
  ASSUME manager \in Manager, NEW fresh \in Freshnesses, FreshnessListed(manager, fresh), NEW lat
  PROVE  LET r == EvaluateFreshness(fresh, lat)
             silence == Silence(fresh, lat)
         IN  /\ r.freshness \in Freshnesses /\ r.freshness.enabled = fresh.enabled
             /\ r.manager \in Manager /\ FreshnessListed(r.manager, r.freshness)
             /\ Keeps(manager, r.manager, "threshold") /\ Silences(manager, r.manager)
             /\ presentation.freshness /\ silence > StaleAfter =>
                  \/ r.freshness.active
                  \/ /\ ~fresh.active /\ r.freshness.candidateStale
                     /\ r.freshness.since < StaleDelay
                     /\ r.freshness.since # Never
                     /\ \/ r.freshness.since = fresh.since
                        \/ r.freshness.since = 0 /\ (fresh.since = Never \/ ~fresh.candidateStale)
<1> DEFINE silence == Silence(fresh, lat)
           stale == silence > StaleAfter
           waiting == IF fresh.since = Never \/ fresh.candidateStale # stale
                      THEN [fresh EXCEPT !.candidateStale = stale, !.since = 0]
                      ELSE fresh
           delay == IF stale THEN StaleDelay ELSE FreshDelay
           n == IF stale THEN RaiseWarning(manager, "freshness", StaleSeverity)
                ELSE ClearWarning(manager, "freshness")
           r == EvaluateFreshness(fresh, lat)
<1>0. CASE ~presentation.freshness
  <2>1. r = [freshness |-> fresh, manager |-> manager] BY <1>0 DEF EvaluateFreshness
  <2>2. r.freshness = fresh /\ r.manager = manager BY <2>1
  <2>3. Keeps(manager, manager, "threshold") /\ Silences(manager, manager)
    BY SilencesNothing DEF Keeps
  <2> HIDE DEF r
  <2> QED BY <1>0, <2>2, <2>3 DEF r
<1> SUFFICES ASSUME presentation.freshness
             PROVE  /\ r.freshness \in Freshnesses /\ r.freshness.enabled = fresh.enabled
                    /\ r.manager \in Manager /\ FreshnessListed(r.manager, r.freshness)
                    /\ Keeps(manager, r.manager, "threshold")
                    /\ Silences(manager, r.manager)
                    /\ silence > StaleAfter =>
                         \/ r.freshness.active
                         \/ /\ ~fresh.active /\ r.freshness.candidateStale
                            /\ r.freshness.since < StaleDelay
                            /\ r.freshness.since # Never
                            /\ \/ r.freshness.since = fresh.since
                               \/ /\ r.freshness.since = 0
                                  /\ fresh.since = Never \/ ~fresh.candidateStale
  BY <1>0
<1>1. r = IF stale = fresh.active
          THEN [freshness |-> Fresh(stale, fresh.enabled), manager |-> manager]
          ELSE IF waiting.since < delay THEN [freshness |-> waiting, manager |-> manager]
          ELSE [freshness |-> Fresh(stale, fresh.enabled), manager |-> n]
  BY DEF EvaluateFreshness
<1>2. stale \in BOOLEAN OBVIOUS
<1>3. fresh.active \in BOOLEAN /\ fresh.candidateStale \in BOOLEAN /\ fresh.since \in Ages
      /\ fresh.enabled \in Ages
  BY DEF Freshnesses
<1>4. 0 \in Ages /\ Never \in Ages /\ 0 # Never BY Numbers
<1>5. /\ waiting \in Freshnesses /\ waiting.active = fresh.active
      /\ waiting.enabled = fresh.enabled /\ waiting.candidateStale = stale
      /\ waiting.since # Never
      /\ \/ waiting.since = fresh.since
         \/ waiting.since = 0 /\ (fresh.since = Never \/ fresh.candidateStale # stale)
  <2> HIDE DEF stale
  <2>1. CASE fresh.since = Never \/ fresh.candidateStale # stale
    <3>1. waiting = [fresh EXCEPT !.candidateStale = stale, !.since = 0] BY <2>1
    <3> QED BY <1>2, <1>4, <2>1, <3>1 DEF Freshnesses
  <2>2. CASE ~(fresh.since = Never \/ fresh.candidateStale # stale)
    <3>1. waiting = fresh BY <2>2
    <3> QED BY <2>2, <3>1
  <2> QED BY <2>1, <2>2
<1> DEFINE new == Fresh(stale, fresh.enabled)
<1>6. new \in Freshnesses /\ new.active = stale /\ new.enabled = fresh.enabled
  <2> HIDE DEF stale
  <2> QED BY <1>2, <1>3, <1>4 DEF Fresh, Freshnesses
<1>7. Keeps(manager, manager, "threshold") /\ Silences(manager, manager)
  BY SilencesNothing DEF Keeps
<1>8. /\ n \in Manager
      /\ Holds(n.warnings, "freshness") <=> stale
      /\ stale => Listed(n, "freshness", StaleSeverity)
      /\ Keeps(manager, n, "threshold") /\ Silences(manager, n)
  <2>1. "freshness" \in Ids /\ "freshness" # "threshold" /\ StaleSeverity \in Severities
    BY IdsAssumption, WarningsAssumption
  <2> HIDE DEF stale
  <2>2. CASE stale
    <3>1. n = RaiseWarning(manager, "freshness", StaleSeverity) BY <2>2
    <3> HIDE DEF n
    <3> QED BY <2>1, <2>2, <3>1, RaiseIs
  <2>3. CASE ~stale
    <3>1. n = ClearWarning(manager, "freshness") BY <2>3
    <3> HIDE DEF n
    <3> QED BY <2>1, <2>3, <3>1, ClearIs
  <2> QED BY <2>2, <2>3
<1>9. waiting.since \in Ages /\ (stale => delay = StaleDelay) BY <1>5 DEF Freshnesses
<1> HIDE DEF waiting, n, new, r, delay
<1>10. CASE stale = fresh.active
  <2>1. r.freshness = new /\ r.manager = manager BY <1>1, <1>10 DEF new
  <2> HIDE DEF stale
  <2>2. FreshnessListed(manager, new) BY <1>6, <1>10 DEF FreshnessListed
  <2>3. stale => r.freshness.active BY <1>6, <2>1
  <2> QED BY <1>6, <1>7, <2>1, <2>2, <2>3 DEF r, stale
<1>11. CASE stale # fresh.active /\ waiting.since < delay
  <2>1. r.freshness = waiting /\ r.manager = manager BY <1>1, <1>11
  <2> HIDE DEF stale
  <2>2. FreshnessListed(manager, waiting) BY <1>5 DEF FreshnessListed
  <2>3. stale => /\ ~fresh.active /\ waiting.candidateStale
                 /\ waiting.since < StaleDelay /\ waiting.since # Never
                 /\ \/ waiting.since = fresh.since
                    \/ waiting.since = 0 /\ (fresh.since = Never \/ ~fresh.candidateStale)
    BY <1>2, <1>3, <1>5, <1>9, <1>11
  <2> QED BY <1>5, <1>7, <2>1, <2>2, <2>3 DEF r, stale
<1>12. CASE stale # fresh.active /\ ~(waiting.since < delay)
  <2>1. r.freshness = new /\ r.manager = n BY <1>1, <1>12 DEF new
  <2> HIDE DEF stale
  <2>2. FreshnessListed(n, new) BY <1>6, <1>8 DEF FreshnessListed
  <2>3. stale => r.freshness.active BY <1>6, <2>1
  <2> QED BY <1>6, <1>8, <2>1, <2>2, <2>3 DEF r, stale
<1> QED BY <1>10, <1>11, <1>12
-----------------------------------------------------------------------------
(* Evaluations *)

(* A warning that is taken back. *)
ClearedStep ==
  state.current # Normal /\ state'.current = Normal /\ config'.enabled
    => AtLeastZero(calm) >= Rules[state.kind].clearDelay

LEMMA NothingIs ==
  /\ NoState \in States /\ NoState.current = Normal /\ NoState.since = Never
  /\ NoFreshness \in Freshnesses /\ NoFreshness.active = FALSE /\ NoFreshness.enabled = Never
  /\ NotReceived \in Samples /\ NotReceived.valid = FALSE /\ NotReceived.age = Never
<1>1. Normal \in Levels /\ "high_caution" \in Kinds /\ Never \in Ages
  BY Numbers DEF Kinds, HighKinds
<1>2. NoState \in States /\ NoState.current = Normal /\ NoState.since = Never
  BY <1>1, InLevelIs DEF NoState
<1>3. NoFreshness \in Freshnesses /\ NoFreshness.active = FALSE /\ NoFreshness.enabled = Never
  BY <1>1 DEF NoFreshness, Fresh, Freshnesses
<1>4. NotReceived \in Samples /\ NotReceived.valid = FALSE /\ NotReceived.age = Never
  BY <1>1 DEF NotReceived, Samples
<1> QED BY <1>2, <1>3, <1>4

LEMMA WithdrawIs ==
  ASSUME NEW m \in Manager
  PROVE  /\ Withdraw(m) \in Manager /\ Silences(m, Withdraw(m))
         /\ ~Holds(Withdraw(m).warnings, "threshold")
         /\ ~Holds(Withdraw(m).warnings, "freshness")
<1> DEFINE k == ClearWarning(m, "threshold")
           n == ClearWarning(k, "freshness")
<1>1. /\ k \in Manager /\ ~Holds(k.warnings, "threshold") /\ Silences(m, k)
  BY ClearIs
<1> HIDE DEF k
<1>2. /\ n \in Manager /\ ~Holds(n.warnings, "freshness") /\ Silences(k, n)
      /\ \A other : other # "freshness" => Keeps(k, n, other)
  BY <1>1, ClearIs
<1>3. Keeps(k, n, "threshold") BY <1>2
<1>4. Withdraw(m) = n BY DEF Withdraw, k
<1> HIDE DEF n
<1>5. ~Holds(n.warnings, "threshold") BY <1>1, <1>3 DEF Keeps
<1>6. Silences(m, n) BY <1>1, <1>2, SilencesAfter
<1> QED BY <1>2, <1>4, <1>5, <1>6

(* Withdrawing the warnings. *)
LEMMA WithdrawKeeps ==
  ASSUME WarningsInv, NEW lat \in Samples, NEW conf,
         DOMAIN conf.resolved \subseteq DOMAIN Rules, ~conf.enabled,
         config' = conf, presentation' = presentation, due' \in BOOLEAN,
         EvaluateSignal(lat, conf), Observe
  PROVE  WarningsInv' /\ Silences(manager, manager') /\ ClearedStep
<1>1. /\ manager' = Withdraw(manager)
      /\ latest' = IF presentation.freshness THEN NotReceived ELSE lat
      /\ state' = NoState /\ freshness' = NoFreshness
  BY DEF EvaluateSignal
<1>2. manager \in Manager /\ presentation \in Presentations BY DEF WarningsInv, WarningsTypeOK
<1>3. /\ manager' \in Manager /\ Silences(manager, manager')
      /\ ~Holds(manager'.warnings, "threshold") /\ ~Holds(manager'.warnings, "freshness")
  BY <1>1, <1>2, WithdrawIs
<1>4. \A kind : ~Counts(latest', config', kind) BY DEF Counts
<1>5. breach' = [kind \in WarningKinds |-> Never] BY <1>4 DEF Observe
<1>6. calm' = Never BY <1>1, NothingIs DEF Observe, Calm
<1>7. Never \in Ages BY Numbers
<1>8. WarningsTypeOK' BY <1>1, <1>2, <1>3, <1>5, <1>6, <1>7, NothingIs DEF WarningsTypeOK
<1>9. ThresholdListed(manager', state') /\ FreshnessListed(manager', freshness')
  BY <1>1, <1>3, NothingIs DEF ThresholdListed, FreshnessListed
<1>10. KindHasRule(state') /\ Pressing(breach', state') /\ Calming(calm', state')
  BY <1>1, <1>5, NothingIs DEF KindHasRule, Pressing, Calming
<1>11. Raised(breach', state')
  <2>1. \A kind \in WarningKinds \cap DOMAIN Rules :
          ~(breach'[kind] >= Rules[kind].activationDelay)
    BY <1>5, Numbers
  <2> QED BY <2>1 DEF Raised
<1>12. presentation.freshness => Silence(freshness', latest') = -1
  BY <1>1, NothingIs, Numbers DEF Silence
<1>13. presentation'.freshness =>
         /\ Noticed(Silence(freshness', latest'), freshness')
         /\ Falling(Silence(freshness', latest'), freshness', IF due' THEN 1 ELSE 0)
  BY <1>12, Numbers DEF Noticed, Falling
<1>14. ClearedStep BY DEF ClearedStep
<1> QED BY <1>3, <1>8, <1>9, <1>10, <1>11, <1>13, <1>14 DEF WarningsInv

LEMMA AgesGrow ==
  /\ \A age \in Ages : AtLeastZero(age) \in Ages /\ AtLeastZero(age) # Never
                       /\ AtLeastZero(age) >= age
                       /\ (age # Never => AtLeastZero(age) = age)
                       /\ (age = Never => AtLeastZero(age) = 0)
  /\ Never \in Ages /\ 0 \in Ages
BY Numbers DEF AtLeastZero

(* Evaluating the signal. *)
LEMMA EvaluationKeeps ==
  ASSUME WarningsInv, NEW lat \in Samples, lat = latest \/ lat.age = 0, NEW conf,
         DOMAIN conf.resolved \subseteq DOMAIN Rules, conf.enabled,
         config' = conf, presentation' = presentation, due' \in BOOLEAN,
         EvaluateSignal(lat, conf), Observe
  PROVE  WarningsInv' /\ Silences(manager, manager') /\ ClearedStep
<1> DEFINE known == IF presentation.freshness /\ freshness.enabled = Never
                    THEN NotReceived ELSE lat
           fresh == IF freshness.enabled = Never THEN [freshness EXCEPT !.enabled = 0]
                    ELSE freshness
           first == EvaluateFreshness(fresh, known)
           second == EvaluateThreshold(known, conf, first.manager)
           silence == Silence(fresh, known)
<1>1. /\ latest' = known /\ freshness' = first.freshness
      /\ state' = IF known.valid THEN second.state ELSE state
      /\ manager' = IF known.valid THEN second.manager ELSE first.manager
  BY DEF EvaluateSignal
<1>2. /\ presentation \in Presentations
      /\ manager \in Manager /\ latest \in Samples /\ state \in States
      /\ freshness \in Freshnesses /\ breach \in [WarningKinds -> Ages] /\ calm \in Ages
      /\ ThresholdListed(manager, state) /\ FreshnessListed(manager, freshness)
      /\ KindHasRule(state) /\ Pressing(breach, state) /\ Calming(calm, state)
      /\ presentation.freshness =>
           Falling(Silence(freshness, latest), freshness, IF due THEN 1 ELSE 0)
  BY DEF WarningsInv, WarningsTypeOK
<1>3. known \in Samples /\ known.valid \in BOOLEAN BY NothingIs DEF Samples
<1>4. /\ fresh \in Freshnesses /\ fresh.active = freshness.active
      /\ fresh.candidateStale = freshness.candidateStale /\ fresh.since = freshness.since
      /\ FreshnessListed(manager, fresh)
  <2>1. CASE freshness.enabled = Never
    <3>1. fresh = [freshness EXCEPT !.enabled = 0] BY <2>1
    <3> QED BY <1>2, <3>1, AgesGrow DEF Freshnesses, FreshnessListed
  <2>2. CASE freshness.enabled # Never
    <3>1. fresh = freshness BY <2>2
    <3> QED BY <1>2, <3>1
  <2> QED BY <2>1, <2>2
<1>5. presentation.freshness =>
        silence \in Ages /\ (silence = 0 \/ silence = Silence(freshness, latest))
  <2> SUFFICES ASSUME presentation.freshness
               PROVE  silence \in Ages /\ (silence = 0 \/ silence = Silence(freshness, latest))
    OBVIOUS
  <2>1. CASE freshness.enabled = Never
    <3>1. known = NotReceived /\ fresh = [freshness EXCEPT !.enabled = 0] BY <2>1
    <3>2. fresh.enabled = 0 BY <1>2, <3>1 DEF Freshnesses
    <3>3. silence = 0 BY <3>1, <3>2, NothingIs DEF Silence
    <3> QED BY <3>3, AgesGrow
  <2>2. CASE freshness.enabled # Never
    <3>1. known = lat /\ fresh = freshness BY <2>2
    <3>2. CASE lat = latest
      <4>1. silence = Silence(freshness, latest) BY <3>1, <3>2
      <4> QED BY <1>2, <4>1 DEF Silence, Samples, Freshnesses
    <3>3. CASE lat.age = 0
      <4>1. silence = 0 BY <3>1, <3>3, Numbers DEF Silence
      <4> QED BY <4>1, AgesGrow
    <3> QED BY <3>2, <3>3
  <2> QED BY <2>1, <2>2
<1> HIDE DEF known, fresh
<1>6. /\ first.freshness \in Freshnesses /\ first.freshness.enabled = fresh.enabled
      /\ first.manager \in Manager /\ FreshnessListed(first.manager, first.freshness)
      /\ Keeps(manager, first.manager, "threshold") /\ Silences(manager, first.manager)
      /\ presentation.freshness /\ silence > StaleAfter =>
           \/ first.freshness.active
           \/ /\ ~fresh.active /\ first.freshness.candidateStale
              /\ first.freshness.since < StaleDelay /\ first.freshness.since # Never
              /\ \/ first.freshness.since = fresh.since
                 \/ first.freshness.since = 0 /\ (fresh.since = Never \/ ~fresh.candidateStale)
  BY <1>2, <1>4, FreshnessIs
<1> HIDE DEF first
<1>7. Silence(freshness', latest') = silence BY <1>1, <1>6 DEF Silence
<1> HIDE DEF silence
<1>8. ThresholdListed(first.manager, state)
  <2>1. {"critical", "warning"} \subseteq Severities BY Ranks
  <2> QED BY <1>2, <1>6, <2>1 DEF Keeps, ThresholdListed
<1>9. presentation.freshness =>
        Falling(silence, freshness', 0) /\ Noticed(silence, freshness')
  <2> SUFFICES ASSUME presentation.freshness
               PROVE  Falling(silence, freshness', 0) /\ Noticed(silence, freshness')
    OBVIOUS
  <2> DEFINE old == freshness new == first.freshness
  <2>1. /\ new.since \in Ages /\ old.since \in Ages
        /\ silence \in Ages /\ Falling(silence, old, 1)
    <3>1. Falling(0, old, 1) BY Numbers DEF Falling
    <3>2. Falling(Silence(old, latest), old, 1)
      <4>1. Silence(old, latest) \in Ages BY <1>2 DEF Silence, Samples, Freshnesses
      <4>2. Falling(Silence(old, latest), old, IF due THEN 1 ELSE 0) BY <1>2
      <4> QED BY <4>1, <4>2, Numbers DEF Falling
    <3> QED BY <1>2, <1>5, <1>6, <3>1, <3>2 DEF Freshnesses
  <2>2. /\ fresh.active = old.active /\ fresh.candidateStale = old.candidateStale
        /\ fresh.since = old.since
    BY <1>4
  <2> HIDE DEF old, new
  <2>3. silence > StaleAfter =>
           \/ new.active
           \/ /\ ~old.active /\ new.candidateStale /\ new.since < StaleDelay
              /\ new.since # Never
              /\ \/ new.since = old.since
                 \/ new.since = 0 /\ (old.since = Never \/ ~old.candidateStale)
    BY <1>6, <2>2 DEF new
  <2>4. silence > StaleAfter + 1 =>
          old.active \/ (old.candidateStale /\ old.since >= silence - (StaleAfter + 1))
    BY <2>1 DEF Falling
  <2>5. ASSUME silence > StaleAfter, ~new.active
        PROVE  /\ new.candidateStale /\ new.since >= silence - (StaleAfter + 1)
               /\ silence <= StaleAfter + StaleDelay
    <3>1. /\ ~old.active /\ new.candidateStale /\ new.since < StaleDelay
          /\ new.since # Never
          /\ \/ new.since = old.since
             \/ new.since = 0 /\ (old.since = Never \/ ~old.candidateStale)
      BY <2>3, <2>5
    <3>2. silence \in Int /\ new.since \in Int /\ old.since \in Int /\ StaleAfter \in Nat
          /\ StaleDelay \in Nat /\ Never = -1 /\ old.since >= -1 /\ new.since >= -1
      BY <2>1, Numbers
    <3>3. CASE silence > StaleAfter + 1
      <4>1. old.candidateStale /\ old.since >= silence - (StaleAfter + 1)
        BY <2>4, <3>1, <3>3
      <4>2. old.since # Never BY <3>2, <3>3, <4>1
      <4>3. new.since = old.since BY <3>1, <4>1, <4>2
      <4> QED BY <3>1, <3>2, <4>1, <4>3
    <3>4. CASE ~(silence > StaleAfter + 1)
      <4>1. silence = StaleAfter + 1 BY <2>5, <3>2, <3>4
      <4>2. new.since >= 0 BY <3>1, <3>2
      <4> QED BY <3>1, <3>2, <4>1, <4>2
    <3> QED BY <3>3, <3>4
  <2>6. silence \in Int /\ StaleAfter \in Nat /\ StaleDelay \in Nat BY <2>1, Numbers
  <2>7. Falling(silence, new, 0) BY <2>5, <2>6 DEF Falling
  <2>8. Noticed(silence, new) BY <2>5, <2>6 DEF Noticed
  <2> QED BY <1>1, <2>7, <2>8 DEF new
<1>10. config' = conf /\ \A kind \in WarningKinds :
         Counts(latest', config', kind) <=>
           conf.enabled /\ known.valid /\ Leads(conf.resolved, kind, known.value)
  BY <1>1 DEF Counts, Leads
<1>11. breach' = [kind \in WarningKinds |->
          IF Counts(latest', config', kind) THEN AtLeastZero(breach[kind]) ELSE Never]
  BY DEF Observe
<1>12. breach' \in [WarningKinds -> Ages] BY <1>2, <1>11, AgesGrow
<1>13. calm' = IF ~Calm(latest', config', state') THEN Never
               ELSE IF state'.kind = state.kind THEN AtLeastZero(calm) ELSE 0
  BY DEF Observe
<1>14. calm' \in Ages BY <1>2, <1>13, AgesGrow
<1>15. SUFFICES /\ manager' \in Manager /\ Silences(manager, manager') /\ state' \in States
                /\ ThresholdListed(manager', state') /\ FreshnessListed(manager', freshness')
                /\ KindHasRule(state') /\ Pressing(breach', state') /\ Raised(breach', state')
                /\ Calming(calm', state') /\ ClearedStep
  <2>1. WarningsTypeOK' BY <1>1, <1>2, <1>3, <1>6, <1>10, <1>12, <1>14, <1>15 DEF WarningsTypeOK
  <2>2. presentation.freshness => Falling(silence, freshness', IF due' THEN 1 ELSE 0)
    <3> SUFFICES ASSUME presentation.freshness
                 PROVE  Falling(silence, freshness', IF due' THEN 1 ELSE 0)
      OBVIOUS
    <3>1. silence \in Int /\ StaleAfter \in Int BY <1>5, Numbers
    <3> QED BY <1>9, <3>1 DEF Falling
  <2> QED BY <1>7, <1>9, <1>15, <2>1, <2>2 DEF WarningsInv
<1>16. CASE ~known.valid
  <2>1. state' = state /\ manager' = first.manager BY <1>1, <1>16
  <2>2. breach' = [kind \in WarningKinds |-> Never] BY <1>10, <1>11, <1>16
  <2>3. Pressing(breach', state') BY <2>2 DEF Pressing
  <2>4. Raised(breach', state')
    <3>1. \A kind \in WarningKinds \cap DOMAIN Rules :
            ~(breach'[kind] >= Rules[kind].activationDelay)
      BY <2>2, Numbers
    <3> QED BY <3>1 DEF Raised
  <2>5. Calming(calm', state')
    <3> SUFFICES ASSUME state.current # Normal, state.candidate = Normal, state.since # Never
                 PROVE  calm' >= state.since
      BY <2>1 DEF Calming
    <3>1. calm' = AtLeastZero(calm) BY <1>1, <1>13, <1>16, <2>1 DEF Calm
    <3>2. calm >= state.since BY <1>2 DEF Calming
    <3>3. state.since \in Ages BY <1>2 DEF States
    <3> QED BY <1>2, <3>1, <3>2, <3>3, Numbers DEF AtLeastZero
  <2>6. ClearedStep BY <2>1 DEF ClearedStep
  <2>7. FreshnessListed(manager', freshness') BY <1>1, <1>6, <2>1
  <2> QED BY <1>2, <1>6, <1>8, <2>1, <2>3, <2>4, <2>5, <2>6, <2>7
<1>17. CASE known.valid
  <2>1. state' = second.state /\ manager' = second.manager BY <1>1, <1>17
  <2>2. /\ second.state \in States /\ KindHasRule(second.state)
        /\ second.manager \in Manager /\ ThresholdListed(second.manager, second.state)
        /\ Keeps(first.manager, second.manager, "freshness")
        /\ Silences(first.manager, second.manager)
        /\ \A kind \in WarningKinds :
             Leads(conf.resolved, kind, known.value) =>
               \/ second.state.current = Critical
               \/ /\ second.state.candidate = Critical /\ second.state.candidateKind = kind
                  /\ kind \in DOMAIN Rules
                  /\ second.state.since # Never
                  /\ second.state.since < Rules[kind].activationDelay
                  /\ state.current # Critical
                  /\ second.state.since = 0 \/ second.state.since = state.since
                  /\ state.since # Never /\ state.candidate = Critical
                       /\ state.candidateKind = kind
                     => second.state.since = state.since
        /\ second.state.current # Normal /\ second.state.candidate = Normal
             /\ second.state.since # Never =>
             /\ second.state.current = state.current /\ second.state.kind = state.kind
             /\ ~Breached(conf.resolved, state.kind, known.value, Rules[state.kind].hysteresis)
             /\ \/ second.state.since = 0
                \/ state.candidate = Normal /\ second.state.since = state.since
        /\ state.current # Normal /\ second.state.current = Normal =>
             \/ 0 >= Rules[state.kind].clearDelay
             \/ /\ state.candidate = Normal /\ state.since # Never
                /\ state.since >= Rules[state.kind].clearDelay
    BY <1>2, <1>6, <1>8, ThresholdIs
  <2> DEFINE st == second.state n == second.manager
  <2> HIDE DEF st, n, second
  <2>3. Silences(manager, n) BY <1>2, <1>6, <2>2, SilencesAfter DEF n
  <2>4. FreshnessListed(n, freshness')
    <3>1. StaleSeverity \in Severities BY WarningsAssumption
    <3> QED BY <1>1, <1>6, <2>2, <3>1 DEF Keeps, FreshnessListed, n
  <2>5. ASSUME NEW kind \in WarningKinds \cap DOMAIN Rules, breach'[kind] # Never,
               st.current # Critical
        PROVE  /\ st.candidate = Critical /\ st.candidateKind = kind
               /\ st.since >= breach'[kind]
               /\ ~(breach'[kind] >= Rules[kind].activationDelay)
    <3>1. Leads(conf.resolved, kind, known.value) /\ breach'[kind] = AtLeastZero(breach[kind])
      BY <1>10, <1>11, <2>5
    <3>2. /\ st.candidate = Critical /\ st.candidateKind = kind
          /\ st.since # Never /\ st.since < Rules[kind].activationDelay
          /\ state.current # Critical
          /\ st.since = 0 \/ st.since = state.since
          /\ state.since # Never /\ state.candidate = Critical /\ state.candidateKind = kind
                => st.since = state.since
      BY <2>2, <2>5, <3>1 DEF st
    <3>3. /\ state.since \in Ages /\ st.since \in Ages /\ breach[kind] \in Ages
          /\ Rules[kind].activationDelay \in Nat
      BY <1>2, <2>2, Numbers DEF States, st
    <3>4. breach[kind] # Never =>
            state.candidate = Critical /\ state.candidateKind = kind
              /\ state.since >= breach[kind]
      BY <1>2, <3>2 DEF Pressing
    <3>5. CASE breach[kind] = Never
      <4>1. breach'[kind] = 0 BY <3>1, <3>5, AgesGrow
      <4>2. st.since >= 0 BY <2>2, <3>2, <3>3, <4>1, Numbers
      <4> QED BY <3>2, <3>3, <4>1, <4>2, Numbers
    <3>6. CASE breach[kind] # Never
      <4>1. breach'[kind] = breach[kind] BY <3>1, <3>3, <3>6, AgesGrow
      <4>2. state.since # Never BY <3>3, <3>4, <3>6, Numbers
      <4>3. st.since = state.since BY <3>2, <3>4, <3>6, <4>2
      <4> QED BY <3>2, <3>3, <3>4, <3>6, <4>1, <4>3, Numbers
    <3> QED BY <3>5, <3>6
  <2>6. Pressing(breach', st) BY <2>5 DEF Pressing
  <2>7. Raised(breach', st)
    <3>1. ASSUME NEW kind \in WarningKinds \cap DOMAIN Rules,
                 breach'[kind] >= Rules[kind].activationDelay
          PROVE  st.current = Critical
      <4>1. breach'[kind] # Never BY <3>1, Numbers
      <4> QED BY <2>5, <3>1, <4>1
    <3> QED BY <3>1 DEF Raised
  <2>8. Calming(calm', st)
    <3> SUFFICES ASSUME st.current # Normal, st.candidate = Normal, st.since # Never
                 PROVE  calm' >= st.since
      BY DEF Calming
    <3>1. /\ st.current = state.current /\ st.kind = state.kind
          /\ ~Breached(conf.resolved, state.kind, known.value, Rules[state.kind].hysteresis)
          /\ st.since = 0 \/ (state.candidate = Normal /\ st.since = state.since)
      BY <2>2 DEF st
    <3>2. calm' = AtLeastZero(calm)
      BY <1>1, <1>10, <1>13, <2>1, <3>1 DEF Calm, st
    <3>3. st.since = 0 \/ calm >= st.since BY <1>2, <3>1 DEF Calming
    <3>4. calm \in Ages /\ st.since \in Ages BY <1>2, <2>2 DEF States, st
    <3> QED BY <3>2, <3>3, <3>4, Numbers DEF AtLeastZero
  <2>9. ClearedStep
    <3> SUFFICES ASSUME state.current # Normal, st.current = Normal
                 PROVE  AtLeastZero(calm) >= Rules[state.kind].clearDelay
      BY <2>1 DEF ClearedStep, st
    <3>1. state.kind \in DOMAIN Rules BY <1>2 DEF KindHasRule
    <3>2. Rules[state.kind].clearDelay \in Nat BY <3>1, Numbers
    <3>3. AtLeastZero(calm) \in Nat /\ AtLeastZero(calm) >= calm /\ calm \in Int
      BY <1>2, Numbers DEF AtLeastZero
    <3>4. CASE 0 >= Rules[state.kind].clearDelay BY <3>2, <3>3, <3>4
    <3>5. CASE /\ state.candidate = Normal /\ state.since # Never
               /\ state.since >= Rules[state.kind].clearDelay
      <4>1. calm >= state.since BY <1>2, <3>5 DEF Calming
      <4>2. state.since \in Int BY <1>2, Numbers DEF States
      <4> QED BY <3>2, <3>3, <3>5, <4>1, <4>2
    <3> QED BY <2>2, <3>4, <3>5 DEF st
  <2> QED BY <2>1, <2>2, <2>3, <2>4, <2>6, <2>7, <2>8, <2>9 DEF st, n
<1> QED BY <1>16, <1>17
-----------------------------------------------------------------------------
(* The steps *)

LEMMA RecomputeIs ==
  ASSUME NEW dyn
  PROVE  DOMAIN Recompute(dyn).resolved \subseteq DOMAIN Rules
BY DEF Recompute, Resolvable

LEMMA NothingNewSilenced ==
  ASSUME NEW m, NEW n, Silences(m, n)
  PROVE  SilencedStep(m, n)
BY DEF Silences, SilencedStep

(* Whatever comes, the signal is evaluated. *)
LEMMA SignalKeeps ==
  ASSUME WarningsInv, NEW lat \in Samples, lat = latest \/ lat.age = 0, NEW conf,
         DOMAIN conf.resolved \subseteq DOMAIN Rules, config' = conf,
         presentation' = presentation, due' \in BOOLEAN,
         EvaluateSignal(lat, conf), Observe
  PROVE  WarningsInv' /\ SilencedStep(manager, manager') /\ ClearedStep
<1>1. CASE conf.enabled BY <1>1, EvaluationKeeps, NothingNewSilenced
<1>2. CASE ~conf.enabled BY <1>2, WithdrawKeeps, NothingNewSilenced
<1> QED BY <1>1, <1>2

LEMMA TimerKeeps ==
  ASSUME WarningsInv, EvaluationTimer
  PROVE  WarningsInv' /\ SilencedStep(manager, manager') /\ ClearedStep
<1>1. /\ due' \in BOOLEAN /\ config' = config /\ presentation' = presentation
      /\ EvaluateSignal(latest, config) /\ Observe
  BY DEF EvaluationTimer
<1>2. latest \in Samples /\ DOMAIN config.resolved \subseteq DOMAIN Rules
  BY DEF WarningsInv, WarningsTypeOK
<1> QED BY <1>1, <1>2, SignalKeeps

LEMMA SamplesKeep ==
  ASSUME WarningsInv, NEW lat \in Samples, lat = latest \/ lat.age = 0,
         NEW dyn, NEW conf, DOMAIN conf.resolved \subseteq DOMAIN Rules,
         SamplesAvailable(lat, dyn, conf)
  PROVE  WarningsInv' /\ SilencedStep(manager, manager') /\ ClearedStep
<1>1. /\ due' = due /\ config' = conf /\ presentation' = presentation
      /\ EvaluateSignal(lat, conf) /\ Observe
  BY DEF SamplesAvailable
<1>2. due' \in BOOLEAN BY <1>1 DEF WarningsInv, WarningsTypeOK
<1> QED BY <1>1, <1>2, SignalKeeps

LEMMA OlderIs ==
  ASSUME NEW age \in Ages
  PROVE  /\ Older(age) \in Ages /\ (Older(age) = Never <=> age = Never)
         /\ Older(age) <= age + 1
         /\ age # Never => Older(age) = IF age = MaxAge THEN MaxAge ELSE age + 1
BY Numbers DEF Older, UpTo

LEMMA TickKeeps ==
  ASSUME WarningsInv, Tick
  PROVE  WarningsInv' /\ SilencedStep(manager, manager') /\ ClearedStep
<1>1. /\ due = FALSE /\ due' = TRUE
      /\ latest' = [latest EXCEPT !.age = Older(@)]
      /\ state' = [state EXCEPT !.since = Older(@)]
      /\ freshness' = [freshness EXCEPT !.since = Older(@), !.enabled = Older(@)]
      /\ breach' = [kind \in WarningKinds |-> Older(breach[kind])] /\ calm' = Older(calm)
      /\ manager' = manager /\ config' = config /\ presentation' = presentation
  <2>1. ~due /\ due \in BOOLEAN BY DEF Tick, WarningsInv, WarningsTypeOK
  <2> QED BY <2>1 DEF Tick
<1>2. WarningsTypeOK BY DEF WarningsInv
<1>3. /\ latest' \in Samples /\ latest'.age = Older(latest.age) /\ latest.age \in Ages
  <2>1. latest \in Samples /\ latest.age \in Ages BY <1>2 DEF WarningsTypeOK, Samples
  <2>2. Older(latest.age) \in Ages BY <2>1, OlderIs
  <2> QED BY <1>1, <2>1, <2>2 DEF Samples
<1>4. /\ state' \in States /\ state.since \in Ages /\ state'.since = Older(state.since)
      /\ state'.current = state.current /\ state'.kind = state.kind
      /\ state'.candidate = state.candidate /\ state'.candidateKind = state.candidateKind
  <2>1. state \in States /\ state.since \in Ages BY <1>2 DEF WarningsTypeOK, States
  <2>2. Older(state.since) \in Ages BY <2>1, OlderIs
  <2> QED BY <1>1, <2>1, <2>2 DEF States
<1>5. /\ freshness' \in Freshnesses /\ freshness.since \in Ages /\ freshness.enabled \in Ages
      /\ freshness'.since = Older(freshness.since)
      /\ freshness'.enabled = Older(freshness.enabled)
      /\ freshness'.active = freshness.active
      /\ freshness'.candidateStale = freshness.candidateStale
  <2>1. /\ freshness \in Freshnesses /\ freshness.since \in Ages /\ freshness.enabled \in Ages
    BY <1>2 DEF WarningsTypeOK, Freshnesses
  <2>2. Older(freshness.since) \in Ages /\ Older(freshness.enabled) \in Ages BY <2>1, OlderIs
  <2> QED BY <1>1, <2>1, <2>2 DEF Freshnesses
<1>6. breach' \in [WarningKinds -> Ages] /\ calm' \in Ages /\ calm \in Ages
      /\ \A kind \in WarningKinds : breach[kind] \in Ages
  BY <1>1, <1>2, OlderIs DEF WarningsTypeOK
<1>7. WarningsTypeOK' BY <1>1, <1>2, <1>3, <1>4, <1>5, <1>6 DEF WarningsTypeOK
<1>8. /\ ThresholdListed(manager', state') /\ FreshnessListed(manager', freshness')
      /\ KindHasRule(state')
  BY <1>1, <1>4, <1>5
  DEF WarningsInv, ThresholdListed, FreshnessListed, KindHasRule
<1>9. Pressing(breach', state')
  <2> SUFFICES ASSUME NEW kind \in WarningKinds \cap DOMAIN Rules, breach'[kind] # Never,
                      state'.current # Critical
               PROVE  /\ state'.candidate = Critical /\ state'.candidateKind = kind
                      /\ state'.since >= breach'[kind]
    BY DEF Pressing
  <2>1. breach'[kind] = Older(breach[kind]) /\ breach[kind] \in Ages BY <1>1, <1>6
  <2>2. breach[kind] # Never BY <2>1, OlderIs
  <2>3. /\ state.candidate = Critical /\ state.candidateKind = kind
        /\ state.since >= breach[kind]
    BY <1>4, <2>2 DEF WarningsInv, Pressing
  <2>4. state'.since >= breach'[kind]
    <3>1. state.since # Never BY <1>4, <2>1, <2>2, <2>3, Numbers
    <3>2. /\ state'.since = IF state.since = MaxAge THEN MaxAge ELSE state.since + 1
          /\ breach'[kind] = IF breach[kind] = MaxAge THEN MaxAge ELSE breach[kind] + 1
      BY <1>4, <2>1, <2>2, <3>1, OlderIs
    <3>3. state.since \in -1 .. MaxAge /\ breach[kind] \in -1 .. MaxAge /\ MaxAge \in Nat
      BY <1>4, <2>1, Numbers
    <3> QED BY <2>3, <3>2, <3>3
  <2> QED BY <1>4, <2>3, <2>4
<1>10. presentation.freshness => Falling(Silence(freshness', latest'), freshness', 1)
  <2> SUFFICES ASSUME presentation.freshness
               PROVE  Falling(Silence(freshness', latest'), freshness', 1)
    OBVIOUS
  <2> DEFINE silence == Silence(freshness, latest)
  <2>1. silence \in Ages BY <1>3, <1>5 DEF Silence
  <2>2. Silence(freshness', latest') = Older(silence)
    BY <1>3, <1>5, OlderIs DEF Silence
  <2>3. Falling(silence, freshness, 0) BY <1>1 DEF WarningsInv
  <2> HIDE DEF silence
  <2> SUFFICES ASSUME Older(silence) > StaleAfter + 1, ~freshness.active
               PROVE  /\ freshness.candidateStale
                      /\ Older(freshness.since) >= Older(silence) - (StaleAfter + 1)
    BY <1>5, <2>2 DEF Falling
  <2>4. silence > StaleAfter + 0 BY <2>1, OlderIs, Numbers
  <2>5. freshness.candidateStale /\ freshness.since >= silence - (StaleAfter + 1)
    BY <2>3, <2>4 DEF Falling
  <2>6. freshness.since # Never /\ silence # Never BY <1>5, <2>1, <2>4, <2>5, Numbers
  <2>7. Older(freshness.since) >= Older(silence) - (StaleAfter + 1)
    <3>1. /\ Older(freshness.since) =
               IF freshness.since = MaxAge THEN MaxAge ELSE freshness.since + 1
          /\ Older(silence) = IF silence = MaxAge THEN MaxAge ELSE silence + 1
      BY <1>5, <2>1, <2>6, OlderIs
    <3>2. freshness.since \in -1 .. MaxAge /\ silence \in -1 .. MaxAge /\ MaxAge \in Nat
          /\ StaleAfter \in Nat
      BY <1>5, <2>1, Numbers
    <3> QED BY <2>5, <3>1, <3>2
  <2> QED BY <2>5, <2>7
<1>11. Calming(calm', state')
  <2> SUFFICES ASSUME state'.current # Normal, state'.candidate = Normal, state'.since # Never
               PROVE  calm' >= state'.since
    BY DEF Calming
  <2>1. state.since # Never BY <1>4, OlderIs
  <2>2. calm >= state.since BY <1>4, <2>1 DEF WarningsInv, Calming
  <2>3. calm # Never BY <1>4, <1>6, <2>1, <2>2, Numbers
  <2> QED BY <1>1, <1>4, <1>6, <2>1, <2>2, <2>3, OlderIs, Numbers, SMTT(30)
<1>12. SilencedStep(manager, manager')
  BY <1>1, <1>2, SilencesNothing, NothingNewSilenced DEF WarningsTypeOK
<1>13. ClearedStep BY <1>4 DEF ClearedStep
<1> QED BY <1>1, <1>7, <1>8, <1>9, <1>10, <1>11, <1>12, <1>13 DEF WarningsInv

(* What leaves the evaluation alone. *)
LEMMA RestKeeps ==
  ASSUME WarningsInv, manager' \in Manager, \A id : Keeps(manager, manager', id),
         DOMAIN config'.resolved \subseteq DOMAIN Rules,
         UNCHANGED <<presentation, latest, state, freshness, due, breach, calm>>
  PROVE  WarningsInv'
<1>1. {"critical", "warning"} \subseteq Severities /\ StaleSeverity \in Severities
  BY Ranks, WarningsAssumption
<1>2. ThresholdListed(manager', state') BY <1>1 DEF WarningsInv, ThresholdListed, Keeps
<1>3. FreshnessListed(manager', freshness') BY <1>1 DEF WarningsInv, FreshnessListed, Keeps
<1>4. WarningsTypeOK' BY DEF WarningsInv, WarningsTypeOK
<1> QED BY <1>2, <1>3, <1>4 DEF WarningsInv

LEMMA WarningsInit ==
  Init => WarningsInv
<1> SUFFICES ASSUME Init PROVE WarningsInv OBVIOUS
<1>1. /\ presentation \in Presentations
      /\ latest = NotReceived /\ state = NoState /\ freshness = NoFreshness
      /\ config = Recompute(dynamic) /\ due = FALSE
      /\ breach = [kind \in WarningKinds |-> Never] /\ calm = Never
      /\ manager \in {NoWarnings} \cup {RaiseWarning(NoWarnings, id, "critical") : id \in Demos}
  BY DEF Init, ManagerInit
<1>2. NoWarnings \in Manager /\ \A id : ~Holds(NoWarnings.warnings, id)
  BY DEF NoWarnings, Manager, Holds
<1>3. /\ manager \in Manager
      /\ ~Holds(manager.warnings, "threshold") /\ ~Holds(manager.warnings, "freshness")
  <2>1. CASE manager = NoWarnings BY <1>2, <2>1
  <2>2. CASE manager # NoWarnings
    <3>1. PICK id \in Demos : manager = RaiseWarning(NoWarnings, id, "critical")
      BY <1>1, <2>2
    <3>2. id \in Ids /\ id # "threshold" /\ id # "freshness" /\ "critical" \in Severities
      BY ManagerAssumption, IdsAssumption, Ranks
    <3>3. manager \in Manager /\ \A other : other # id => Keeps(NoWarnings, manager, other)
      BY <1>2, <3>1, <3>2, RaiseIs
    <3> QED BY <1>2, <3>2, <3>3 DEF Keeps
  <2> QED BY <2>1, <2>2
<1>4. WarningsTypeOK
  BY <1>1, <1>3, AgesGrow, NothingIs, RecomputeIs DEF WarningsTypeOK
<1>5. /\ ThresholdListed(manager, state) /\ FreshnessListed(manager, freshness)
      /\ KindHasRule(state) /\ Pressing(breach, state) /\ Calming(calm, state)
  BY <1>1, <1>3, NothingIs
  DEF ThresholdListed, FreshnessListed, KindHasRule, Pressing, Calming
<1>6. Raised(breach, state)
  <2>1. \A kind \in WarningKinds \cap DOMAIN Rules :
          ~(breach[kind] >= Rules[kind].activationDelay)
    BY <1>1, Numbers
  <2> QED BY <2>1 DEF Raised
<1>7. Silence(freshness, latest) = -1 BY <1>1, NothingIs, Numbers DEF Silence
<1>8. /\ Noticed(Silence(freshness, latest), freshness)
      /\ Falling(Silence(freshness, latest), freshness, IF due THEN 1 ELSE 0)
  BY <1>7, Numbers DEF Noticed, Falling
<1> QED BY <1>4, <1>5, <1>6, <1>8 DEF WarningsInv

LEMMA WarningsStep ==
  ASSUME WarningsInv, [Next]_vars
  PROVE  WarningsInv' /\ SilencedStep(manager, manager') /\ ClearedStep
<1>1. /\ manager \in Manager /\ latest \in Samples
      /\ DOMAIN config.resolved \subseteq DOMAIN Rules
  BY DEF WarningsInv, WarningsTypeOK
<1>2. \A id : Keeps(manager, manager, id) BY DEF Keeps
<1>3. SilencedStep(manager, manager) BY <1>1, SilencesNothing, NothingNewSilenced
<1>4. state' = state => ClearedStep BY DEF ClearedStep
<1>5. CASE Tick BY <1>5, TickKeeps
<1>6. CASE EvaluationTimer BY <1>6, TimerKeeps
<1>7. CASE FreshnessTimer
  <2>1. /\ config' = Recompute(dynamic) /\ manager' = manager
        /\ UNCHANGED <<presentation, latest, state, freshness, due, breach, calm>>
    BY <1>7 DEF FreshnessTimer
  <2> QED BY <1>1, <1>2, <1>3, <1>4, <2>1, RecomputeIs, RestKeeps
<1>8. CASE Unusable
  <2> DEFINE lat == [NotReceived EXCEPT !.age = 0]
  <2>1. lat \in Samples /\ lat.age = 0 BY NothingIs, AgesGrow DEF Samples
  <2>2. SamplesAvailable(lat, dynamic, config) BY <1>8 DEF Unusable
  <2> HIDE DEF lat
  <2> QED BY <1>1, <2>1, <2>2, SamplesKeep
<1>9. CASE \E value \in Values : Measurement(value)
  <2>1. PICK value \in Values : Measurement(value) BY <1>9
  <2> DEFINE lat == [value |-> value, valid |-> TRUE, age |-> 0]
  <2>2. lat \in Samples /\ lat.age = 0 BY AgesGrow DEF Samples
  <2>3. SamplesAvailable(lat, dynamic, Recompute(dynamic)) BY <2>1 DEF Measurement
  <2> HIDE DEF lat
  <2> QED BY <2>2, <2>3, RecomputeIs, SamplesKeep
<1>10. ASSUME NEW dyn, SourceSample(dyn)
       PROVE  WarningsInv' /\ SilencedStep(manager, manager') /\ ClearedStep
  <2>1. SamplesAvailable(latest, dyn, Recompute(dyn)) BY <1>10 DEF SourceSample
  <2> QED BY <1>1, <2>1, RecomputeIs, SamplesKeep
<1>11. CASE \E value \in LimitValues : LimitSample(value)
  BY <1>10, <1>11 DEF LimitSample
<1>12. CASE \E on \in BOOLEAN : ControlSample(on)
  BY <1>10, <1>12 DEF ControlSample
<1>13. CASE \E action \in Actions : ActionTriggered(action)
  <2>1. PICK action \in Actions : ActionTriggered(action) BY <1>13
  <2>2. /\ HandleAction(action) /\ config' = config
        /\ UNCHANGED <<presentation, latest, state, freshness, due, breach, calm>>
    BY <2>1 DEF ActionTriggered
  <2>3. /\ manager' \in Manager /\ \A id : Keeps(manager, manager', id)
        /\ SilencedStep(manager, manager')
    BY <1>1, <2>2, ActionIs
  <2> QED BY <1>1, <1>4, <2>2, <2>3, RestKeeps
<1>14. CASE UNCHANGED vars
  <2>1. /\ manager' = manager /\ config' = config
        /\ UNCHANGED <<presentation, latest, state, freshness, due, breach, calm>>
    BY <1>14 DEF vars, codeVars
  <2> QED BY <1>1, <1>2, <1>3, <1>4, <2>1, RestKeeps
<1> QED BY <1>5, <1>6, <1>7, <1>8, <1>9, <1>11, <1>12, <1>13, <1>14 DEF Next

THEOREM WarningsAlways == Spec => []WarningsInv
<1>1. WarningsInv /\ [Next]_vars => WarningsInv' BY WarningsStep
<1> QED BY <1>1, WarningsInit, PTL DEF Spec

(* What the driver sees listed is what the evaluation takes for active:    *)
(* raising, clearing, withdrawing and acknowledging keep the manager's     *)
(* list and the evaluator's states together.                               *)
THEOREM ListIsEvaluation == Spec => []ListedAsEvaluated
<1>1. WarningsInv => ListedAsEvaluated
  BY DEF WarningsInv, ListedAsEvaluated, ThresholdListed, FreshnessListed
<1> QED BY <1>1, WarningsAlways, PTL

(* After every evaluation, a value that has been beyond a warning limit,   *)
(* or a silence, for its delay is warned of: the candidate is never        *)
(* younger than the breach it stands for.                                  *)
THEOREM WarningsComeInTime == Spec => []WarnedInTime
<1>1. WarningsInv => WarnedInTime
  BY DEF WarningsInv, WarnedInTime, Raised, Noticed
<1> QED BY <1>1, WarningsAlways, PTL

(* No evaluation takes a warning back before its value has been calm for   *)
(* the clear delay, however the limits move and the samples fail.          *)
THEOREM ClearedAfterCalm == Spec => ClearedOnlyWhenCalm
<1>1. WarningsInv /\ [Next]_vars =>
        [(state.current # Normal /\ state'.current = Normal /\ config'.enabled)
           => AtLeastZero(calm) >= Rules[state.kind].clearDelay]_vars
  BY WarningsStep DEF ClearedStep
<1> QED BY <1>1, WarningsAlways, PTL DEF Spec, ClearedOnlyWhenCalm

(* Only what is shown, as severe as it is, can be silenced: the index the  *)
(* manager keeps always leads to a warning that is pending.                *)
THEOREM ShownIsSilenced == Spec => SilencedAsShown
<1>1. WarningsInv /\ [Next]_vars =>
        [\A i \in DOMAIN manager'.warnings :
           LET warning == manager'.warnings[i]
           IN  warning.acknowledged =>
                 \/ \E j \in DOMAIN manager.warnings :
                      /\ manager.warnings[j].id = warning.id
                      /\ manager.warnings[j].acknowledged
                      /\ Rank[manager.warnings[j].severity] >= Rank[warning.severity]
                 \/ /\ OverlayVisible(manager)
                    /\ Shown(manager) = [warning EXCEPT !.acknowledged = FALSE]]_vars
  BY WarningsStep DEF SilencedStep
<1> QED BY <1>1, WarningsAlways, PTL DEF Spec, SilencedAsShown
=============================================================================

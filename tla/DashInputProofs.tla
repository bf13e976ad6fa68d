--------------------------- MODULE DashInputProofs ---------------------------
(***************************************************************************)
(* Proofs about DashInput, for any number of dashes, buttons, edges and,   *)
(* for NoPhantomAction, runs of the logger.                                *)
(*                                                                         *)
(* Both properties are about what a dash will have done once it has read   *)
(* what is on its way and what is pending: a fold of the controller over   *)
(* frames and events.                                                      *)
(***************************************************************************)
EXTENDS DashInput, SignalIpcProofs

-----------------------------------------------------------------------------
(* Folding a step over a sequence *)

(* g[i] is what the first i elements make of d. *)
FoldsTo(g, step, d, s, D) ==
  /\ g \in [0 .. Len(s) -> D]
  /\ g[0] = d
  /\ \A i \in 1 .. Len(s) : g[i] = step[g[i - 1]][s[i]]

Fold(step, d, s, D) == (CHOOSE g : FoldsTo(g, step, d, s, D))[Len(s)]

Extended(g, n, y) == [i \in 0 .. n + 1 |-> IF i = n + 1 THEN y ELSE g[i]]

LEMMA FoldAppends ==
  ASSUME NEW D, NEW E, NEW step \in [D -> [E -> D]], NEW d \in D,
         NEW s \in Seq(E), NEW x \in E, NEW g, FoldsTo(g, step, d, s, D)
  PROVE  FoldsTo(Extended(g, Len(s), step[g[Len(s)]][x]), step, d, Append(s, x), D)
<1> DEFINE n == Len(s)
           last == step[g[n]][x]
           h == Extended(g, n, last)
           t == Append(s, x)
<1>1. n \in Nat /\ Len(t) = n + 1 /\ t[n + 1] = x /\ \A i \in 1 .. n : t[i] = s[i] OBVIOUS
<1>2. g \in [0 .. n -> D] /\ g[0] = d /\ \A i \in 1 .. n : g[i] = step[g[i - 1]][s[i]]
  BY DEF FoldsTo
<1> HIDE DEF t, n
<1>3. last \in D
  <2>1. n \in 0 .. n BY <1>1
  <2>2. g[n] \in D BY <1>2, <2>1
  <2> QED BY <2>2
<1> HIDE DEF last
<1>4. /\ h \in [0 .. n + 1 -> D] /\ h[n + 1] = last
      /\ \A i \in 0 .. n : h[i] = g[i]
  BY <1>1, <1>2, <1>3 DEF Extended
<1> HIDE DEF h
<1>5. h[0] = d BY <1>1, <1>2, <1>4
<1>6. ASSUME NEW i \in 1 .. n + 1 PROVE h[i] = step[h[i - 1]][t[i]]
  <2>1. CASE i = n + 1
    <3>1. i - 1 = n /\ n \in 0 .. n BY <1>1, <2>1
    <3>2. h[i - 1] = g[n] /\ h[i] = last /\ t[i] = x BY <1>1, <1>4, <2>1, <3>1
    <3> QED BY <3>2 DEF last
  <2>2. CASE i # n + 1
    <3>1. i \in 1 .. n /\ i \in 0 .. n /\ i - 1 \in 0 .. n BY <1>1, <2>2
    <3>2. h[i] = g[i] /\ h[i - 1] = g[i - 1] /\ t[i] = s[i] BY <1>1, <1>4, <3>1
    <3> QED BY <1>2, <3>1, <3>2
  <2> QED BY <2>1, <2>2
<1>7. FoldsTo(h, step, d, t, D) BY <1>1, <1>4, <1>5, <1>6 DEF FoldsTo
<1> QED BY <1>7 DEF h, t, n, last

LEMMA FoldUnique ==
  ASSUME NEW D, NEW step, NEW d, NEW s, Len(s) \in Nat,
         NEW g, FoldsTo(g, step, d, s, D), NEW h, FoldsTo(h, step, d, s, D)
  PROVE  g[Len(s)] = h[Len(s)]
<1> DEFINE T == {i \in Nat : i \in 0 .. Len(s) => g[i] = h[i]}
<1>1. 0 \in T BY DEF FoldsTo
<1>2. ASSUME NEW i \in T PROVE i + 1 \in T
  <2> SUFFICES ASSUME i + 1 \in 0 .. Len(s) PROVE g[i + 1] = h[i + 1] OBVIOUS
  <2>1. i + 1 \in 1 .. Len(s) /\ i \in 0 .. Len(s) /\ (i + 1) - 1 = i OBVIOUS
  <2>2. g[i] = h[i] BY <2>1
  <2> DEFINE j == i + 1
  <2>3. j \in 1 .. Len(s) /\ j - 1 = i BY <2>1
  <2> HIDE DEF j, T
  <2>4. g[j] = step[g[j - 1]][s[j]] /\ h[j] = step[h[j - 1]][s[j]] BY <2>3 DEF FoldsTo
  <2> QED BY <2>2, <2>3, <2>4 DEF j
<1>3. T = Nat
  <2> HIDE DEF T
  <2>1. T \in SUBSET Nat BY DEF T
  <2> QED BY <1>1, <1>2, <2>1, SetInduction
<1> QED BY <1>3

LEMMA FoldIs ==
  ASSUME NEW D, NEW step, NEW d, NEW s, Len(s) \in Nat,
         NEW g, FoldsTo(g, step, d, s, D)
  PROVE  Fold(step, d, s, D) = g[Len(s)]
<1> DEFINE c == CHOOSE f : FoldsTo(f, step, d, s, D)
<1>1. FoldsTo(c, step, d, s, D) OBVIOUS
<1> HIDE DEF c
<1>2. c[Len(s)] = g[Len(s)] BY <1>1, FoldUnique
<1> QED BY <1>2 DEF Fold, c

(* Every sequence can be folded, and a set that the step does not leave is *)
(* not left by the fold.                                                   *)
LEMMA FoldExists ==
  ASSUME NEW D, NEW E, NEW step \in [D -> [E -> D]], NEW d \in D, NEW s \in Seq(E)
  PROVE  \E g : FoldsTo(g, step, d, s, D)
<1> DEFINE Fits(k, g) == /\ g \in [0 .. k -> D] /\ g[0] = d
                         /\ \A i \in 1 .. k : g[i] = step[g[i - 1]][s[i]]
           T == {k \in Nat : k <= Len(s) => \E g : Fits(k, g)}
<1>1. 0 \in T
  <2> DEFINE g == [i \in 0 .. 0 |-> d]
  <2>1. Fits(0, g) OBVIOUS
  <2> HIDE DEF g
  <2> QED BY <2>1
<1>2. ASSUME NEW k \in T PROVE k + 1 \in T
  <2> HIDE DEF Fits
  <2> SUFFICES ASSUME k + 1 <= Len(s) PROVE \E g : Fits(k + 1, g) OBVIOUS
  <2>2. s[k + 1] \in E /\ k \in Nat /\ k <= Len(s) OBVIOUS
  <2>1. PICK g : Fits(k, g) BY <2>2
  <2> USE DEF Fits
  <2>3. g[k] \in D BY <2>1, <2>2
  <2> DEFINE last == step[g[k]][s[k + 1]]
             h == [i \in 0 .. k + 1 |-> IF i = k + 1 THEN last ELSE g[i]]
  <2>4. last \in D BY <2>2, <2>3
  <2> HIDE DEF last
  <2>5. /\ h \in [0 .. k + 1 -> D] /\ h[k + 1] = last /\ \A i \in 0 .. k : h[i] = g[i]
    BY <2>1, <2>2, <2>4, SMTT(30)
  <2> HIDE DEF h
  <2>6. ASSUME NEW i \in 1 .. k + 1 PROVE h[i] = step[h[i - 1]][s[i]]
    <3>1. CASE i = k + 1
      <4>1. i - 1 = k /\ k \in 0 .. k BY <2>2, <3>1
      <4> QED BY <2>5, <3>1, <4>1 DEF last
    <3>2. CASE i # k + 1
      <4>1. i \in 1 .. k /\ i \in 0 .. k /\ i - 1 \in 0 .. k BY <2>2, <3>2
      <4>2. h[i] = g[i] /\ h[i - 1] = g[i - 1] BY <2>5, <4>1
      <4> QED BY <2>1, <4>1, <4>2
    <3> QED BY <3>1, <3>2
  <2>7. Fits(k + 1, h) BY <2>1, <2>2, <2>5, <2>6
  <2> QED BY <2>7
<1>3. T = Nat
  <2> HIDE DEF T
  <2>1. T \in SUBSET Nat BY DEF T
  <2> QED BY <1>1, <1>2, <2>1, SetInduction
<1>4. \E g : Fits(Len(s), g)
  <2>1. Len(s) \in Nat OBVIOUS
  <2> HIDE DEF Fits
  <2> QED BY <1>3, <2>1
<1> QED BY <1>4 DEF FoldsTo

LEMMA FoldKeeps ==
  ASSUME NEW D, NEW E, NEW step \in [D -> [E -> D]], NEW d \in D, NEW s \in Seq(E),
         NEW Good \in SUBSET D, d \in Good,
         \A x \in Good : \A i \in 1 .. Len(s) : step[x][s[i]] \in Good
  PROVE  Fold(step, d, s, D) \in Good
<1>0. Len(s) \in Nat OBVIOUS
<1>1. PICK g : FoldsTo(g, step, d, s, D) BY FoldExists
<1> DEFINE T == {i \in Nat : i \in 0 .. Len(s) => g[i] \in Good}
<1>2. 0 \in T BY <1>1 DEF FoldsTo
<1>3. ASSUME NEW i \in T PROVE i + 1 \in T
  <2> SUFFICES ASSUME i + 1 \in 0 .. Len(s) PROVE g[i + 1] \in Good OBVIOUS
  <2>1. i + 1 \in 1 .. Len(s) /\ i \in 0 .. Len(s) /\ (i + 1) - 1 = i BY <1>0
  <2>2. g[i] \in Good BY <2>1
  <2> DEFINE j == i + 1
  <2>3. j \in 1 .. Len(s) /\ j - 1 = i BY <2>1
  <2> HIDE DEF j, T
  <2>4. g[j] = step[g[j - 1]][s[j]] BY <1>1, <2>3 DEF FoldsTo
  <2> QED BY <2>2, <2>3, <2>4 DEF j
<1>4. T = Nat
  <2> HIDE DEF T
  <2>1. T \in SUBSET Nat BY DEF T
  <2> QED BY <1>2, <1>3, <2>1, SetInduction
<1>5. g[Len(s)] \in Good BY <1>0, <1>4
<1>6. Fold(step, d, s, D) = g[Len(s)] BY <1>0, <1>1, FoldIs
<1> QED BY <1>5, <1>6

LEMMA FoldEmpty ==
  ASSUME NEW D, NEW step, NEW d \in D
  PROVE  Fold(step, d, <<>>, D) = d
<1> DEFINE g == [i \in 0 .. 0 |-> d]
<1>1. FoldsTo(g, step, d, <<>>, D) /\ g[0] = d BY DEF FoldsTo
<1> HIDE DEF g
<1>2. Len(<<>>) \in Nat /\ Len(<<>>) = 0 OBVIOUS
<1>3. Fold(step, d, <<>>, D) = g[Len(<<>>)] BY <1>1, <1>2, FoldIs
<1> QED BY <1>1, <1>2, <1>3

Stepping(step, D, E) == step \in [D -> [E -> D]]

LEMMA FoldAppend ==
  ASSUME NEW D, NEW E, NEW step, Stepping(step, D, E), NEW d \in D,
         NEW s \in Seq(E), NEW x \in E
  PROVE  Fold(step, d, Append(s, x), D) = step[Fold(step, d, s, D)][x]
<1> DEFINE t == Append(s, x)
           n == Len(s)
<1>0. n \in Nat /\ Len(t) = n + 1 OBVIOUS
<1> USE DEF Stepping
<1>1. PICK g : FoldsTo(g, step, d, s, D) BY FoldExists
<1> DEFINE h == Extended(g, n, step[g[n]][x])
<1>2. FoldsTo(h, step, d, t, D) BY <1>1, FoldAppends
<1>3. h[n + 1] = step[g[n]][x] BY <1>0 DEF Extended
<1> HIDE DEF h, t, n
<1>4. Len(t) \in Nat BY <1>0
<1>5. Fold(step, d, t, D) = h[Len(t)] BY <1>2, <1>4, FoldIs
<1>6. Fold(step, d, s, D) = g[n] BY <1>0, <1>1, FoldIs DEF n
<1> QED BY <1>0, <1>3, <1>5, <1>6 DEF t

LEMMA FoldHead ==
  ASSUME NEW D, NEW E, NEW step, Stepping(step, D, E), NEW d \in D,
         NEW s \in Seq(E), s # <<>>
  PROVE  /\ step[d][Head(s)] \in D
         /\ Fold(step, d, s, D) = Fold(step, step[d][Head(s)], Tail(s), D)
<1> USE DEF Stepping
<1> DEFINE n == Len(s)
           d1 == step[d][Head(s)]
           t == Tail(s)
<1>0. /\ n \in Nat /\ n >= 1 /\ Len(t) = n - 1 /\ t \in Seq(E) /\ Head(s) \in E
      /\ Head(s) = s[1]
      /\ \A i \in 1 .. n - 1 : t[i] = s[i + 1]
  OBVIOUS
<1>1. d1 \in D BY <1>0
<1>2. d1 = step[d][s[1]] BY <1>0
<1> HIDE DEF n, d1, t
<1>3. PICK g : FoldsTo(g, step, d1, t, D) BY <1>0, <1>1, FoldExists
<1>3a. /\ g \in [0 .. n - 1 -> D] /\ g[0] = d1
       /\ \A i \in 1 .. n - 1 : g[i] = step[g[i - 1]][t[i]]
  BY <1>0, <1>3 DEF FoldsTo
<1> DEFINE h == [i \in 0 .. n |-> IF i = 0 THEN d ELSE g[i - 1]]
<1>4. /\ h \in [0 .. n -> D] /\ h[0] = d
      /\ \A i \in 1 .. n : h[i] = g[i - 1]
  <2>1. \A i \in 1 .. n : i - 1 \in 0 .. n - 1 BY <1>0
  <2>2. \A i \in 1 .. n : g[i - 1] \in D BY <1>3a, <2>1
  <2> QED BY <1>0, <2>2
<1> HIDE DEF h
<1>5. ASSUME NEW i \in 1 .. n PROVE h[i] = step[h[i - 1]][s[i]]
  <2>1. CASE i = 1
    <3>1. h[1] = g[0] /\ i - 1 = 0 BY <1>0, <1>4, <2>1
    <3> QED BY <1>2, <1>3a, <1>4, <2>1, <3>1
  <2>2. CASE i # 1
    <3> DEFINE j == i - 1
    <3>1. j \in 1 .. n /\ j \in 1 .. n - 1 /\ i = j + 1 BY <1>0, <2>2
    <3> HIDE DEF j
    <3>2. h[i] = g[j] BY <1>4 DEF j
    <3>3. g[j] = step[g[j - 1]][t[j]] BY <1>3a, <3>1
    <3>4. h[j] = g[j - 1] BY <1>4, <3>1
    <3>5. t[j] = s[i] BY <1>0, <3>1
    <3> QED BY <3>2, <3>3, <3>4, <3>5 DEF j
  <2> QED BY <2>1, <2>2
<1>6. FoldsTo(h, step, d, s, D) BY <1>4, <1>5 DEF FoldsTo, n
<1>7. Fold(step, d, s, D) = h[n] BY <1>0, <1>6, FoldIs DEF n
<1>8. Fold(step, d1, t, D) = g[n - 1]
  <2>1. Len(t) \in Nat BY <1>0
  <2>2. Fold(step, d1, t, D) = g[Len(t)] BY <1>3, <2>1, FoldIs
  <2> QED BY <1>0, <2>2
<1>9. h[n] = g[n - 1]
  <2>1. n \in 1 .. n BY <1>0
  <2> QED BY <1>4, <2>1
<1> QED BY <1>1, <1>7, <1>8, <1>9 DEF d1, t
-----------------------------------------------------------------------------
(* The controller                                                          *)

Controllers == [known : SUBSET Buttons, pressed : SUBSET Buttons, lastEvent : Nat,
                acted : [Buttons -> Nat]]

LEMMA WheelFacts ==
  /\ Signals = {"inputs"} /\ Values = SUBSET Buttons
  /\ \A e \in EventSample : e.value.id \in Buttons /\ e.value.pressed \in BOOLEAN /\ e.time \in Nat
BY WheelAssumption DEF EventSample

LEMMA PlusFacts ==
  ASSUME NEW n \in [Buttons -> Nat], NEW B
  PROVE  /\ Plus(n, B) \in [Buttons -> Nat]
         /\ \A x \in Buttons : Plus(n, B)[x] = IF x \in B THEN n[x] + 1 ELSE n[x]
BY DEF Plus

LEMMA Replaced ==
  ASSUME NEW A, NEW B, NEW C, NEW D, NEW k, NEW p, NEW a,
         NEW d \in [known : A, pressed : B, lastEvent : C, acted : D]
  PROVE  [d EXCEPT !.known = k, !.pressed = p, !.acted = a]
           = [known |-> k, pressed |-> p, lastEvent |-> d.lastEvent, acted |-> a]
<1>1. [d EXCEPT !.known = k, !.pressed = p, !.acted = a]
        = [[[d EXCEPT !.known = k] EXCEPT !.pressed = p] EXCEPT !.acted = a]
  OBVIOUS
<1> DEFINE d1 == [d EXCEPT !.known = k]
           d2 == [d1 EXCEPT !.pressed = p]
           d3 == [d2 EXCEPT !.acted = a]
<1>2. d1 = [known |-> k, pressed |-> d.pressed, lastEvent |-> d.lastEvent, acted |-> d.acted]
  OBVIOUS
<1>3. d1 \in [known : {k}, pressed : B, lastEvent : C, acted : D]
  <2> HIDE DEF d1
  <2> QED BY <1>2
<1>4. d1.lastEvent = d.lastEvent /\ d1.acted = d.acted /\ d1.known = k BY <1>2
<1> HIDE DEF d1
<1>5. d2 = [known |-> k, pressed |-> p, lastEvent |-> d.lastEvent, acted |-> d.acted]
  BY <1>3, <1>4
<1>6. d2 \in [known : {k}, pressed : {p}, lastEvent : C, acted : D]
  <2> HIDE DEF d2
  <2> QED BY <1>5
<1>7. d2.lastEvent = d.lastEvent /\ d2.pressed = p /\ d2.known = k BY <1>5
<1> HIDE DEF d2
<1>8. d3 = [known |-> k, pressed |-> p, lastEvent |-> d.lastEvent, acted |-> a]
  BY <1>6, <1>7
<1> QED BY <1>1, <1>8 DEF d1, d2

LEMMA ControllerIs ==
  ASSUME NEW k \in SUBSET Buttons, NEW p \in SUBSET Buttons, NEW t \in Nat,
         NEW a \in [Buttons -> Nat]
  PROVE  [known |-> k, pressed |-> p, lastEvent |-> t, acted |-> a] \in Controllers
BY DEF Controllers

LEMMA ControllerFacts ==
  ASSUME NEW d \in Controllers
  PROVE  /\ d.known \in SUBSET Buttons /\ d.pressed \in SUBSET Buttons /\ d.lastEvent \in Nat
         /\ d.acted \in [Buttons -> Nat]
         /\ d = [known |-> d.known, pressed |-> d.pressed, lastEvent |-> d.lastEvent,
                 acted |-> d.acted]
BY DEF Controllers

(* What a new event does, and that an old one does nothing.                *)
LEMMA NewEvent ==
  ASSUME NEW d \in Controllers, NEW e \in EventSample, e.time > d.lastEvent
  PROVE  LET b == e.value.id
             press == e.value.pressed
         IN  ProcessEvent(d, e) =
               [known |-> d.known \cup {b},
                pressed |-> IF press THEN d.pressed \cup {b} ELSE d.pressed \ {b},
                lastEvent |-> e.time,
                acted |-> IF press /\ (b \notin d.known \/ b \notin d.pressed)
                          THEN Plus(d.acted, {b}) ELSE d.acted]
<1> DEFINE b == e.value.id
           press == e.value.pressed
           k == d.known
           p == d.pressed
           a == d.acted
<1>1. d = [known |-> k, pressed |-> p, lastEvent |-> d.lastEvent, acted |-> a]
  BY ControllerFacts
<1>2. press \in BOOLEAN BY WheelFacts
<1> HIDE DEF b, press, k, p, a
<1>3. ProcessEvent(d, e) = UpdateButton([d EXCEPT !.lastEvent = e.time], b, press)
  BY DEF ProcessEvent, b, press
<1> DEFINE d1 == [known |-> k, pressed |-> p, lastEvent |-> e.time, acted |-> a]
<1>4. [d EXCEPT !.lastEvent = e.time] = d1 BY <1>1
<1>5. UpdateButton(d1, b, press) =
        [known |-> k \cup {b}, pressed |-> IF press THEN p \cup {b} ELSE p \ {b},
         lastEvent |-> e.time,
         acted |-> IF press /\ (b \notin k \/ b \notin p) THEN Plus(a, {b}) ELSE a]
  <2> DEFINE changed == b \notin k \/ (b \in p) # press
             p1 == IF press THEN p \cup {b} ELSE p \ {b}
             a1 == IF changed /\ press THEN Plus(a, {b}) ELSE a
  <2>1. d1.known = k /\ d1.pressed = p /\ d1.acted = a OBVIOUS
  <2>2. d1.lastEvent = e.time OBVIOUS
  <2>6. d1 \in [known : {k}, pressed : {p}, lastEvent : {e.time}, acted : {a}] OBVIOUS
  <2> HIDE DEF d1
  <2>3. UpdateButton(d1, b, press)
          = [d1 EXCEPT !.known = k \cup {b}, !.pressed = p1, !.acted = a1]
    BY ONLY <2>1 DEF UpdateButton
  <2>4. a1 = IF press /\ (b \notin k \/ b \notin p) THEN Plus(a, {b}) ELSE a
    <3>1. CASE press = TRUE
      <4>1. changed <=> b \notin k \/ b \notin p BY <3>1
      <4> HIDE DEF changed
      <4> QED BY <3>1, <4>1
    <3>2. CASE press = FALSE BY <3>2
    <3> QED BY <1>2, <3>1, <3>2
  <2> HIDE DEF p1, a1
  <2>5. UpdateButton(d1, b, press)
          = [known |-> k \cup {b}, pressed |-> p1, lastEvent |-> e.time, acted |-> a1]
    BY <2>2, <2>3, <2>6, Replaced
  <2> QED BY <2>4, <2>5 DEF p1
<1> HIDE DEF d1
<1>6. ProcessEvent(d, e) =
        [known |-> k \cup {b}, pressed |-> IF press THEN p \cup {b} ELSE p \ {b},
         lastEvent |-> e.time,
         acted |-> IF press /\ (b \notin k \/ b \notin p) THEN Plus(a, {b}) ELSE a]
  BY <1>3, <1>4, <1>5
<1> QED BY <1>6 DEF b, press, k, p, a

LEMMA OldEvent ==
  ASSUME NEW d, NEW e, ~(e.time > d.lastEvent)
  PROVE  ProcessEvent(d, e) = d
BY DEF ProcessEvent

(* The same for one button, x, where d1 is what e makes of d.              *)
Applied(d, e, d1) ==
  LET b == e.value.id IN
  /\ d1.lastEvent = e.time
  /\ d1.known = d.known \cup {b}
  /\ \A x \in Buttons : x # b => /\ x \in d1.pressed <=> x \in d.pressed
                                 /\ d1.acted[x] = d.acted[x]
  /\ b \in d1.pressed <=> e.value.pressed
  /\ d1.acted[b] = IF e.value.pressed /\ (b \notin d.known \/ b \notin d.pressed)
                   THEN d.acted[b] + 1 ELSE d.acted[b]

LEMMA EventFacts ==
  ASSUME NEW d \in Controllers, NEW e \in EventSample
  PROVE  /\ ProcessEvent(d, e) \in Controllers
         /\ IF e.time > d.lastEvent THEN Applied(d, e, ProcessEvent(d, e))
            ELSE ProcessEvent(d, e) = d
<1>1. CASE ~(e.time > d.lastEvent) BY <1>1, OldEvent
<1>2. CASE e.time > d.lastEvent
  <2> DEFINE b == e.value.id
             press == e.value.pressed
             k == d.known \cup {b}
             p == IF press THEN d.pressed \cup {b} ELSE d.pressed \ {b}
             a == IF press /\ (b \notin d.known \/ b \notin d.pressed)
                  THEN Plus(d.acted, {b}) ELSE d.acted
             d1 == ProcessEvent(d, e)
  <2>1. d1 = [known |-> k, pressed |-> p, lastEvent |-> e.time, acted |-> a]
    BY <1>2, NewEvent
  <2>2. /\ d.known \in SUBSET Buttons /\ d.pressed \in SUBSET Buttons
        /\ d.acted \in [Buttons -> Nat]
    BY ControllerFacts
  <2>3. b \in Buttons /\ press \in BOOLEAN /\ e.time \in Nat BY WheelFacts
  <2> HIDE DEF b, press, d1
  <2>4. k \in SUBSET Buttons /\ p \in SUBSET Buttons BY <2>2, <2>3
  <2>5. /\ a \in [Buttons -> Nat]
        /\ \A x \in Buttons : x # b => a[x] = d.acted[x]
        /\ a[b] = IF press /\ (b \notin d.known \/ b \notin d.pressed)
                  THEN d.acted[b] + 1 ELSE d.acted[b]
    BY <2>2, <2>3, PlusFacts
  <2>6. /\ b \in p <=> press
        /\ \A x \in Buttons : x # b => (x \in p <=> x \in d.pressed)
    BY <2>3
  <2> HIDE DEF k, p, a
  <2>7. d1 \in Controllers BY <2>1, <2>3, <2>4, <2>5, ControllerIs
  <2>8. Applied(d, e, d1)
    <3>1. d1.known = k /\ d1.pressed = p /\ d1.lastEvent = e.time /\ d1.acted = a BY <2>1
    <3> HIDE DEF d1
    <3> QED BY <2>5, <2>6, <3>1 DEF Applied, k, b, press
  <2> QED BY <1>2, <2>7, <2>8 DEF d1
<1> QED BY <1>1, <1>2

LEMMA StatusFacts ==
  ASSUME NEW d \in Controllers, NEW h \in SUBSET Buttons
  PROVE  /\ ProcessStatus(d, h) \in Controllers
         /\ ProcessStatus(d, h).known = Buttons /\ ProcessStatus(d, h).pressed = h
         /\ ProcessStatus(d, h).lastEvent = d.lastEvent
         /\ \A x \in Buttons : ProcessStatus(d, h).acted[x] =
              IF x \in h /\ x \notin d.pressed /\ x \in d.known
              THEN d.acted[x] + 1 ELSE d.acted[x]
<1> DEFINE a == Plus(d.acted, (h \ d.pressed) \cap d.known)
<1>1. ProcessStatus(d, h) =
        [known |-> Buttons, pressed |-> h, lastEvent |-> d.lastEvent, acted |-> a]
  <2> DEFINE k == d.known
             p == d.pressed
             t == d.lastEvent
             n == d.acted
  <2>1. d = [known |-> k, pressed |-> p, lastEvent |-> t, acted |-> n] BY ControllerFacts
  <2> HIDE DEF a
  <2> DEFINE k1 == Buttons
  <2> HIDE DEF k1
  <2>2. ProcessStatus(d, h) = [d EXCEPT !.known = k1, !.pressed = h, !.acted = a]
    BY <2>1 DEF ProcessStatus, a, k1
  <2> HIDE DEF k, p, t, n
  <2>3. d \in [known : {k}, pressed : {p}, lastEvent : {t}, acted : {n}] BY <2>1
  <2>4. ProcessStatus(d, h)
          = [known |-> k1, pressed |-> h, lastEvent |-> d.lastEvent, acted |-> a]
    BY <2>2, <2>3, Replaced
  <2> QED BY <2>4 DEF k1
<1>2. d.acted \in [Buttons -> Nat] /\ d.lastEvent \in Nat BY ControllerFacts
<1>3. /\ a \in [Buttons -> Nat]
      /\ \A x \in Buttons : a[x] = IF x \in h /\ x \notin d.pressed /\ x \in d.known
                                   THEN d.acted[x] + 1 ELSE d.acted[x]
  BY <1>2, PlusFacts
<1> HIDE DEF a
<1>4. [known |-> Buttons, pressed |-> h, lastEvent |-> d.lastEvent, acted |-> a] \in Controllers
  BY <1>2, <1>3, ControllerIs
<1> QED BY <1>1, <1>3, <1>4

-----------------------------------------------------------------------------
(* What a dash has acted on, and would act on if it were told what is held *)

Potential(d, h, x) ==
  IF x \in h /\ x \in d.known /\ x \notin d.pressed THEN d.acted[x] + 1 ELSE d.acted[x]

(* Nothing that a dash is told makes it act less.                          *)
Grows(d, d1) ==
  /\ d.lastEvent <= d1.lastEvent
  /\ \A x \in Buttons : d.acted[x] <= d1.acted[x]
  /\ \A h \in SUBSET Buttons : \A x \in Buttons : Potential(d, h, x) <= Potential(d1, h, x)

LEMMA ActedType ==
  ASSUME NEW d \in Controllers, NEW x \in Buttons
  PROVE  /\ d.acted[x] \in Nat
         /\ \A h : Potential(d, h, x) \in Nat /\ d.acted[x] <= Potential(d, h, x)
<1>1. d.acted[x] \in Nat BY ControllerFacts
<1> QED BY <1>1 DEF Potential

LEMMA GrowsMore ==
  ASSUME NEW d \in Controllers, NEW d1 \in Controllers, NEW d2 \in Controllers,
         Grows(d, d1), Grows(d1, d2)
  PROVE  Grows(d, d2)
<1>1. d.lastEvent <= d2.lastEvent BY ControllerFacts DEF Grows
<1>2. ASSUME NEW x \in Buttons PROVE d.acted[x] <= d2.acted[x]
  <2>1. d.acted[x] \in Nat /\ d1.acted[x] \in Nat /\ d2.acted[x] \in Nat BY ActedType
  <2> QED BY <2>1 DEF Grows
<1>3. ASSUME NEW h \in SUBSET Buttons, NEW x \in Buttons
      PROVE  Potential(d, h, x) <= Potential(d2, h, x)
  <2>1. /\ Potential(d, h, x) \in Nat /\ Potential(d1, h, x) \in Nat
        /\ Potential(d2, h, x) \in Nat
    BY ActedType
  <2>2. Potential(d, h, x) <= Potential(d1, h, x) /\ Potential(d1, h, x) <= Potential(d2, h, x)
    BY DEF Grows
  <2> QED BY <2>1, <2>2
<1> QED BY <1>1, <1>2, <1>3 DEF Grows

LEMMA GrowsNot ==
  ASSUME NEW d \in Controllers
  PROVE  Grows(d, d)
<1>1. d.lastEvent \in Nat BY ControllerFacts
<1>2. ASSUME NEW x \in Buttons PROVE d.acted[x] \in Nat /\ \A h : Potential(d, h, x) \in Nat
  BY ActedType
<1> QED BY <1>1, <1>2 DEF Grows

LEMMA EventGrows ==
  ASSUME NEW d \in Controllers, NEW e \in EventSample
  PROVE  Grows(d, ProcessEvent(d, e))
<1> DEFINE d1 == ProcessEvent(d, e)
<1>1. CASE ~(e.time > d.lastEvent) BY <1>1, EventFacts, GrowsNot
<1>2. CASE e.time > d.lastEvent
  <2>1. Applied(d, e, d1) BY <1>2, EventFacts
  <2>2. e.time \in Nat /\ d.lastEvent \in Nat BY ControllerFacts, WheelFacts
  <2> HIDE DEF d1
  <2>3. d.lastEvent <= d1.lastEvent BY <1>2, <2>1, <2>2 DEF Applied
  <2>4. ASSUME NEW x \in Buttons
        PROVE  /\ d.acted[x] <= d1.acted[x]
               /\ \A h \in SUBSET Buttons : Potential(d, h, x) <= Potential(d1, h, x)
    <3>1. d.acted[x] \in Nat BY ActedType
    <3>2. CASE x = e.value.id BY <2>1, <3>1, <3>2 DEF Applied, Potential
    <3>3. CASE x # e.value.id BY <2>1, <3>1, <3>3 DEF Applied, Potential
    <3> QED BY <3>2, <3>3
  <2> QED BY <2>3, <2>4 DEF Grows, d1
<1> QED BY <1>1, <1>2

LEMMA StatusGrows ==
  ASSUME NEW d \in Controllers, NEW s \in SUBSET Buttons
  PROVE  Grows(d, ProcessStatus(d, s))
<1> DEFINE d1 == ProcessStatus(d, s)
<1>1. /\ d1.known = Buttons /\ d1.pressed = s /\ d1.lastEvent = d.lastEvent
      /\ \A x \in Buttons : d1.acted[x] =
           IF x \in s /\ x \notin d.pressed /\ x \in d.known
           THEN d.acted[x] + 1 ELSE d.acted[x]
  BY StatusFacts
<1> HIDE DEF d1
<1>2. d.lastEvent \in Nat BY ControllerFacts
<1>3. ASSUME NEW x \in Buttons
      PROVE  /\ d.acted[x] <= d1.acted[x]
             /\ \A h \in SUBSET Buttons : Potential(d, h, x) <= Potential(d1, h, x)
  <2>1. d.acted[x] \in Nat BY ActedType
  <2> QED BY <1>1, <2>1 DEF Potential
<1> QED BY <1>1, <1>2, <1>3 DEF Grows, d1

(* The buttons held, and the presses, after an edge of b.                  *)
AfterEdge(h, b) == IF b \notin h THEN h \cup {b} ELSE h \ {b}
Pressed(n, h, b) == IF b \notin h THEN Plus(n, {b}) ELSE n

LEMMA EdgeFacts ==
  ASSUME NEW h \in SUBSET Buttons, NEW b \in Buttons, NEW n \in [Buttons -> Nat]
  PROVE  /\ AfterEdge(h, b) \in SUBSET Buttons /\ Pressed(n, h, b) \in [Buttons -> Nat]
         /\ b \in AfterEdge(h, b) <=> b \notin h
         /\ Pressed(n, h, b)[b] = IF b \in h THEN n[b] ELSE n[b] + 1
BY PlusFacts DEF AfterEdge, Pressed

LEMMA EdgeElsewhere ==
  ASSUME NEW h \in SUBSET Buttons, NEW b \in Buttons, NEW n \in [Buttons -> Nat],
         NEW x \in Buttons, x # b
  PROVE  (x \in AfterEdge(h, b) <=> x \in h) /\ Pressed(n, h, b)[x] = n[x]
BY PlusFacts DEF AfterEdge, Pressed

LEMMA EdgeNow ==
  ASSUME NEW h \in SUBSET Buttons, NEW b \in Buttons
  PROVE  AfterEdge(h, b) \in SUBSET Buttons /\ (b \in AfterEdge(h, b) <=> b \notin h)
BY DEF AfterEdge

LEMMA EdgeOthers ==
  ASSUME NEW h \in SUBSET Buttons, NEW b \in Buttons, NEW x \in Buttons, x # b
  PROVE  x \in AfterEdge(h, b) <=> x \in h
BY DEF AfterEdge

LEMMA EdgeUntold ==
  ASSUME NEW d \in Controllers, NEW h \in SUBSET Buttons, NEW b \in Buttons,
         NEW n \in [Buttons -> Nat], NEW x \in Buttons, Potential(d, h, x) <= n[x]
  PROVE  Potential(d, AfterEdge(h, b), x) <= Pressed(n, h, b)[x]
<1>1. d.acted[x] \in Nat /\ n[x] \in Nat BY ActedType
<1>2. CASE x = b
  <2>1. Potential(d, h, b) \in Nat /\ d.acted[b] <= Potential(d, h, b) BY <1>2, ActedType
  <2>2. b \notin h => Potential(d, AfterEdge(h, b), b) <= d.acted[b] + 1
    BY <1>1, <1>2 DEF Potential
  <2>3. b \in h => Potential(d, AfterEdge(h, b), b) = d.acted[b] BY EdgeFacts DEF Potential
  <2>4. Pressed(n, h, b)[b] = IF b \in h THEN n[b] ELSE n[b] + 1 BY EdgeFacts
  <2>5. Potential(d, AfterEdge(h, b), b) \in Nat BY ActedType
  <2> QED BY <1>1, <1>2, <2>1, <2>2, <2>3, <2>4, <2>5
<1>3. CASE x # b
  <2>1. (x \in AfterEdge(h, b) <=> x \in h) /\ Pressed(n, h, b)[x] = n[x]
    BY <1>3, EdgeElsewhere
  <2> QED BY <2>1 DEF Potential
<1> QED BY <1>2, <1>3

LEMMA EdgeTold ==
  ASSUME NEW d \in Controllers, NEW h \in SUBSET Buttons, NEW e \in EventSample,
         e.value.pressed <=> e.value.id \notin h,
         NEW n \in [Buttons -> Nat], NEW x \in Buttons, Potential(d, h, x) <= n[x]
  PROVE  Potential(ProcessEvent(d, e), AfterEdge(h, e.value.id), x)
           <= Pressed(n, h, e.value.id)[x]
<1> DEFINE d1 == ProcessEvent(d, e)
           b == e.value.id
<1>0. b \in Buttons BY WheelFacts
<1>1. CASE ~(e.time > d.lastEvent) BY <1>0, <1>1, OldEvent, EdgeUntold
<1>2. CASE e.time > d.lastEvent
  <2>1. Applied(d, e, d1) BY <1>2, EventFacts
  <2>2. d.acted[x] \in Nat /\ n[x] \in Nat BY ActedType
  <2>3. d1.known = d.known \cup {b} /\ (b \in d1.pressed <=> b \notin h) BY <2>1 DEF Applied
  <2> HIDE DEF d1, b
  <2>4. CASE x = b
    <3>1. d1.acted[b] = IF b \notin h /\ (b \notin d.known \/ b \notin d.pressed)
                        THEN d.acted[b] + 1 ELSE d.acted[b]
      BY <2>1 DEF Applied, b
    <3>2. Potential(d1, AfterEdge(h, b), b) = d1.acted[b]
      BY <1>0, <2>3, EdgeFacts DEF Potential
    <3>3. d.acted[b] <= n[b]
      <4>1. Potential(d, h, b) \in Nat /\ d.acted[b] <= Potential(d, h, b) BY <1>0, ActedType
      <4> QED BY <2>2, <2>4, <4>1
    <3>4. Pressed(n, h, b)[b] = IF b \in h THEN n[b] ELSE n[b] + 1 BY <1>0, EdgeFacts, ZenonT(30)
    <3>5. Potential(d1, AfterEdge(h, b), b) <= Pressed(n, h, b)[b]
      <4>1. d.acted[b] \in Nat /\ n[b] \in Nat BY <2>2, <2>4
      <4> QED BY ONLY <3>1, <3>2, <3>3, <3>4, <4>1
    <3>6. Potential(d1, AfterEdge(h, b), x) <= Pressed(n, h, b)[x] BY <2>4, <3>5
    <3> QED BY <3>6 DEF b, d1
  <2>5. CASE x # b
    <3>1. d1.acted[x] = d.acted[x] /\ (x \in d1.pressed <=> x \in d.pressed)
      BY <2>1, <2>5 DEF Applied, b
    <3>2. /\ x \in AfterEdge(h, b) <=> x \in h
          /\ Pressed(n, h, b)[x] = n[x]
      BY <1>0, <2>5, EdgeElsewhere
    <3>3. x \in d1.known <=> x \in d.known BY <2>3, <2>5
    <3>4. Potential(d1, AfterEdge(h, b), x) = Potential(d, h, x)
      BY ONLY <3>1, <3>2, <3>3 DEF Potential
    <3>5. Potential(d1, AfterEdge(h, b), x) <= Pressed(n, h, b)[x] BY <3>2, <3>4
    <3> QED BY <3>5 DEF b, d1
  <2> QED BY <2>4, <2>5 DEF d1, b
<1> QED BY <1>1, <1>2
-----------------------------------------------------------------------------
(* Events, one after the other                                             *)

EventStep == [d \in Controllers |-> [e \in EventSample |-> ProcessEvent(d, e)]]

LEMMA EventStepFacts ==
  /\ EventStep \in [Controllers -> [EventSample -> Controllers]]
  /\ \A d \in Controllers : \A e \in EventSample : EventStep[d][e] = ProcessEvent(d, e)
<1> HIDE DEF Controllers, EventSample
<1>1. \A d \in Controllers : \A e \in EventSample : ProcessEvent(d, e) \in Controllers
  BY EventFacts
<1> QED BY <1>1 DEF EventStep

LEMMA EventsAreFolded ==
  ASSUME NEW d \in Controllers, NEW es \in Seq(EventSample)
  PROVE  ProcessEvents(d, es) = Fold(EventStep, d, es, Controllers)
<1> DEFINE D == Controllers
           E == EventSample
           G(f) == [n \in 0 .. Len(es) |-> IF n = 0 THEN d ELSE ProcessEvent(f[n - 1], es[n])]
           c == CHOOSE f : f = G(f)
<1>0. Len(es) \in Nat /\ \A i \in 1 .. Len(es) : es[i] \in E OBVIOUS
<1>1. ProcessEvents(d, es) = c[Len(es)] BY DEF ProcessEvents
<1>2. /\ EventStep \in [D -> [E -> D]]
      /\ \A x \in D : \A e \in E : EventStep[x][e] = ProcessEvent(x, e)
  BY EventStepFacts
<1> HIDE DEF D, E
<1>3. d \in D /\ es \in Seq(E) BY DEF D, E
<1>4. PICK g : FoldsTo(g, EventStep, d, es, D) BY <1>2, <1>3, FoldExists
<1>5. g \in [0 .. Len(es) -> D] /\ g[0] = d BY <1>4 DEF FoldsTo
<1>6. ASSUME NEW n \in 1 .. Len(es) PROVE g[n] = ProcessEvent(g[n - 1], es[n])
  <2>1. n - 1 \in 0 .. Len(es) BY <1>0
  <2>2. g[n - 1] \in D /\ es[n] \in E BY <1>0, <1>5, <2>1
  <2>3. g[n] = EventStep[g[n - 1]][es[n]] BY <1>4 DEF FoldsTo
  <2> QED BY <1>2, <2>2, <2>3
<1>7. g = G(g)
  <2>1. ASSUME NEW n \in 0 .. Len(es)
        PROVE  g[n] = IF n = 0 THEN d ELSE ProcessEvent(g[n - 1], es[n])
    <3>1. CASE n = 0 BY <1>5, <3>1
    <3>2. CASE n # 0
      <4>1. n \in 1 .. Len(es) BY <3>2
      <4> QED BY <1>6, <3>2, <4>1
    <3> QED BY <3>1, <3>2
  <2> QED BY <1>5, <2>1
<1>8. c = G(c)
  <2>1. \E f : f = G(f)
    <3> WITNESS g
    <3> QED BY <1>7
  <2> QED BY <2>1
<1> HIDE DEF c
<1> DEFINE T == {i \in Nat : i \in 0 .. Len(es) => c[i] = g[i]}
<1>9. 0 \in T BY <1>5, <1>8
<1>10. ASSUME NEW i \in T PROVE i + 1 \in T
  <2> SUFFICES ASSUME i + 1 \in 0 .. Len(es) PROVE c[i + 1] = g[i + 1] OBVIOUS
  <2>1. i + 1 \in 1 .. Len(es) /\ i \in 0 .. Len(es) /\ (i + 1) - 1 = i BY <1>0
  <2>2. c[i] = g[i] BY <2>1
  <2> DEFINE j == i + 1
  <2>3. j \in 1 .. Len(es) /\ j \in 0 .. Len(es) /\ j # 0 /\ j - 1 = i BY <2>1
  <2> HIDE DEF j, T
  <2>4. c[j] = ProcessEvent(c[j - 1], es[j]) BY <1>8, <2>3
  <2>5. g[j] = ProcessEvent(g[j - 1], es[j]) BY <1>6, <2>3
  <2> QED BY <2>2, <2>3, <2>4, <2>5 DEF j
<1>11. T = Nat
  <2> HIDE DEF T
  <2>1. T \in SUBSET Nat BY DEF T
  <2> QED BY <1>9, <1>10, <2>1, SetInduction
<1>12. c[Len(es)] = g[Len(es)]
  <2>1. Len(es) \in T /\ Len(es) \in 0 .. Len(es) BY <1>0, <1>11
  <2> QED BY <2>1
<1>13. Fold(EventStep, d, es, D) = g[Len(es)] BY <1>0, <1>4, FoldIs
<1> QED BY <1>1, <1>12, <1>13 DEF D

LEMMA EventsType ==
  ASSUME NEW d \in Controllers, NEW es \in Seq(EventSample)
  PROVE  ProcessEvents(d, es) \in Controllers /\ Grows(d, ProcessEvents(d, es))
<1> DEFINE Good == {x \in Controllers : Grows(d, x)}
<1> HIDE DEF Controllers, EventSample
<1>1. Good \in SUBSET Controllers /\ d \in Good BY GrowsNot
<1>2. ASSUME NEW x \in Good, NEW i \in 1 .. Len(es) PROVE EventStep[x][es[i]] \in Good
  <2>1. x \in Controllers /\ es[i] \in EventSample /\ Grows(d, x) OBVIOUS
  <2>2. EventStep[x][es[i]] = ProcessEvent(x, es[i]) BY <2>1, EventStepFacts
  <2>3. ProcessEvent(x, es[i]) \in Controllers /\ Grows(x, ProcessEvent(x, es[i]))
    BY <2>1, EventFacts, EventGrows
  <2>4. Grows(d, ProcessEvent(x, es[i])) BY <2>1, <2>3, GrowsMore
  <2> QED BY <2>2, <2>3, <2>4
<1> HIDE DEF Good
<1>3. EventStep \in [Controllers -> [EventSample -> Controllers]] BY EventStepFacts
<1>4. Fold(EventStep, d, es, Controllers) \in Good BY <1>1, <1>2, <1>3, FoldKeeps
<1>5. ProcessEvents(d, es) = Fold(EventStep, d, es, Controllers) BY EventsAreFolded
<1> QED BY <1>4, <1>5 DEF Good

LEMMA EventsNone ==
  ASSUME NEW d \in Controllers
  PROVE  ProcessEvents(d, <<>>) = d
<1> HIDE DEF Controllers, EventSample
<1>1. <<>> \in Seq(EventSample) OBVIOUS
<1> QED BY <1>1, EventsAreFolded, FoldEmpty, ZenonT(30)

LEMMA EventsAppend ==
  ASSUME NEW d \in Controllers, NEW es \in Seq(EventSample), NEW e \in EventSample
  PROVE  ProcessEvents(d, Append(es, e)) = ProcessEvent(ProcessEvents(d, es), e)
<1> HIDE DEF Controllers, EventSample
<1>1. Append(es, e) \in Seq(EventSample) OBVIOUS
<1>2. EventStep \in [Controllers -> [EventSample -> Controllers]] BY EventStepFacts
<1>3. Fold(EventStep, d, Append(es, e), Controllers)
        = EventStep[Fold(EventStep, d, es, Controllers)][e]
  <2> DEFINE D == Controllers
             E == EventSample
             st == EventStep
  <2> HIDE DEF D, E, st
  <2>1. d \in D /\ es \in Seq(E) /\ e \in E /\ Stepping(st, D, E)
    BY <1>2 DEF D, E, st, Stepping
  <2>2. Fold(st, d, Append(es, e), D) = st[Fold(st, d, es, D)][e]
    BY ONLY <2>1, FoldAppend
  <2> QED BY <2>2 DEF st, D
<1>4. /\ ProcessEvents(d, es) = Fold(EventStep, d, es, Controllers)
      /\ ProcessEvents(d, Append(es, e)) = Fold(EventStep, d, Append(es, e), Controllers)
  BY <1>1, EventsAreFolded
<1>5. ProcessEvents(d, es) \in Controllers BY EventsType
<1>6. EventStep[ProcessEvents(d, es)][e] = ProcessEvent(ProcessEvents(d, es), e)
  BY <1>5, EventStepFacts
<1> QED BY <1>3, <1>4, <1>6

(* Does an event tell of x?                                                *)
Told(x, es) == \E i \in DOMAIN es : es[i].value.id = x

(* What events that do not tell of x leave as it was.                      *)
Same(d, d1, x) ==
  /\ d1.acted[x] = d.acted[x]
  /\ x \in d1.pressed <=> x \in d.pressed
  /\ x \in d1.known <=> x \in d.known

LEMMA EventsApart ==
  ASSUME NEW d \in Controllers, NEW es \in Seq(EventSample), NEW x \in Buttons, ~Told(x, es)
  PROVE  Same(d, ProcessEvents(d, es), x)
<1> DEFINE Good == {y \in Controllers : Same(d, y, x)}
<1> HIDE DEF Controllers, EventSample
<1>1. Good \in SUBSET Controllers /\ d \in Good BY DEF Same
<1>2. ASSUME NEW y \in Good, NEW i \in 1 .. Len(es) PROVE EventStep[y][es[i]] \in Good
  <2>1. y \in Controllers /\ es[i] \in EventSample /\ Same(d, y, x) OBVIOUS
  <2>2. EventStep[y][es[i]] = ProcessEvent(y, es[i]) BY <2>1, EventStepFacts
  <2>3. es[i].value.id # x BY DEF Told
  <2> DEFINE e == es[i]
             y1 == ProcessEvent(y, e)
  <2>4. /\ y1 \in Controllers
        /\ IF e.time > y.lastEvent THEN Applied(y, e, y1) ELSE y1 = y
    BY <2>1, EventFacts
  <2> HIDE DEF y1, e
  <2>5. Same(d, y1, x)
    <3>1. CASE ~(e.time > y.lastEvent) BY <2>1, <2>4, <3>1
    <3>2. CASE e.time > y.lastEvent BY <2>1, <2>3, <2>4, <3>2 DEF Same, Applied, e
    <3> QED BY <3>1, <3>2
  <2> QED BY <2>2, <2>4, <2>5 DEF y1, e
<1> HIDE DEF Good
<1>3. EventStep \in [Controllers -> [EventSample -> Controllers]] BY EventStepFacts
<1>4. Fold(EventStep, d, es, Controllers) \in Good BY <1>1, <1>2, <1>3, FoldKeeps
<1>5. ProcessEvents(d, es) = Fold(EventStep, d, es, Controllers) BY EventsAreFolded
<1> QED BY <1>4, <1>5 DEF Good

LEMMA ToldMore ==
  ASSUME NEW es \in Seq(EventSample), NEW e \in EventSample, NEW x
  PROVE  Told(x, Append(es, e)) <=> Told(x, es) \/ e.value.id = x
<1> HIDE DEF EventSample
<1>1. /\ DOMAIN es = 1 .. Len(es) /\ Len(es) \in Nat
      /\ DOMAIN Append(es, e) = 1 .. Len(es) + 1 /\ Append(es, e)[Len(es) + 1] = e
      /\ \A i \in 1 .. Len(es) : Append(es, e)[i] = es[i]
  OBVIOUS
<1> DEFINE n == Len(es)
           t == Append(es, e)
<1> HIDE DEF t, n
<1>2. DOMAIN es = 1 .. n /\ n \in Nat /\ DOMAIN t = 1 .. n + 1 /\ t[n + 1] = e
      /\ \A i \in 1 .. n : t[i] = es[i]
  BY <1>1 DEF t, n
<1>3. ASSUME Told(x, t) PROVE Told(x, es) \/ e.value.id = x
  <2>1. PICK i \in 1 .. n + 1 : t[i].value.id = x BY <1>2, <1>3 DEF Told
  <2>2. CASE i = n + 1 BY <1>2, <2>1, <2>2
  <2>3. CASE i # n + 1
    <3>1. i \in 1 .. n BY <1>2, <2>3
    <3> QED BY <1>2, <2>1, <3>1 DEF Told
  <2> QED BY <2>2, <2>3
<1>4. ASSUME Told(x, es) PROVE Told(x, t)
  <2>1. PICK i \in 1 .. n : es[i].value.id = x BY <1>2, <1>4 DEF Told
  <2>2. i \in 1 .. n + 1 BY <1>2
  <2> QED BY <1>2, <2>1, <2>2 DEF Told
<1>5. ASSUME e.value.id = x PROVE Told(x, t)
  <2>1. n + 1 \in 1 .. n + 1 BY <1>2
  <2> QED BY <1>2, <1>5, <2>1 DEF Told
<1> QED BY <1>3, <1>4, <1>5 DEF t

-----------------------------------------------------------------------------
(* Frames, one after the other                                             *)

LEMMA SamplesType ==
  ASSUME NEW d \in Controllers, NEW f \in Frame
  PROVE  /\ ProcessSamples(d, f) \in Controllers
         /\ Grows(d, ProcessSamples(d, f))
<1> DEFINE d1 == ProcessEvents(d, f.events)
<1>1. f.events \in Seq(EventSample) /\ f.state \in Map BY FrameFacts
<1>2. d1 \in Controllers /\ Grows(d, d1) BY <1>1, EventsType
<1>3. ProcessSamples(d, f) = WithStatus(d1, f.state) BY DEF ProcessSamples
<1> HIDE DEF d1, Controllers
<1>4. CASE "inputs" \notin DOMAIN f.state
  <2>1. ProcessSamples(d, f) = d1 BY <1>3, <1>4 DEF WithStatus
  <2> QED BY <1>2, <2>1
<1>5. CASE "inputs" \in DOMAIN f.state
  <2> DEFINE h == f.state["inputs"].value
  <2>1. f.state["inputs"] \in StateSample BY <1>1, <1>5, MapFacts
  <2>2. h \in SUBSET Buttons BY <2>1, WheelFacts DEF StateSample
  <2>3. ProcessSamples(d, f) = ProcessStatus(d1, h) BY <1>3, <1>5 DEF WithStatus
  <2> HIDE DEF h
  <2>4. ProcessStatus(d1, h) \in Controllers /\ Grows(d1, ProcessStatus(d1, h))
    BY <1>2, <2>2, StatusFacts, StatusGrows
  <2>5. Grows(d, ProcessStatus(d1, h)) BY <1>2, <2>4, GrowsMore
  <2> QED BY <2>3, <2>4, <2>5
<1> QED BY <1>4, <1>5

FrameStep == [d \in Controllers |-> [f \in Frame |-> ProcessSamples(d, f)]]

LEMMA FrameStepFacts ==
  /\ FrameStep \in [Controllers -> [Frame -> Controllers]]
  /\ \A d \in Controllers : \A f \in Frame : FrameStep[d][f] = ProcessSamples(d, f)
<1> HIDE DEF Controllers, Frame
<1>1. \A d \in Controllers : \A f \in Frame : ProcessSamples(d, f) \in Controllers
  BY SamplesType
<1> QED BY <1>1 DEF FrameStep

(* What the frames on their way will make of a controller, and then what   *)
(* is pending.                                                             *)
AfterFrames(d, ch) == Fold(FrameStep, d, ch, Controllers)
AllRead(d, ch, p) == ProcessEvents(AfterFrames(d, ch), p)

LEMMA FramesType ==
  ASSUME NEW d \in Controllers, NEW ch \in Seq(Frame)
  PROVE  AfterFrames(d, ch) \in Controllers /\ Grows(d, AfterFrames(d, ch))
<1> DEFINE Good == {x \in Controllers : Grows(d, x)}
<1> HIDE DEF Controllers, Frame
<1>1. Good \in SUBSET Controllers /\ d \in Good BY GrowsNot
<1>2. ASSUME NEW x \in Good, NEW i \in 1 .. Len(ch) PROVE FrameStep[x][ch[i]] \in Good
  <2>1. x \in Controllers /\ ch[i] \in Frame /\ Grows(d, x) OBVIOUS
  <2>2. FrameStep[x][ch[i]] = ProcessSamples(x, ch[i]) BY <2>1, FrameStepFacts
  <2>3. ProcessSamples(x, ch[i]) \in Controllers /\ Grows(x, ProcessSamples(x, ch[i]))
    BY <2>1, SamplesType
  <2>4. Grows(d, ProcessSamples(x, ch[i])) BY <2>1, <2>3, GrowsMore
  <2> QED BY <2>2, <2>3, <2>4
<1> HIDE DEF Good
<1>3. FrameStep \in [Controllers -> [Frame -> Controllers]] BY FrameStepFacts
<1>4. Fold(FrameStep, d, ch, Controllers) \in Good BY <1>1, <1>2, <1>3, FoldKeeps
<1> QED BY <1>4 DEF Good, AfterFrames

LEMMA FramesNone ==
  ASSUME NEW d \in Controllers
  PROVE  AfterFrames(d, <<>>) = d
BY FoldEmpty DEF AfterFrames

LEMMA FramesAppend ==
  ASSUME NEW d \in Controllers, NEW ch \in Seq(Frame), NEW f \in Frame
  PROVE  AfterFrames(d, Append(ch, f)) = ProcessSamples(AfterFrames(d, ch), f)
<1> HIDE DEF Controllers, Frame
<1>1. FrameStep \in [Controllers -> [Frame -> Controllers]] BY FrameStepFacts
<1>2. Fold(FrameStep, d, Append(ch, f), Controllers)
        = FrameStep[Fold(FrameStep, d, ch, Controllers)][f]
  <2> DEFINE D == Controllers
             E == Frame
             st == FrameStep
  <2> HIDE DEF D, E, st
  <2>1. d \in D /\ ch \in Seq(E) /\ f \in E /\ Stepping(st, D, E)
    BY <1>1 DEF D, E, st, Stepping
  <2>2. Fold(st, d, Append(ch, f), D) = st[Fold(st, d, ch, D)][f]
    BY ONLY <2>1, FoldAppend
  <2> QED BY <2>2 DEF st, D
<1>3. AfterFrames(d, ch) \in Controllers BY FramesType
<1>4. FrameStep[AfterFrames(d, ch)][f] = ProcessSamples(AfterFrames(d, ch), f)
  BY <1>3, FrameStepFacts
<1> QED BY <1>2, <1>4 DEF AfterFrames

LEMMA FramesHead ==
  ASSUME NEW d \in Controllers, NEW ch \in Seq(Frame), ch # <<>>
  PROVE  AfterFrames(d, ch) = AfterFrames(ProcessSamples(d, Head(ch)), Tail(ch))
<1> HIDE DEF Controllers, Frame
<1>1. FrameStep \in [Controllers -> [Frame -> Controllers]] BY FrameStepFacts
<1>2. Fold(FrameStep, d, ch, Controllers)
        = Fold(FrameStep, FrameStep[d][Head(ch)], Tail(ch), Controllers)
  <2> DEFINE D == Controllers
             E == Frame
             st == FrameStep
  <2> HIDE DEF D, E, st
  <2>1. d \in D /\ ch \in Seq(E) /\ ch # <<>> /\ Stepping(st, D, E)
    BY <1>1 DEF D, E, st, Stepping
  <2>2. Fold(st, d, ch, D) = Fold(st, st[d][Head(ch)], Tail(ch), D)
    BY ONLY <2>1, FoldHead
  <2> QED BY <2>2 DEF st, D
<1>3. Head(ch) \in Frame OBVIOUS
<1>4. FrameStep[d][Head(ch)] = ProcessSamples(d, Head(ch)) BY <1>3, FrameStepFacts
<1> QED BY <1>2, <1>4 DEF AfterFrames

LEMMA AllReadType ==
  ASSUME NEW d \in Controllers, NEW ch \in Seq(Frame), NEW p \in Seq(EventSample)
  PROVE  /\ AllRead(d, ch, p) \in Controllers
         /\ Grows(AfterFrames(d, ch), AllRead(d, ch, p))
         /\ Grows(d, AllRead(d, ch, p))
<1> HIDE DEF Controllers, Frame, EventSample
<1>1. AfterFrames(d, ch) \in Controllers /\ Grows(d, AfterFrames(d, ch)) BY FramesType
<1>2. /\ AllRead(d, ch, p) \in Controllers
      /\ Grows(AfterFrames(d, ch), AllRead(d, ch, p))
  BY <1>1, EventsType DEF AllRead
<1> QED BY <1>1, <1>2, GrowsMore
-----------------------------------------------------------------------------
(* One dash: it will not have acted too often.  While the connection is    *)
(* pending, the snapshot is to come: whatever it says of the buttons that  *)
(* a pending event tells of, it must not make an action too many.          *)

Bounded(d, h, n) == \A x \in Buttons : Potential(d, h, x) <= n[x]
NoMore(d, n) == \A x \in Buttons : d.acted[x] <= n[x]

SnapshotBounded(d, p, h, n) ==
  \A g \in SUBSET Buttons : \A x \in Buttons :
    (Told(x, p) \/ (x \in g <=> x \in h))
      => Potential(ProcessEvents(ProcessStatus(d, g), p), h, x) <= n[x]

NotTooMany(state, d, ch, p, h, n) ==
  /\ state = "accepted" => Bounded(AllRead(d, ch, p), h, n)
  /\ state = "closing" => Bounded(AfterFrames(d, ch), h, n)
  /\ state = "waiting" => Bounded(d, h, n)
  /\ state = "pending" => SnapshotBounded(d, p, h, n)
  /\ NoMore(d, n)

LEMMA BoundedBefore ==
  ASSUME NEW d \in Controllers, NEW d1 \in Controllers, Grows(d, d1),
         NEW h \in SUBSET Buttons, NEW n \in [Buttons -> Nat], Bounded(d1, h, n)
  PROVE  Bounded(d, h, n)
<1> SUFFICES ASSUME NEW x \in Buttons PROVE Potential(d, h, x) <= n[x] BY DEF Bounded
<1>1. Potential(d, h, x) \in Nat /\ Potential(d1, h, x) \in Nat /\ n[x] \in Nat BY ActedType
<1>2. Potential(d, h, x) <= Potential(d1, h, x) /\ Potential(d1, h, x) <= n[x]
  BY DEF Grows, Bounded
<1> QED BY <1>1, <1>2

LEMMA BoundedNoMore ==
  ASSUME NEW d \in Controllers, NEW h \in SUBSET Buttons, NEW n \in [Buttons -> Nat],
         Bounded(d, h, n)
  PROVE  NoMore(d, n)
<1> SUFFICES ASSUME NEW x \in Buttons PROVE d.acted[x] <= n[x] BY DEF NoMore
<1>1. /\ Potential(d, h, x) \in Nat /\ d.acted[x] \in Nat /\ n[x] \in Nat
      /\ d.acted[x] <= Potential(d, h, x)
  BY ActedType
<1>2. Potential(d, h, x) <= n[x] BY DEF Bounded
<1> QED BY <1>1, <1>2

LEMMA SnapshotPotential ==
  ASSUME NEW d \in Controllers, NEW g \in SUBSET Buttons, NEW h \in SUBSET Buttons,
         NEW x \in Buttons, x \in g <=> x \in h
  PROVE  Potential(ProcessStatus(d, g), h, x) = Potential(d, h, x)
BY StatusFacts DEF Potential

LEMMA SnapshotThenEvents ==
  ASSUME NEW d \in Controllers, NEW g \in SUBSET Buttons, NEW p \in Seq(EventSample)
  PROVE  /\ ProcessEvents(ProcessStatus(d, g), p) \in Controllers
         /\ Grows(ProcessStatus(d, g), ProcessEvents(ProcessStatus(d, g), p))
         /\ Grows(d, ProcessEvents(ProcessStatus(d, g), p))
<1> HIDE DEF Controllers, EventSample
<1>1. ProcessStatus(d, g) \in Controllers /\ Grows(d, ProcessStatus(d, g))
  BY StatusFacts, StatusGrows
<1>2. /\ ProcessEvents(ProcessStatus(d, g), p) \in Controllers
      /\ Grows(ProcessStatus(d, g), ProcessEvents(ProcessStatus(d, g), p))
  BY <1>1, EventsType
<1> QED BY <1>1, <1>2, GrowsMore

LEMMA PendingBounded ==
  ASSUME NEW d \in Controllers, NEW p \in Seq(EventSample), NEW h \in SUBSET Buttons,
         NEW n \in [Buttons -> Nat], SnapshotBounded(d, p, h, n)
  PROVE  Bounded(d, h, n)
<1> HIDE DEF Controllers, EventSample
<1> SUFFICES ASSUME NEW x \in Buttons PROVE Potential(d, h, x) <= n[x] BY DEF Bounded
<1> DEFINE s == ProcessStatus(d, h)
           all == ProcessEvents(s, p)
<1>1. s \in Controllers BY StatusFacts
<1>2. all \in Controllers /\ Grows(s, all) BY SnapshotThenEvents
<1>3. Potential(s, h, x) = Potential(d, h, x) BY SnapshotPotential
<1>4. Potential(all, h, x) <= n[x] BY DEF SnapshotBounded
<1> HIDE DEF s, all
<1>5. Potential(s, h, x) <= Potential(all, h, x) BY <1>2 DEF Grows
<1>6. Potential(s, h, x) \in Nat /\ Potential(all, h, x) \in Nat /\ n[x] \in Nat
  BY <1>1, <1>2, ActedType
<1> QED BY <1>3, <1>4, <1>5, <1>6

LEMMA ToldNothing == \A x : ~Told(x, <<>>)
BY DEF Told

LEMMA BoundedPending ==
  ASSUME NEW d \in Controllers, NEW h \in SUBSET Buttons, NEW n, Bounded(d, h, n)
  PROVE  SnapshotBounded(d, <<>>, h, n)
<1> HIDE DEF Controllers
<1> SUFFICES ASSUME NEW g \in SUBSET Buttons, NEW x \in Buttons, x \in g <=> x \in h
             PROVE  Potential(ProcessEvents(ProcessStatus(d, g), <<>>), h, x) <= n[x]
  BY ToldNothing DEF SnapshotBounded
<1>1. ProcessStatus(d, g) \in Controllers BY StatusFacts
<1>2. ProcessEvents(ProcessStatus(d, g), <<>>) = ProcessStatus(d, g) BY <1>1, EventsNone
<1>3. Potential(ProcessStatus(d, g), h, x) = Potential(d, h, x) BY SnapshotPotential
<1> QED BY <1>2, <1>3 DEF Bounded

(* A dash that is not off or leaving.                                      *)
LEMMA DashBounded ==
  ASSUME NEW state \in {"accepted", "closing", "waiting", "pending"},
         NEW d \in Controllers, NEW ch \in Seq(Frame), NEW p \in Seq(EventSample),
         NEW h \in SUBSET Buttons, NEW n \in [Buttons -> Nat], NotTooMany(state, d, ch, p, h, n)
  PROVE  Bounded(d, h, n)
<1> HIDE DEF Controllers, EventSample, Frame
<1>1. CASE state = "accepted"
  <2>1. AllRead(d, ch, p) \in Controllers /\ Grows(d, AllRead(d, ch, p)) BY AllReadType
  <2> QED BY <1>1, <2>1, BoundedBefore DEF NotTooMany
<1>2. CASE state = "closing"
  <2>1. AfterFrames(d, ch) \in Controllers /\ Grows(d, AfterFrames(d, ch)) BY FramesType
  <2> QED BY <1>2, <2>1, BoundedBefore DEF NotTooMany
<1>3. CASE state = "waiting" BY <1>3 DEF NotTooMany
<1>4. CASE state = "pending" BY <1>4, PendingBounded DEF NotTooMany
<1> QED BY <1>1, <1>2, <1>3, <1>4

LEMMA BoundedEdge ==
  ASSUME NEW d \in Controllers, NEW h \in SUBSET Buttons, NEW b \in Buttons,
         NEW n \in [Buttons -> Nat], Bounded(d, h, n)
  PROVE  Bounded(d, AfterEdge(h, b), Pressed(n, h, b))
BY EdgeUntold DEF Bounded

LEMMA NoMoreEdge ==
  ASSUME NEW d \in Controllers, NEW h \in SUBSET Buttons, NEW b \in Buttons,
         NEW n \in [Buttons -> Nat], NoMore(d, n)
  PROVE  NoMore(d, Pressed(n, h, b))
<1> SUFFICES ASSUME NEW x \in Buttons PROVE d.acted[x] <= Pressed(n, h, b)[x] BY DEF NoMore
<1>1. d.acted[x] \in Nat /\ n[x] \in Nat /\ d.acted[x] <= n[x] BY ActedType DEF NoMore
<1>2. Pressed(n, h, b)[x] = n[x] \/ Pressed(n, h, b)[x] = n[x] + 1
  BY EdgeFacts, EdgeElsewhere
<1> QED BY <1>1, <1>2

(* An edge that this dash is told of by an event ...                       *)
LEMMA SnapshotEdge ==
  ASSUME NEW d \in Controllers, NEW p \in Seq(EventSample), NEW h \in SUBSET Buttons,
         NEW n \in [Buttons -> Nat], SnapshotBounded(d, p, h, n), NoMore(d, n),
         NEW e \in EventSample, e.value.pressed <=> e.value.id \notin h
  PROVE  SnapshotBounded(d, Append(p, e), AfterEdge(h, e.value.id), Pressed(n, h, e.value.id))
<1> HIDE DEF Controllers, EventSample
<1> DEFINE b == e.value.id
           h1 == AfterEdge(h, b)
           n1 == Pressed(n, h, b)
<1>0. b \in Buttons BY WheelFacts
<1> SUFFICES ASSUME NEW g \in SUBSET Buttons, NEW x \in Buttons,
                    Told(x, Append(p, e)) \/ (x \in g <=> x \in h1)
             PROVE  Potential(ProcessEvents(ProcessStatus(d, g), Append(p, e)), h1, x) <= n1[x]
  BY DEF SnapshotBounded
<1> DEFINE s == ProcessStatus(d, g)
           all == ProcessEvents(s, p)
<1>1. s \in Controllers /\ all \in Controllers BY StatusFacts, SnapshotThenEvents
<1>2. ProcessEvents(s, Append(p, e)) = ProcessEvent(all, e) BY <1>1, EventsAppend
<1>3. CASE Told(x, p) \/ (x \in g <=> x \in h)
  <2>1. Potential(all, h, x) <= n[x] BY <1>3 DEF SnapshotBounded
  <2> HIDE DEF all
  <2>2. Potential(ProcessEvent(all, e), h1, x) <= n1[x] BY <1>1, <2>1, EdgeTold
  <2> QED BY <1>2, <2>2
<1>4. CASE ~(Told(x, p) \/ (x \in g <=> x \in h))
  <2>1. x = b
    <3>1. CASE Told(x, Append(p, e)) BY <1>4, <3>1, ToldMore
    <3>2. CASE x \in g <=> x \in h1
      <4>1. ASSUME x # b PROVE x \in h1 <=> x \in h
        <5> HIDE DEF b
        <5> QED BY <1>0, <4>1, EdgeOthers
      <4> HIDE DEF h1, b
      <4> QED BY <1>4, <3>2, <4>1
    <3> QED BY <3>1, <3>2
  <2>2. Same(s, all, x) BY <1>1, <1>4, EventsApart
  <2>3. /\ s.known = Buttons /\ s.pressed = g
        /\ s.acted[x] = IF x \in g /\ x \notin d.pressed /\ x \in d.known
                        THEN d.acted[x] + 1 ELSE d.acted[x]
    BY StatusFacts
  <2> DEFINE d1 == ProcessEvent(all, e)
  <2>4. IF e.time > all.lastEvent THEN Applied(all, e, d1) ELSE d1 = all BY <1>1, EventFacts
  <2> HIDE DEF s, all, d1
  <2>5. /\ x \in all.known /\ (x \in all.pressed <=> x \in g)
        /\ all.acted[x] = s.acted[x]
    BY <2>2, <2>3 DEF Same
  <2>6. x \in g <=> e.value.pressed BY <1>4, <2>1
  <2>7. d1.acted[x] = s.acted[x] /\ (x \in d1.pressed <=> x \in g)
    <3>1. CASE e.time > all.lastEvent
      <4>1. Applied(all, e, d1) BY <2>4, <3>1
      <4> QED BY <2>1, <2>5, <2>6, <4>1 DEF Applied
    <3>2. CASE ~(e.time > all.lastEvent) BY <2>4, <2>5, <3>2
    <3> QED BY <3>1, <3>2
  <2>8. /\ b \in h1 <=> b \notin h
        /\ n1[b] = IF b \in h THEN n[b] ELSE n[b] + 1
    <3> HIDE DEF b
    <3> QED BY <1>0, EdgeFacts
  <2>9. x \in h1 <=> x \notin h
    <3> HIDE DEF b, h1
    <3> QED BY <2>1, <2>8
  <2>10. Potential(d1, h1, x) = s.acted[x] BY <1>4, <2>7, <2>9 DEF Potential
  <2>11. n1[x] = IF x \in h THEN n[x] ELSE n[x] + 1
    <3> HIDE DEF b, n1
    <3> QED BY <2>1, <2>8
  <2>12. d.acted[x] \in Nat /\ n[x] \in Nat /\ d.acted[x] <= n[x] BY ActedType DEF NoMore
  <2> HIDE DEF h1, n1, b
  <2>13. x \in g <=> x \notin h BY <1>4
  <2>14. s.acted[x] <= n1[x] BY <2>3, <2>11, <2>12, <2>13
  <2> QED BY <1>2, <2>10, <2>14 DEF s, all, d1
<1> QED BY <1>3, <1>4

LEMMA NotTooManyTold ==
  ASSUME NEW state, NEW d \in Controllers, NEW ch \in Seq(Frame), NEW p \in Seq(EventSample),
         NEW h \in SUBSET Buttons, NEW n \in [Buttons -> Nat], NotTooMany(state, d, ch, p, h, n),
         NEW e \in EventSample, e.value.pressed <=> e.value.id \notin h
  PROVE  NotTooMany(state, d, ch, Append(p, e), AfterEdge(h, e.value.id),
                    Pressed(n, h, e.value.id))
<1> HIDE DEF Controllers, EventSample, Frame
<1> DEFINE b == e.value.id
           h1 == AfterEdge(h, b)
           n1 == Pressed(n, h, b)
<1>0. b \in Buttons BY WheelFacts
<1>1. ASSUME state = "accepted" PROVE Bounded(AllRead(d, ch, Append(p, e)), h1, n1)
  <2> DEFINE all == AllRead(d, ch, p)
  <2>1. AfterFrames(d, ch) \in Controllers BY FramesType
  <2>2. AllRead(d, ch, Append(p, e)) = ProcessEvent(all, e)
    BY <2>1, EventsAppend DEF AllRead
  <2>3. all \in Controllers BY AllReadType
  <2>4. Bounded(all, h, n) BY <1>1 DEF NotTooMany
  <2> HIDE DEF all
  <2>5. ASSUME NEW x \in Buttons PROVE Potential(ProcessEvent(all, e), h1, x) <= n1[x]
    <3>1. Potential(all, h, x) <= n[x] BY <2>4 DEF Bounded
    <3> QED BY <2>3, <3>1, EdgeTold
  <2> QED BY <2>2, <2>5 DEF Bounded
<1>2. ASSUME state = "closing" PROVE Bounded(AfterFrames(d, ch), h1, n1)
  <2>1. AfterFrames(d, ch) \in Controllers BY FramesType
  <2>2. Bounded(AfterFrames(d, ch), h, n) BY <1>2 DEF NotTooMany
  <2> QED BY <1>0, <2>1, <2>2, BoundedEdge
<1>3. ASSUME state = "waiting" PROVE Bounded(d, h1, n1)
  BY <1>0, <1>3, BoundedEdge DEF NotTooMany
<1>4. ASSUME state = "pending" PROVE SnapshotBounded(d, Append(p, e), h1, n1)
  BY <1>4, SnapshotEdge DEF NotTooMany
<1>5. NoMore(d, n1) BY <1>0, NoMoreEdge DEF NotTooMany
<1> HIDE DEF h1, n1
<1>6. NotTooMany(state, d, ch, Append(p, e), h1, n1)
  BY <1>1, <1>2, <1>3, <1>4, <1>5 DEF NotTooMany
<1> QED BY <1>6 DEF h1, n1, b

(* ... and one that it is not told of.                                     *)
LEMMA NotTooManyUntold ==
  ASSUME NEW state, state # "accepted", NEW d \in Controllers, NEW ch \in Seq(Frame),
         NEW p \in Seq(EventSample), state = "pending" => p = <<>>,
         NEW h \in SUBSET Buttons, NEW n \in [Buttons -> Nat], NotTooMany(state, d, ch, p, h, n),
         NEW b \in Buttons
  PROVE  NotTooMany(state, d, ch, p, AfterEdge(h, b), Pressed(n, h, b))
<1> HIDE DEF Controllers, EventSample, Frame
<1> DEFINE h1 == AfterEdge(h, b)
           n1 == Pressed(n, h, b)
<1>0. h1 \in SUBSET Buttons BY EdgeFacts
<1>2. ASSUME state = "closing" PROVE Bounded(AfterFrames(d, ch), h1, n1)
  <2>1. AfterFrames(d, ch) \in Controllers BY FramesType
  <2>2. Bounded(AfterFrames(d, ch), h, n) BY <1>2 DEF NotTooMany
  <2> QED BY <2>1, <2>2, BoundedEdge
<1>3. ASSUME state = "waiting" PROVE Bounded(d, h1, n1)
  BY <1>3, BoundedEdge DEF NotTooMany
<1>4. ASSUME state = "pending" PROVE SnapshotBounded(d, p, h1, n1)
  <2>1. SnapshotBounded(d, p, h, n) BY <1>4 DEF NotTooMany
  <2>2. Bounded(d, h, n) BY <2>1, PendingBounded
  <2>3. Bounded(d, h1, n1) BY <2>2, BoundedEdge
  <2>4. SnapshotBounded(d, <<>>, h1, n1) BY <1>0, <2>3, BoundedPending
  <2> QED BY <1>4, <2>4
<1>5. NoMore(d, n1) BY NoMoreEdge DEF NotTooMany
<1> HIDE DEF h1, n1
<1>6. NotTooMany(state, d, ch, p, h1, n1) BY <1>2, <1>3, <1>4, <1>5 DEF NotTooMany
<1> QED BY <1>6 DEF h1, n1
(* A flush sends what was pending; its status, if it has one, tells what   *)
(* is held.                                                                *)
TellsHeld(f, h) == "inputs" \in DOMAIN f.state => f.state["inputs"].value = h

LEMMA FlushRead ==
  ASSUME NEW d \in Controllers, NEW ch \in Seq(Frame), NEW f \in Frame,
         NEW h \in SUBSET Buttons, TellsHeld(f, h)
  PROVE  AllRead(d, Append(ch, f), <<>>) =
           IF "inputs" \in DOMAIN f.state THEN ProcessStatus(AllRead(d, ch, f.events), h)
           ELSE AllRead(d, ch, f.events)
<1> HIDE DEF Controllers, Frame
<1> DEFINE t == Append(ch, f)
           s == AfterFrames(d, ch)
           u == AfterFrames(d, t)
<1>1. t \in Seq(Frame) /\ s \in Controllers BY FramesType
<1>2. u = ProcessSamples(s, f) BY FramesAppend
<1>3. u \in Controllers
  <2> HIDE DEF t
  <2> QED BY <1>1, FramesType
<1> HIDE DEF u
<1>4. AllRead(d, t, <<>>) = u BY <1>3, EventsNone DEF AllRead, u
<1>5. ProcessSamples(s, f) = WithStatus(AllRead(d, ch, f.events), f.state)
  BY DEF ProcessSamples, AllRead
<1> QED BY <1>2, <1>4, <1>5 DEF WithStatus, TellsHeld

LEMMA NotTooManyFlush ==
  ASSUME NEW d \in Controllers, NEW ch \in Seq(Frame), NEW f \in Frame,
         NEW h \in SUBSET Buttons, NEW n \in [Buttons -> Nat],
         NotTooMany("accepted", d, ch, f.events, h, n), TellsHeld(f, h)
  PROVE  NotTooMany("accepted", d, Append(ch, f), <<>>, h, n)
<1> HIDE DEF Controllers, Frame
<1> DEFINE all == AllRead(d, ch, f.events)
           all1 == AllRead(d, Append(ch, f), <<>>)
<1>1. Bounded(all, h, n) /\ NoMore(d, n) BY DEF NotTooMany
<1>2. f.events \in Seq(EventSample) BY FrameFacts
<1>3. all \in Controllers BY <1>2, AllReadType
<1>4. all1 = IF "inputs" \in DOMAIN f.state THEN ProcessStatus(all, h) ELSE all BY FlushRead
<1> HIDE DEF all, all1
<1>5. ASSUME NEW x \in Buttons PROVE Potential(ProcessStatus(all, h), h, x) = Potential(all, h, x)
  BY <1>3, SnapshotPotential
<1>6. Bounded(all1, h, n) BY <1>1, <1>4, <1>5 DEF Bounded
<1> QED BY <1>1, <1>6 DEF NotTooMany, all1

LEMMA NotTooManyFlushPending ==
  ASSUME NEW d \in Controllers, NEW ch \in Seq(Frame), NEW p \in Seq(EventSample),
         NEW h \in SUBSET Buttons, NEW n \in [Buttons -> Nat],
         NotTooMany("pending", d, ch, p, h, n)
  PROVE  NotTooMany("pending", d, ch, <<>>, h, n)
<1> HIDE DEF Controllers, Frame, EventSample
<1>1. SnapshotBounded(d, p, h, n) /\ NoMore(d, n) BY DEF NotTooMany
<1>2. SnapshotBounded(d, <<>>, h, n) BY <1>1, PendingBounded, BoundedPending
<1> QED BY <1>1, <1>2 DEF NotTooMany

(* The server closes the connection, the dash notices it or stops.         *)
LEMMA NotTooManyClosed ==
  ASSUME NEW state \in {"accepted", "pending"},
         NEW d \in Controllers, NEW ch \in Seq(Frame), NEW p \in Seq(EventSample),
         NEW h \in SUBSET Buttons, NEW n \in [Buttons -> Nat],
         NotTooMany(state, d, ch, p, h, n), state = "pending" => ch = <<>>, NEW p1
  PROVE  NotTooMany("closing", d, ch, p1, h, n)
<1> HIDE DEF Controllers, Frame, EventSample
<1>1. AfterFrames(d, ch) \in Controllers BY FramesType
<1>2. CASE state = "accepted"
  <2>1. /\ AllRead(d, ch, p) \in Controllers
        /\ Grows(AfterFrames(d, ch), AllRead(d, ch, p))
    BY AllReadType
  <2>2. Bounded(AllRead(d, ch, p), h, n) /\ NoMore(d, n) BY <1>2 DEF NotTooMany
  <2>3. Bounded(AfterFrames(d, ch), h, n) BY <1>1, <2>1, <2>2, BoundedBefore
  <2> QED BY <2>2, <2>3 DEF NotTooMany
<1>3. CASE state = "pending"
  <2>1. Bounded(d, h, n) BY DashBounded
  <2>2. AfterFrames(d, ch) = d BY <1>3, FramesNone
  <2>3. NoMore(d, n) BY DEF NotTooMany
  <2> QED BY <2>1, <2>2, <2>3 DEF NotTooMany
<1> QED BY <1>2, <1>3

LEMMA NotTooManyWaiting ==
  ASSUME NEW state \in {"accepted", "closing", "waiting", "pending"},
         NEW d \in Controllers, NEW ch \in Seq(Frame), NEW p \in Seq(EventSample),
         NEW h \in SUBSET Buttons, NEW n \in [Buttons -> Nat],
         NotTooMany(state, d, ch, p, h, n), NEW ch1, NEW p1
  PROVE  /\ NotTooMany("waiting", d, ch1, p1, h, n)
         /\ NotTooMany("pending", d, ch1, <<>>, h, n)
<1> HIDE DEF Controllers, Frame, EventSample
<1>1. Bounded(d, h, n) BY DashBounded
<1>2. SnapshotBounded(d, <<>>, h, n) BY <1>1, BoundedPending
<1> QED BY <1>1, <1>2 DEF NotTooMany

LEMMA NotTooManyOff ==
  ASSUME NEW state, NEW state1 \in {"off", "gone"}, NEW d, NEW ch, NEW p, NEW h, NEW n,
         NotTooMany(state, d, ch, p, h, n), NEW ch1, NEW p1
  PROVE  NotTooMany(state1, d, ch1, p1, h, n)
BY DEF NotTooMany

LEMMA NotTooManyNew ==
  ASSUME NEW d, NEW d1, d1.known = {}, d1.acted = d.acted,
         NEW ch, NEW p, NEW h, NEW n, NotTooMany("off", d, ch, p, h, n), NEW ch1, NEW p1
  PROVE  NotTooMany("waiting", d1, ch1, p1, h, n)
BY DEF NotTooMany, NoMore, Bounded, Potential

(* The server accepts the connection.  If it has nothing to show, nothing  *)
(* was pending.                                                            *)
LEMMA SnapshotRead ==
  ASSUME NEW d \in Controllers, NEW p \in Seq(EventSample), NEW h \in SUBSET Buttons,
         NEW f \in Frame, f.events = <<>>, "inputs" \in DOMAIN f.state, TellsHeld(f, h)
  PROVE  AllRead(d, <<f>>, p) = ProcessEvents(ProcessStatus(d, h), p)
<1> HIDE DEF Controllers, Frame, EventSample
<1>1. <<>> \in Seq(Frame) /\ <<f>> = Append(<<>>, f) OBVIOUS
<1>2. AfterFrames(d, <<f>>) = ProcessSamples(d, f) BY <1>1, FramesAppend, FramesNone
<1>3. ProcessEvents(d, f.events) = d BY EventsNone
<1>4. ProcessSamples(d, f) = ProcessStatus(d, h)
  BY <1>3 DEF ProcessSamples, WithStatus, TellsHeld
<1> QED BY <1>2, <1>4 DEF AllRead

LEMMA NotTooManyAccepted ==
  ASSUME NEW d \in Controllers, NEW ch \in Seq(Frame), NEW p \in Seq(EventSample),
         NEW h \in SUBSET Buttons, NEW n \in [Buttons -> Nat],
         NotTooMany("pending", d, ch, p, h, n),
         NEW f \in Frame, f.events = <<>>, "inputs" \in DOMAIN f.state, TellsHeld(f, h)
  PROVE  NotTooMany("accepted", d, <<f>>, p, h, n)
<1> HIDE DEF Controllers, Frame, EventSample
<1>1. AllRead(d, <<f>>, p) = ProcessEvents(ProcessStatus(d, h), p) BY SnapshotRead
<1>2. SnapshotBounded(d, p, h, n) /\ NoMore(d, n) BY DEF NotTooMany
<1>3. Bounded(ProcessEvents(ProcessStatus(d, h), p), h, n)
  BY <1>2 DEF SnapshotBounded, Bounded
<1> QED BY <1>1, <1>2, <1>3 DEF NotTooMany

LEMMA NothingRead ==
  ASSUME NEW d \in Controllers
  PROVE  AllRead(d, <<>>, <<>>) = d
BY FramesNone, EventsNone DEF AllRead

LEMMA NotTooManyAcceptedSilently ==
  ASSUME NEW d \in Controllers, NEW ch \in Seq(Frame), NEW p \in Seq(EventSample),
         NEW h \in SUBSET Buttons, NEW n \in [Buttons -> Nat],
         NotTooMany("pending", d, ch, p, h, n)
  PROVE  NotTooMany("accepted", d, <<>>, <<>>, h, n)
<1> HIDE DEF Controllers, Frame, EventSample
<1>1. Bounded(d, h, n) BY DashBounded
<1> QED BY <1>1, NothingRead DEF NotTooMany

LEMMA NotTooManyRead ==
  ASSUME NEW state \in {"accepted", "closing"},
         NEW d \in Controllers, NEW ch \in Seq(Frame), NEW p \in Seq(EventSample),
         NEW h \in SUBSET Buttons, NEW n \in [Buttons -> Nat],
         NotTooMany(state, d, ch, p, h, n), ch # <<>>
  PROVE  NotTooMany(state, ProcessSamples(d, Head(ch)), Tail(ch), p, h, n)
<1> HIDE DEF Controllers, Frame, EventSample
<1> DEFINE d1 == ProcessSamples(d, Head(ch))
           t == Tail(ch)
<1>1. Head(ch) \in Frame /\ t \in Seq(Frame) OBVIOUS
<1>2. d1 \in Controllers BY <1>1, SamplesType
<1>3. AfterFrames(d, ch) = AfterFrames(d1, t) BY FramesHead
<1> HIDE DEF d1, t
<1>4. state = "accepted" => Bounded(AllRead(d1, t, p), h, n) BY <1>3 DEF NotTooMany, AllRead
<1>5. state = "closing" => Bounded(AfterFrames(d1, t), h, n) BY <1>3 DEF NotTooMany
<1>6. NoMore(d1, n)
  <2>1. CASE state = "accepted"
    <3>1. AllRead(d1, t, p) \in Controllers /\ Grows(d1, AllRead(d1, t, p))
      BY <1>1, <1>2, AllReadType
    <3> QED BY <1>2, <1>4, <2>1, <3>1, BoundedBefore, BoundedNoMore
  <2>2. CASE state = "closing"
    <3>1. AfterFrames(d1, t) \in Controllers /\ Grows(d1, AfterFrames(d1, t))
      BY <1>1, <1>2, FramesType
    <3> QED BY <1>2, <1>5, <2>2, <3>1, BoundedBefore, BoundedNoMore
  <2> QED BY <2>1, <2>2
<1>7. NotTooMany(state, d1, t, p, h, n) BY <1>4, <1>5, <1>6 DEF NotTooMany
<1> QED BY <1>7 DEF d1, t
-----------------------------------------------------------------------------
(* One dash: it will have acted on every press.  When it has read          *)
(* everything, it takes for pressed what is held, so that the next press   *)
(* is a change to it, and the event of that press is newer than any it     *)
(* knows of.                                                               *)

Coherent(d, h) == \A x \in d.known : x \in d.pressed <=> x \in h
AtLeast(d, m) == \A x \in Buttons : m[x] <= d.acted[x]

SnapshotCoherent(d, p, h, t) ==
  \A g \in SUBSET Buttons :
    /\ ProcessEvents(ProcessStatus(d, g), p).lastEvent <= t
    /\ \A x \in Buttons :
         (Told(x, p) \/ (x \in g <=> x \in h))
           => (x \in ProcessEvents(ProcessStatus(d, g), p).pressed <=> x \in h)

UpToDate(d, h, t, m) == Coherent(d, h) /\ d.lastEvent <= t /\ AtLeast(d, m)

EachOne(state, d, ch, p, h, t, m) ==
  /\ state = "accepted" => UpToDate(AllRead(d, ch, p), h, t, m)
  /\ state = "closing" => AfterFrames(d, ch).lastEvent <= t
  /\ state = "pending" => m = d.acted /\ SnapshotCoherent(d, p, h, t)
  /\ d.lastEvent <= t

(* The press that is due.                                                  *)
NowDue(m, e) == IF e.value.pressed THEN Plus(m, {e.value.id}) ELSE m

LEMMA NewEdge ==
  ASSUME NEW d \in Controllers, NEW h \in SUBSET Buttons, NEW t \in Nat, NEW e \in EventSample,
         d.lastEvent <= t, e.time = t + 1, e.value.pressed <=> e.value.id \notin h
  PROVE  /\ ProcessEvent(d, e) \in Controllers
         /\ ProcessEvent(d, e).lastEvent = t + 1
         /\ \A x \in Buttons :
              (x = e.value.id \/ (x \in d.pressed <=> x \in h))
                => (x \in ProcessEvent(d, e).pressed <=> x \in AfterEdge(h, e.value.id))
<1> HIDE DEF Controllers, EventSample
<1> DEFINE b == e.value.id
           d1 == ProcessEvent(d, e)
<1>1. b \in Buttons BY WheelFacts
<1>2. d.lastEvent \in Nat BY ControllerFacts
<1>3. e.time > d.lastEvent BY <1>2
<1>4. d1 \in Controllers /\ Applied(d, e, d1) BY <1>3, EventFacts
<1> HIDE DEF d1
<1>5. d1.lastEvent = t + 1 BY <1>4 DEF Applied
<1>6. ASSUME NEW x \in Buttons, x = b \/ (x \in d.pressed <=> x \in h)
      PROVE  x \in d1.pressed <=> x \in AfterEdge(h, b)
  <2>1. CASE x = b
    <3>1. b \in d1.pressed <=> e.value.pressed BY <1>4 DEF Applied
    <3>2. b \in AfterEdge(h, b) <=> b \notin h
      <4> HIDE DEF b
      <4> QED BY <1>1, EdgeNow
    <3> HIDE DEF b
    <3>3. e.value.pressed <=> b \notin h BY DEF b
    <3> QED BY <2>1, <3>1, <3>2, <3>3
  <2>2. CASE x # b
    <3>1. x \in d1.pressed <=> x \in d.pressed BY <1>4, <2>2 DEF Applied
    <3>2. x \in AfterEdge(h, b) <=> x \in h
      <4> HIDE DEF b
      <4> QED BY <1>1, <2>2, EdgeOthers
    <3> QED BY <1>6, <2>2, <3>1, <3>2
  <2> QED BY <2>1, <2>2
<1> QED BY <1>4, <1>5, <1>6 DEF d1

LEMMA UpToDateEdge ==
  ASSUME NEW d \in Controllers, NEW h \in SUBSET Buttons, NEW t \in Nat,
         NEW m \in [Buttons -> Nat], UpToDate(d, h, t, m),
         NEW e \in EventSample, e.time = t + 1, e.value.pressed <=> e.value.id \notin h
  PROVE  UpToDate(ProcessEvent(d, e), AfterEdge(h, e.value.id), t + 1, NowDue(m, e))
<1> HIDE DEF Controllers, EventSample
<1> DEFINE b == e.value.id
           d1 == ProcessEvent(d, e)
           h1 == AfterEdge(h, b)
<1>1. b \in Buttons /\ h1 \in SUBSET Buttons
  <2>1. b \in Buttons BY WheelFacts
  <2> HIDE DEF b
  <2> QED BY <2>1, EdgeNow
<1>2. Coherent(d, h) /\ d.lastEvent <= t /\ AtLeast(d, m) BY DEF UpToDate
<1>3. /\ d1 \in Controllers /\ d1.lastEvent = t + 1
      /\ \A x \in Buttons : (x = b \/ (x \in d.pressed <=> x \in h))
           => (x \in d1.pressed <=> x \in h1)
  BY <1>2, NewEdge
<1>4. Applied(d, e, d1)
  <2>1. d.lastEvent \in Nat BY ControllerFacts
  <2>2. e.time > d.lastEvent BY <1>2, <2>1
  <2> QED BY <2>2, EventFacts
<1> HIDE DEF d1, h1
<1>5. Coherent(d1, h1)
  <2>1. d1.known = d.known \cup {b} /\ d.known \in SUBSET Buttons
    BY <1>4, ControllerFacts DEF Applied
  <2> QED BY <1>1, <1>2, <1>3, <2>1 DEF Coherent
<1>6. ASSUME NEW x \in Buttons PROVE NowDue(m, e)[x] <= d1.acted[x]
  <2>1. m[x] \in Nat /\ d.acted[x] \in Nat /\ m[x] <= d.acted[x]
    BY <1>2, ActedType DEF AtLeast
  <2>2. CASE x # b
    <3>1. d1.acted[x] = d.acted[x] BY <1>4, <2>2 DEF Applied
    <3>2. NowDue(m, e)[x] = m[x] BY <2>2, PlusFacts DEF NowDue
    <3> QED BY <2>1, <3>1, <3>2
  <2>3. CASE x = b
    <3>1. d1.acted[b] = IF e.value.pressed /\ (b \notin d.known \/ b \notin d.pressed)
                        THEN d.acted[b] + 1 ELSE d.acted[b]
      BY <1>4 DEF Applied
    <3>2. e.value.pressed => b \notin d.known \/ b \notin d.pressed
      <4>1. b \in d.known => (b \in d.pressed <=> b \in h) BY <1>2 DEF Coherent
      <4> QED BY <4>1
    <3>3. NowDue(m, e)[b] = IF e.value.pressed THEN m[b] + 1 ELSE m[b]
      BY <1>1, PlusFacts DEF NowDue
    <3> HIDE DEF b
    <3>4. d1.acted[b] = IF e.value.pressed THEN d.acted[b] + 1 ELSE d.acted[b] BY <3>1, <3>2
    <3>5. NowDue(m, e)[b] <= d1.acted[b] BY <2>1, <2>3, <3>3, <3>4
    <3> QED BY <2>3, <3>5
  <2> QED BY <2>2, <2>3
<1>7. d1.lastEvent <= t + 1 BY <1>3
<1> QED BY <1>5, <1>6, <1>7 DEF UpToDate, AtLeast, d1, h1, b

LEMMA SnapshotCoherentEdge ==
  ASSUME NEW d \in Controllers, NEW p \in Seq(EventSample), NEW h \in SUBSET Buttons,
         NEW t \in Nat, SnapshotCoherent(d, p, h, t),
         NEW e \in EventSample, e.time = t + 1, e.value.pressed <=> e.value.id \notin h
  PROVE  SnapshotCoherent(d, Append(p, e), AfterEdge(h, e.value.id), t + 1)
<1> HIDE DEF Controllers, EventSample
<1> DEFINE b == e.value.id
           h1 == AfterEdge(h, b)
<1>0. b \in Buttons BY WheelFacts
<1> SUFFICES ASSUME NEW g \in SUBSET Buttons
             PROVE  /\ ProcessEvents(ProcessStatus(d, g), Append(p, e)).lastEvent <= t + 1
                    /\ \A x \in Buttons :
                         (Told(x, Append(p, e)) \/ (x \in g <=> x \in h1))
                           => (x \in ProcessEvents(ProcessStatus(d, g), Append(p, e)).pressed
                                <=> x \in h1)
  BY DEF SnapshotCoherent
<1> DEFINE s == ProcessStatus(d, g)
           all == ProcessEvents(s, p)
           all1 == ProcessEvent(all, e)
<1>1. s \in Controllers /\ all \in Controllers BY StatusFacts, SnapshotThenEvents
<1>2. ProcessEvents(s, Append(p, e)) = all1 BY <1>1, EventsAppend
<1>3. /\ all.lastEvent <= t
      /\ \A x \in Buttons : (Told(x, p) \/ (x \in g <=> x \in h))
                              => (x \in all.pressed <=> x \in h)
  BY DEF SnapshotCoherent
<1> HIDE DEF s, all
<1>4. /\ all1.lastEvent = t + 1
      /\ \A x \in Buttons : (x = b \/ (x \in all.pressed <=> x \in h))
           => (x \in all1.pressed <=> x \in h1)
  BY <1>1, <1>3, NewEdge
<1> HIDE DEF all1
<1>5. ASSUME NEW x \in Buttons, Told(x, Append(p, e)) \/ (x \in g <=> x \in h1)
      PROVE  x \in all1.pressed <=> x \in h1
  <2>1. CASE x = b BY <1>4, <2>1
  <2>2. CASE x # b
    <3>1. Told(x, Append(p, e)) => Told(x, p) BY <2>2, ToldMore
    <3>2. x \in h1 <=> x \in h
      <4> HIDE DEF b
      <4> QED BY <1>0, <2>2, EdgeOthers
    <3>3. x \in all.pressed <=> x \in h BY <1>3, <1>5, <3>1, <3>2
    <3> QED BY <1>4, <3>3
  <2> QED BY <2>1, <2>2
<1>6. all1.lastEvent <= t + 1 BY <1>4
<1> QED BY <1>2, <1>5, <1>6 DEF s

LEMMA CoherentPending ==
  ASSUME NEW d \in Controllers, NEW h \in SUBSET Buttons, NEW t \in Nat, d.lastEvent <= t
  PROVE  SnapshotCoherent(d, <<>>, h, t)
<1> HIDE DEF Controllers
<1> SUFFICES ASSUME NEW g \in SUBSET Buttons
             PROVE  /\ ProcessEvents(ProcessStatus(d, g), <<>>).lastEvent <= t
                    /\ \A x \in Buttons :
                         (Told(x, <<>>) \/ (x \in g <=> x \in h))
                           => (x \in ProcessEvents(ProcessStatus(d, g), <<>>).pressed
                                <=> x \in h)
  BY DEF SnapshotCoherent
<1>1. /\ ProcessStatus(d, g) \in Controllers
      /\ ProcessStatus(d, g).lastEvent = d.lastEvent /\ ProcessStatus(d, g).pressed = g
  BY StatusFacts
<1>2. ProcessEvents(ProcessStatus(d, g), <<>>) = ProcessStatus(d, g) BY <1>1, EventsNone
<1> QED BY <1>1, <1>2, ToldNothing

LEMMA EachOneTold ==
  ASSUME NEW state, NEW d \in Controllers, NEW ch \in Seq(Frame), NEW p \in Seq(EventSample),
         NEW h \in SUBSET Buttons, NEW t \in Nat, NEW m \in [Buttons -> Nat],
         EachOne(state, d, ch, p, h, t, m),
         NEW e \in EventSample, e.time = t + 1, e.value.pressed <=> e.value.id \notin h
  PROVE  EachOne(state, d, ch, Append(p, e), AfterEdge(h, e.value.id), t + 1,
                 IF state = "accepted" THEN NowDue(m, e) ELSE m)
<1> HIDE DEF Controllers, EventSample, Frame
<1> DEFINE h1 == AfterEdge(h, e.value.id)
<1>1. ASSUME state = "accepted"
      PROVE  UpToDate(AllRead(d, ch, Append(p, e)), h1, t + 1, NowDue(m, e))
  <2>1. AfterFrames(d, ch) \in Controllers BY FramesType
  <2>2. AllRead(d, ch, Append(p, e)) = ProcessEvent(AllRead(d, ch, p), e)
    BY <2>1, EventsAppend DEF AllRead
  <2>3. AllRead(d, ch, p) \in Controllers BY AllReadType
  <2>4. UpToDate(AllRead(d, ch, p), h, t, m) BY <1>1 DEF EachOne
  <2> QED BY <2>2, <2>3, <2>4, UpToDateEdge
<1>2. ASSUME state = "closing" PROVE AfterFrames(d, ch).lastEvent <= t + 1
  <2>1. AfterFrames(d, ch).lastEvent <= t BY <1>2 DEF EachOne
  <2>2. AfterFrames(d, ch).lastEvent \in Nat BY FramesType, ControllerFacts
  <2> QED BY <2>1, <2>2
<1>3. ASSUME state = "pending" PROVE m = d.acted /\ SnapshotCoherent(d, Append(p, e), h1, t + 1)
  BY <1>3, SnapshotCoherentEdge DEF EachOne
<1>4. d.lastEvent <= t + 1
  <2>1. d.lastEvent \in Nat /\ d.lastEvent <= t BY ControllerFacts DEF EachOne
  <2> QED BY <2>1
<1> HIDE DEF h1
<1>5. EachOne(state, d, ch, Append(p, e), h1, t + 1, IF state = "accepted" THEN NowDue(m, e) ELSE m)
  BY <1>1, <1>2, <1>3, <1>4 DEF EachOne
<1> QED BY <1>5 DEF h1

LEMMA EachOneUntold ==
  ASSUME NEW state, state # "accepted", NEW d \in Controllers, NEW ch \in Seq(Frame),
         NEW p \in Seq(EventSample), state = "pending" => p = <<>>,
         NEW h \in SUBSET Buttons, NEW t \in Nat, NEW m, EachOne(state, d, ch, p, h, t, m),
         NEW h1 \in SUBSET Buttons, NEW t1 \in Nat, t <= t1
  PROVE  EachOne(state, d, ch, p, h1, t1, m)
<1> HIDE DEF Controllers, EventSample, Frame
<1>1. ASSUME state = "closing" PROVE AfterFrames(d, ch).lastEvent <= t1
  <2>1. AfterFrames(d, ch).lastEvent <= t BY <1>1 DEF EachOne
  <2>2. AfterFrames(d, ch).lastEvent \in Nat BY FramesType, ControllerFacts
  <2> QED BY <2>1, <2>2
<1>2. d.lastEvent <= t1
  <2>1. d.lastEvent \in Nat /\ d.lastEvent <= t BY ControllerFacts DEF EachOne
  <2> QED BY <2>1
<1>3. ASSUME state = "pending" PROVE m = d.acted /\ SnapshotCoherent(d, p, h1, t1)
  <2>1. SnapshotCoherent(d, <<>>, h1, t1) BY <1>2, CoherentPending
  <2> QED BY <1>3, <2>1 DEF EachOne
<1> QED BY <1>1, <1>2, <1>3 DEF EachOne
(* Time passes: a status, or nothing that the dash is told of.             *)
LEMMA EachOneLater ==
  ASSUME NEW state, NEW d \in Controllers, NEW ch \in Seq(Frame), NEW p \in Seq(EventSample),
         NEW h \in SUBSET Buttons, NEW t \in Nat, NEW m, EachOne(state, d, ch, p, h, t, m),
         NEW t1 \in Nat, t <= t1
  PROVE  EachOne(state, d, ch, p, h, t1, m)
<1> HIDE DEF Controllers, EventSample, Frame
<1>1. ASSUME NEW y \in Controllers, y.lastEvent <= t PROVE y.lastEvent <= t1
  <2>1. y.lastEvent \in Nat BY ControllerFacts
  <2> QED BY <1>1, <2>1
<1>2. state = "accepted" => UpToDate(AllRead(d, ch, p), h, t1, m)
  <2>1. AllRead(d, ch, p) \in Controllers BY AllReadType
  <2> QED BY <1>1, <2>1 DEF EachOne, UpToDate
<1>3. state = "closing" => AfterFrames(d, ch).lastEvent <= t1
  <2>1. AfterFrames(d, ch) \in Controllers BY FramesType
  <2> QED BY <1>1, <2>1 DEF EachOne
<1>4. state = "pending" => m = d.acted /\ SnapshotCoherent(d, p, h, t1)
  <2>1. ASSUME NEW g \in SUBSET Buttons
        PROVE  ProcessEvents(ProcessStatus(d, g), p) \in Controllers
    BY SnapshotThenEvents
  <2> QED BY <1>1, <2>1 DEF EachOne, SnapshotCoherent
<1>5. d.lastEvent <= t1 BY <1>1 DEF EachOne
<1> QED BY <1>2, <1>3, <1>4, <1>5 DEF EachOne

LEMMA EachOneFlush ==
  ASSUME NEW d \in Controllers, NEW ch \in Seq(Frame), NEW f \in Frame,
         NEW h \in SUBSET Buttons, NEW t \in Nat, NEW m \in [Buttons -> Nat],
         EachOne("accepted", d, ch, f.events, h, t, m), TellsHeld(f, h)
  PROVE  EachOne("accepted", d, Append(ch, f), <<>>, h, t, m)
<1> HIDE DEF Controllers, Frame
<1> DEFINE all == AllRead(d, ch, f.events)
           all1 == AllRead(d, Append(ch, f), <<>>)
<1>1. UpToDate(all, h, t, m) /\ d.lastEvent <= t BY DEF EachOne
<1>2. f.events \in Seq(EventSample) BY FrameFacts
<1>3. all \in Controllers BY <1>2, AllReadType
<1>4. all1 = IF "inputs" \in DOMAIN f.state THEN ProcessStatus(all, h) ELSE all BY FlushRead
<1> HIDE DEF all, all1
<1>5. UpToDate(ProcessStatus(all, h), h, t, m)
  <2>1. /\ ProcessStatus(all, h).pressed = h
        /\ ProcessStatus(all, h).lastEvent = all.lastEvent
    BY <1>3, StatusFacts
  <2>2. AtLeast(ProcessStatus(all, h), m)
    <3> SUFFICES ASSUME NEW x \in Buttons PROVE m[x] <= ProcessStatus(all, h).acted[x]
      BY DEF AtLeast
    <3>1. m[x] <= all.acted[x] BY <1>1 DEF UpToDate, AtLeast
    <3>2. all.acted[x] <= ProcessStatus(all, h).acted[x] BY <1>3, StatusGrows DEF Grows
    <3>3. /\ all.acted[x] \in Nat /\ m[x] \in Nat
          /\ ProcessStatus(all, h).acted[x] \in Nat
      BY <1>3, StatusFacts, ActedType
    <3> QED BY <3>1, <3>2, <3>3
  <2> QED BY <1>1, <2>1, <2>2 DEF UpToDate, Coherent
<1> QED BY <1>1, <1>4, <1>5 DEF EachOne, all1

LEMMA EachOneFlushPending ==
  ASSUME NEW d \in Controllers, NEW ch, NEW p, NEW h \in SUBSET Buttons, NEW t \in Nat, NEW m,
         EachOne("pending", d, ch, p, h, t, m)
  PROVE  EachOne("pending", d, ch, <<>>, h, t, m)
BY CoherentPending DEF EachOne

(* Whatever becomes of the connection, what the dash will have read is not *)
(* newer than the newest sample.                                           *)
LEMMA EachOneClosed ==
  ASSUME NEW state \in {"accepted", "pending"},
         NEW d \in Controllers, NEW ch \in Seq(Frame), NEW p \in Seq(EventSample),
         NEW h \in SUBSET Buttons, NEW t \in Nat, NEW m, EachOne(state, d, ch, p, h, t, m),
         state = "pending" => ch = <<>>, NEW p1
  PROVE  EachOne("closing", d, ch, p1, h, t, m)
<1> HIDE DEF Controllers, Frame, EventSample
<1>1. AfterFrames(d, ch) \in Controllers /\ d.lastEvent <= t BY FramesType DEF EachOne
<1>2. CASE state = "accepted"
  <2>1. /\ AllRead(d, ch, p) \in Controllers
        /\ AfterFrames(d, ch).lastEvent <= AllRead(d, ch, p).lastEvent
    BY AllReadType DEF Grows
  <2>2. AllRead(d, ch, p).lastEvent <= t BY <1>2 DEF EachOne, UpToDate
  <2>3. AfterFrames(d, ch).lastEvent \in Nat /\ AllRead(d, ch, p).lastEvent \in Nat
    BY <1>1, <2>1, ControllerFacts
  <2>4. AfterFrames(d, ch).lastEvent <= t BY <2>1, <2>2, <2>3
  <2> QED BY <1>1, <2>4 DEF EachOne
<1>3. CASE state = "pending"
  <2>1. AfterFrames(d, ch) = d BY <1>3, FramesNone
  <2> QED BY <1>1, <2>1 DEF EachOne
<1> QED BY <1>2, <1>3

LEMMA EachOneAway ==
  ASSUME NEW state, NEW state1 \in {"off", "gone", "waiting"}, NEW d, NEW ch, NEW p, NEW h,
         NEW t, NEW m, EachOne(state, d, ch, p, h, t, m), NEW ch1, NEW p1, NEW m1
  PROVE  EachOne(state1, d, ch1, p1, h, t, m1)
BY DEF EachOne

LEMMA EachOneConnect ==
  ASSUME NEW state, NEW d \in Controllers, NEW ch, NEW p, NEW h \in SUBSET Buttons,
         NEW t \in Nat, NEW m, EachOne(state, d, ch, p, h, t, m), NEW ch1
  PROVE  EachOne("pending", d, ch1, <<>>, h, t, d.acted)
BY CoherentPending DEF EachOne

LEMMA EachOneNew ==
  ASSUME NEW d, d.lastEvent = 0, NEW ch, NEW p, NEW h, NEW t \in Nat, NEW m
  PROVE  EachOne("waiting", d, ch, p, h, t, m)
BY DEF EachOne

LEMMA EachOneAccepted ==
  ASSUME NEW d \in Controllers, NEW ch \in Seq(Frame), NEW p \in Seq(EventSample),
         NEW h \in SUBSET Buttons, NEW t \in Nat, NEW m \in [Buttons -> Nat],
         EachOne("pending", d, ch, p, h, t, m),
         NEW f \in Frame, f.events = <<>>, "inputs" \in DOMAIN f.state, TellsHeld(f, h)
  PROVE  EachOne("accepted", d, <<f>>, p, h, t, m)
<1> HIDE DEF Controllers, Frame, EventSample
<1> DEFINE all == ProcessEvents(ProcessStatus(d, h), p)
<1>1. AllRead(d, <<f>>, p) = all BY SnapshotRead
<1>2. m = d.acted /\ SnapshotCoherent(d, p, h, t) /\ d.lastEvent <= t BY DEF EachOne
<1>3. all \in Controllers /\ Grows(d, all) BY SnapshotThenEvents
<1>4. all.lastEvent <= t /\ \A x \in Buttons : x \in all.pressed <=> x \in h
  BY <1>2 DEF SnapshotCoherent
<1> HIDE DEF all
<1>5. AtLeast(all, m) BY <1>2, <1>3 DEF Grows, AtLeast
<1>6. Coherent(all, h)
  <2>1. all.known \in SUBSET Buttons BY <1>3, ControllerFacts
  <2> QED BY <1>4, <2>1 DEF Coherent
<1> QED BY <1>1, <1>2, <1>4, <1>5, <1>6 DEF EachOne, UpToDate

LEMMA EachOneAcceptedSilently ==
  ASSUME NEW d \in Controllers, d.known = {}, NEW ch, NEW p, NEW h, NEW t \in Nat,
         NEW m \in [Buttons -> Nat], EachOne("pending", d, ch, p, h, t, m)
  PROVE  EachOne("accepted", d, <<>>, <<>>, h, t, m)
<1>1. AllRead(d, <<>>, <<>>) = d BY NothingRead
<1>2. m = d.acted /\ d.lastEvent <= t BY DEF EachOne
<1>3. AtLeast(d, m) BY <1>2, ActedType DEF AtLeast
<1>4. Coherent(d, h) BY DEF Coherent
<1> QED BY <1>1, <1>2, <1>3, <1>4 DEF EachOne, UpToDate

LEMMA EachOneRead ==
  ASSUME NEW state \in {"accepted", "closing"},
         NEW d \in Controllers, NEW ch \in Seq(Frame), NEW p \in Seq(EventSample),
         NEW h \in SUBSET Buttons, NEW t \in Nat, NEW m,
         EachOne(state, d, ch, p, h, t, m), ch # <<>>
  PROVE  EachOne(state, ProcessSamples(d, Head(ch)), Tail(ch), p, h, t, m)
<1> HIDE DEF Controllers, Frame, EventSample
<1> DEFINE d1 == ProcessSamples(d, Head(ch))
           r == Tail(ch)
<1>1. Head(ch) \in Frame /\ r \in Seq(Frame) OBVIOUS
<1>2. d1 \in Controllers BY <1>1, SamplesType
<1>3. AfterFrames(d, ch) = AfterFrames(d1, r) BY FramesHead
<1> HIDE DEF d1, r
<1>4. state = "accepted" => UpToDate(AllRead(d1, r, p), h, t, m) BY <1>3 DEF EachOne, AllRead
<1>5. state = "closing" => AfterFrames(d1, r).lastEvent <= t BY <1>3 DEF EachOne
<1>6. d1.lastEvent <= t
  <2>1. d1.lastEvent \in Nat BY <1>2, ControllerFacts
  <2>2. CASE state = "accepted"
    <3>1. /\ AllRead(d1, r, p) \in Controllers
          /\ d1.lastEvent <= AllRead(d1, r, p).lastEvent
      BY <1>1, <1>2, AllReadType DEF Grows
    <3>2. AllRead(d1, r, p).lastEvent \in Nat BY <3>1, ControllerFacts
    <3>3. AllRead(d1, r, p).lastEvent <= t BY <1>4, <2>2 DEF UpToDate
    <3> QED BY <2>1, <3>1, <3>2, <3>3
  <2>3. CASE state = "closing"
    <3>1. AfterFrames(d1, r) \in Controllers /\ d1.lastEvent <= AfterFrames(d1, r).lastEvent
      BY <1>1, <1>2, FramesType DEF Grows
    <3>2. AfterFrames(d1, r).lastEvent \in Nat BY <3>1, ControllerFacts
    <3> QED BY <1>5, <2>1, <2>3, <3>1, <3>2
  <2> QED BY <2>2, <2>3
<1>7. EachOne(state, d1, r, p, h, t, m) BY <1>4, <1>5, <1>6 DEF EachOne
<1> QED BY <1>7 DEF d1, r
-----------------------------------------------------------------------------
(* The state                                                               *)

InputTypeOK ==
  /\ held \in SUBSET Buttons /\ statusDue \in BOOLEAN /\ edges \in Nat
  /\ input \in [Clients -> [known : SUBSET Buttons, pressed : SUBSET Buttons, lastEvent : Nat]]
  /\ presses \in [Buttons -> Nat]
  /\ acted \in [Clients -> [Buttons -> Nat]]
  /\ due \in [Clients -> [Buttons -> Nat]]

Shown == "inputs" \in DOMAIN latestState

(* Pending events are followed by a status: it is still to come, or it is  *)
(* pending as well.                                                        *)
Wheel ==
  /\ ~up => pendingEvents = <<>> /\ ~listening /\ ~statusDue
  /\ \A c \in Clients : link[c] \in {"pending", "accepted"} => up
  /\ up /\ ~statusDue /\ Shown => latestState["inputs"].value = held
  /\ pendingEvents # <<>> => \/ statusDue /\ Served # {}
                             \/ Shown /\ "inputs" \in DOMAIN pendingLatest

Dash(c) == NotTooMany(link[c], Controller(c), channel[c], pendingEvents, held, presses)

InputInv ==
  /\ Glued
  /\ IpcInv /\ InputTypeOK /\ Wheel
  /\ leftover \/ \A c \in Clients : Dash(c)

LEMMA ControllerType ==
  ASSUME InputTypeOK, NEW c \in Clients
  PROVE  /\ Controller(c) \in Controllers
         /\ Controller(c).known = input[c].known /\ Controller(c).lastEvent = input[c].lastEvent
         /\ Controller(c).acted = acted[c]
<1>1. /\ input[c] \in [known : SUBSET Buttons, pressed : SUBSET Buttons, lastEvent : Nat]
      /\ acted[c] \in [Buttons -> Nat]
  BY DEF InputTypeOK
<1>2. /\ input[c].known \in SUBSET Buttons /\ input[c].pressed \in SUBSET Buttons
      /\ input[c].lastEvent \in Nat
  BY <1>1
<1>3. Controller(c) \in Controllers BY <1>1, <1>2, ControllerIs DEF Controller
<1> QED BY <1>3 DEF Controller

LEMMA NothingPressed == None \in [Buttons -> Nat] /\ \A x \in Buttons : None[x] = 0
BY DEF None

(* The wheel, the dashes and SignalIpc do nothing that SignalIpc alone     *)
(* does not do.                                                            *)
LEMMA EdgeEvent ==
  ASSUME InputTypeOK, IpcTypeOK, NEW b \in Buttons
  PROVE  LET event == [id |-> b, pressed |-> b \notin held]
         IN  /\ event \in Events /\ Sampled(event) \in EventSample
             /\ Sampled(event).value = event /\ Sampled(event).time = now + 1
             /\ event.id = b /\ (event.pressed <=> b \notin held)
<1> DEFINE event == [id |-> b, pressed |-> b \notin held]
<1>1. event \in Events BY WheelAssumption
<1>2. event.id = b /\ (event.pressed <=> b \notin held) OBVIOUS
<1> HIDE DEF event
<1>3. Sampled(event) \in EventSample BY <1>1, SampledType
<1>4. Sampled(event).value = event /\ Sampled(event).time = now + 1 BY DEF Sampled
<1> QED BY <1>1, <1>2, <1>3, <1>4 DEF event

LEMMA InputIsIpc ==
  ASSUME InputTypeOK, IpcTypeOK, [InputNext]_inputVars
  PROVE  [IpcNext]_ipcVars
<1>1. ASSUME NEW b \in Buttons, Edge(b) PROVE [IpcNext]_ipcVars
  <2>1. [id |-> b, pressed |-> b \notin held] \in Events BY EdgeEvent
  <2> QED BY <1>1, <2>1 DEF Edge, IpcNext, PublishStep
<1>2. ASSUME Status PROVE IpcNext
  <2>1. "inputs" \in Signals /\ held \in Values BY WheelAssumption DEF InputTypeOK
  <2> QED BY <1>2, <2>1 DEF Status, IpcNext, PublishStep
<1>3. ServerStep => IpcNext BY DEF IpcNext
<1>4. ASSUME NEW c \in Clients, ReadSamples(c) \/ DashLifeStep(c) PROVE IpcNext
  <2>1. DashStep(c) BY <1>4 DEF ReadSamples, DashLifeStep, DashStep
  <2> QED BY <2>1 DEF IpcNext
<1>5. UNCHANGED inputVars => UNCHANGED ipcVars BY DEF inputVars
<1> QED BY <1>1, <1>2, <1>3, <1>4, <1>5 DEF InputNext

LEMMA InputTypesStep ==
  ASSUME InputTypeOK, IpcTypeOK, [InputNext]_inputVars
  PROVE  InputTypeOK'
<1> DEFINE State == [known : SUBSET Buttons, pressed : SUBSET Buttons, lastEvent : Nat]
<1>1. ASSUME NEW b \in Buttons, Edge(b) PROVE InputTypeOK'
  <2>1. held' \in SUBSET Buttons BY <1>1 DEF Edge, InputTypeOK
  <2>2. presses' \in [Buttons -> Nat] BY <1>1, PlusFacts DEF Edge, InputTypeOK
  <2>3. edges' \in Nat /\ UNCHANGED dashVars BY <1>1 DEF Edge, InputTypeOK
  <2>4. statusDue' \in BOOLEAN /\ due' \in [Clients -> [Buttons -> Nat]]
    <3>1. CASE UNCHANGED <<ipcVars, statusDue, due>> BY <3>1 DEF InputTypeOK
    <3>2. CASE /\ statusDue' = Glued
               /\ due' = [c \in Clients |->
                    IF b \notin held /\ link[c] = "accepted" THEN Plus(due[c], {b})
                    ELSE due[c]]
      <4>1. Glued \in BOOLEAN BY WheelAssumption
      <4>2. \A c \in Clients : due[c] \in [Buttons -> Nat] BY DEF InputTypeOK
      <4>3. \A c \in Clients : Plus(due[c], {b}) \in [Buttons -> Nat] BY <4>2, PlusFacts
      <4> QED BY <3>2, <4>1, <4>2, <4>3
    <3> QED BY <1>1, <3>1, <3>2 DEF Edge
  <2> QED BY <2>1, <2>2, <2>3, <2>4 DEF InputTypeOK, dashVars
<1>2. ASSUME Status PROVE InputTypeOK'
  BY <1>2 DEF Status, InputTypeOK, dashVars
<1>3. ASSUME UNCHANGED <<wheelVars, dashVars, due>> PROVE InputTypeOK'
  BY <1>3 DEF InputTypeOK, wheelVars, dashVars
<1>4. ASSUME NEW c \in Clients, ReadSamples(c) PROVE InputTypeOK'
  <2> DEFINE after == ProcessSamples(Controller(c), Head(channel[c]))
             new == [known |-> after.known, pressed |-> after.pressed,
                     lastEvent |-> after.lastEvent]
  <2>1. /\ input' = [input EXCEPT ![c] = new] /\ acted' = [acted EXCEPT ![c] = after.acted]
        /\ channel[c] # <<>> /\ UNCHANGED <<wheelVars, due>>
    BY <1>4 DEF ReadSamples, Read
  <2>2. after \in Controllers
    <3>1. channel[c] \in Seq(Frame) BY DEF IpcTypeOK
    <3>2. Head(channel[c]) \in Frame BY <2>1, <3>1, TailIndices
    <3>3. Controller(c) \in Controllers BY ControllerType
    <3> QED BY <3>2, <3>3, SamplesType
  <2> HIDE DEF after
  <2>3. new \in State /\ after.acted \in [Buttons -> Nat] BY <2>2, ControllerFacts
  <2> HIDE DEF new
  <2>4. input \in [Clients -> State] /\ acted \in [Clients -> [Buttons -> Nat]] BY DEF InputTypeOK
  <2> HIDE DEF State
  <2>5. input' \in [Clients -> State] BY <2>1, <2>3, <2>4
  <2>6. acted' \in [Clients -> [Buttons -> Nat]] BY <2>1, <2>3, <2>4
  <2> QED BY <2>1, <2>5, <2>6 DEF InputTypeOK, wheelVars, State
<1>5. ASSUME NEW c \in Clients, DashLifeStep(c) PROVE InputTypeOK'
  <2>1. ASSUME input' = [input EXCEPT ![c] = NewController],
               UNCHANGED <<wheelVars, acted, due>>
        PROVE  InputTypeOK'
    <3>1. NewController \in State BY DEF NewController
    <3>2. input \in [Clients -> State] BY DEF InputTypeOK
    <3> HIDE DEF State
    <3>3. input' \in [Clients -> State] BY <2>1, <3>1, <3>2
    <3> QED BY <2>1, <3>3 DEF InputTypeOK, wheelVars, State
  <2>2. ASSUME due' = [due EXCEPT ![c] = acted[c]], UNCHANGED <<wheelVars, dashVars>>
        PROVE  InputTypeOK'
    <3>1. acted[c] \in [Buttons -> Nat] BY DEF InputTypeOK
    <3>2. due' \in [Clients -> [Buttons -> Nat]] BY <2>2, <3>1 DEF InputTypeOK
    <3> QED BY <2>2, <3>2 DEF InputTypeOK, wheelVars, dashVars
  <2> QED BY <1>3, <1>5, <2>1, <2>2 DEF DashLifeStep
<1>6. UNCHANGED inputVars => UNCHANGED <<wheelVars, dashVars, due>> BY DEF inputVars
<1> QED BY <1>1, <1>2, <1>3, <1>4, <1>5, <1>6 DEF InputNext
-----------------------------------------------------------------------------
(* The events that are pending                                             *)

(* Nobody is served, and the wheel has no status due: nothing is pending,  *)
(* unless the last dash has left it behind.                                *)
LEMMA NothingPending ==
  ASSUME IpcInv, Wheel, ~leftover, ~statusDue, Served = {} \/ ~Shown
  PROVE  pendingEvents = <<>>
<1>1. /\ pendingLatest = Nothing \/ Served # {}
      /\ \A s \in DOMAIN pendingLatest : s \in DOMAIN latestState
  BY DEF IpcInv, PendingIsLatest
<1>2. DOMAIN Nothing = {} BY NothingFacts
<1> QED BY <1>1, <1>2 DEF Wheel, Shown

(* The pending status tells what is held.                                  *)
LEMMA PendingTellsHeld ==
  ASSUME IpcInv, Wheel, ~leftover, up, ~statusDue
  PROVE  /\ Batch \in Frame /\ Batch.events = pendingEvents /\ Batch.state = pendingLatest
         /\ TellsHeld(Batch, held)
<1>1. Batch \in Frame /\ Batch.events = pendingEvents /\ Batch.state = pendingLatest
  BY FrameIs DEF Batch, IpcInv, IpcTypeOK
<1>2. \A s \in DOMAIN pendingLatest :
        s \in DOMAIN latestState /\ latestState[s] = pendingLatest[s]
  BY DEF IpcInv, PendingIsLatest
<1> QED BY <1>1, <1>2 DEF Wheel, TellsHeld, Shown

LEMMA WheelStep ==
  ASSUME Glued, IpcInv, InputTypeOK, Wheel, [InputNext]_inputVars
  PROVE  Wheel'
<1> USE DEF Shown
<1>0. IpcTypeOK BY DEF IpcInv
<1>1. ASSUME NEW b \in Buttons, Edge(b) PROVE Wheel'
  <2>1. CASE ~up
    <3>1. UNCHANGED <<ipcVars, statusDue, due>> BY <1>1, <2>1 DEF Edge, PublishEvent
    <3>2. UNCHANGED <<up, listening, pendingEvents, link, latestState, pendingLatest, statusDue>>
      BY <3>1 DEF ipcVars, loggerVars, pendingVars, clientVars
    <3>3. Served' = Served BY <3>2 DEF Served
    <3> QED BY <2>1, <3>2, <3>3 DEF Wheel
  <2>2. CASE up
    <3>0. /\ PublishEvent([id |-> b, pressed |-> b \notin held])
          /\ statusDue' = Glued /\ ~statusDue
      <4>1. CASE UNCHANGED <<ipcVars, statusDue, due>> /\ ~up BY <2>2, <4>1
      <4>2. CASE ~(UNCHANGED <<ipcVars, statusDue, due>> /\ ~up) BY <1>1, <4>2 DEF Edge
      <4> QED BY <4>1, <4>2
    <3>1. /\ up' = up /\ UNCHANGED <<latestState, pendingLatest, link>>
          /\ Served = {} => pendingEvents' = pendingEvents
      BY <3>0 DEF PublishEvent, clientVars
    <3>2. Served' = Served BY <3>1 DEF Served
    <3> QED BY <2>2, <3>0, <3>1, <3>2 DEF Wheel
  <2> QED BY <2>1, <2>2
<1>2. ASSUME Status PROVE Wheel'
  <2>1. /\ up /\ up' = up /\ listening' = listening /\ statusDue' = FALSE /\ held' = held
        /\ latestState' = Put(latestState, "inputs", Sampled(held))
        /\ pendingLatest' = IF Served = {} THEN pendingLatest
                            ELSE Put(pendingLatest, "inputs", Sampled(held))
        /\ UNCHANGED <<pendingEvents, link>>
    BY <1>2 DEF Status, PublishState, clientVars
  <2>2. "inputs" \in Signals /\ held \in Values BY WheelAssumption DEF InputTypeOK
  <2>3. Sampled(held) \in StateSample /\ Sampled(held).value = held
    BY <1>0, <2>2, SampledType DEF Sampled
  <2>4. latestState \in Map /\ pendingLatest \in Map BY <1>0 DEF IpcTypeOK
  <2>5. ASSUME NEW m \in Map, NEW x \in StateSample
        PROVE  "inputs" \in DOMAIN Put(m, "inputs", x) /\ Put(m, "inputs", x)["inputs"] = x
    <3> HIDE DEF StateSample, Map
    <3>1. /\ DOMAIN Put(m, "inputs", x) = DOMAIN m \cup {"inputs"}
          /\ \A t \in DOMAIN m \cup {"inputs"} :
               Put(m, "inputs", x)[t] = IF t = "inputs" THEN x ELSE m[t]
      BY <2>2, PutFacts
    <3> QED BY <3>1
  <2>6. /\ "inputs" \in DOMAIN latestState' /\ latestState'["inputs"] = Sampled(held)
        /\ Served # {} => "inputs" \in DOMAIN pendingLatest'
    BY <2>1, <2>3, <2>4, <2>5
  <2> QED BY <2>1, <2>3, <2>6 DEF Wheel
<1>3. ASSUME ~statusDue, ServerStep, UNCHANGED <<wheelVars, dashVars, due>> PROVE Wheel'
  <2>1. held' = held /\ statusDue' = statusDue BY <1>3 DEF wheelVars
  <2>2. CASE LoggerStart
    <3>1. /\ ~up /\ up' = TRUE /\ latestState' = Nothing /\ UNCHANGED <<pendingEvents, link>>
      BY <2>2 DEF LoggerStart, pendingVars, clientVars
    <3>2. DOMAIN Nothing = {} BY NothingFacts
    <3> QED BY <1>3, <2>1, <3>1, <3>2 DEF Wheel
  <2>3. CASE LoggerStop
    <3>1. /\ up' = FALSE /\ listening' = FALSE /\ pendingEvents' = <<>>
          /\ link' = [c \in Clients |->
                CASE link[c] \in {"pending", "accepted"} -> "closing"
                  [] link[c] = "gone" -> "off"
                  [] OTHER -> link[c]]
      BY <2>3 DEF LoggerStop
    <3>2. \A c \in Clients : link'[c] \notin {"pending", "accepted"}
      <4> SUFFICES ASSUME NEW c \in Clients PROVE link'[c] \notin {"pending", "accepted"}
        OBVIOUS
      <4>1. CASE link[c] \in {"pending", "accepted"} BY <3>1, <4>1
      <4>2. CASE link[c] \notin {"pending", "accepted"} BY <3>1, <4>2
      <4> QED BY <4>1, <4>2
    <3> QED BY <1>3, <2>1, <3>1, <3>2 DEF Wheel
  <2>4. CASE FlushPendingSamples
    <3>1. /\ up /\ UNCHANGED <<up, listening, latestState>> /\ pendingEvents' = <<>>
      BY <2>4 DEF FlushPendingSamples, loggerVars
    <3> QED BY <1>3, <2>1, <3>1 DEF Wheel
  <2>5. ASSUME NEW c \in Clients, Accept(c) PROVE Wheel'
    <3>1. up /\ UNCHANGED <<up, listening, latestState, pendingEvents, pendingLatest>>
      BY <2>5 DEF Accept, loggerVars, pendingVars
    <3> QED BY <1>3, <2>1, <3>1 DEF Wheel
  <2>6. ASSUME NEW c \in Clients, NoticeGone(c) PROVE Wheel'
    <3>1. up /\ UNCHANGED <<up, listening, latestState, pendingEvents, pendingLatest>>
      BY <2>6 DEF NoticeGone, loggerVars, pendingVars
    <3> QED BY <1>3, <2>1, <3>1 DEF Wheel
  <2> QED BY <1>3, <2>2, <2>3, <2>4, <2>5, <2>6 DEF ServerStep
<1>4. ASSUME NEW c \in Clients, ~statusDue, ReadSamples(c) \/ DashLifeStep(c) PROVE Wheel'
  <2>1. /\ UNCHANGED <<up, listening, latestState, pendingEvents, pendingLatest>>
        /\ held' = held /\ statusDue' = statusDue
    BY <1>4 DEF ReadSamples, DashLifeStep, Read, DashStart, Connect, NoticeClosed, DashStop,
                loggerVars, pendingVars, wheelVars
  <2>2. \A d \in Clients : link'[d] \in {"pending", "accepted"} => up
    <3>1. link' = link \/ (listening /\ link' = [link EXCEPT ![c] = "pending"])
                       \/ link' = [link EXCEPT ![c] = "waiting"]
                       \/ link' = [link EXCEPT ![c] = "off"]
                       \/ link' = [link EXCEPT ![c] = "gone"]
      <4>1. CASE ReadSamples(c) BY <4>1 DEF ReadSamples, Read
      <4>2. CASE DashLifeStep(c)
        <5>1. CASE DashStop(c)
          <6>1. CASE link[c] = "accepted"
            <7>1. link' = [link EXCEPT ![c] = "gone"] BY <5>1, <6>1 DEF DashStop
            <7> QED BY <7>1
          <6>2. CASE link[c] # "accepted"
            <7>1. link' = [link EXCEPT ![c] = "off"] BY <5>1, <6>2 DEF DashStop
            <7> QED BY <7>1
          <6> QED BY <6>1, <6>2
        <5>2. CASE ~DashStop(c)
          BY <4>2, <5>2 DEF DashLifeStep, DashStart, Connect, NoticeClosed
        <5> QED BY <5>1, <5>2
      <4> QED BY <1>4, <4>1, <4>2
    <3>2. ASSUME NEW d \in Clients, link'[d] \in {"pending", "accepted"} PROVE up
      <4>1. link \in [Clients -> Links] BY <1>0 DEF IpcTypeOK
      <4>2. link'[d] = link[d] \/ listening BY <3>1, <3>2, <4>1
      <4> QED BY <3>2, <4>2 DEF Wheel
    <3> QED BY <3>2
  <2> QED BY <1>4, <2>1, <2>2 DEF Wheel
<1>5. ASSUME UNCHANGED inputVars PROVE Wheel'
  <2>1. UNCHANGED <<up, listening, latestState, pendingEvents, pendingLatest, link, held, statusDue>>
    BY <1>5 DEF inputVars, ipcVars, loggerVars, pendingVars, clientVars, wheelVars
  <2>2. Served' = Served BY <2>1 DEF Served
  <2> QED BY <2>1, <2>2 DEF Wheel
<1> QED BY <1>1, <1>2, <1>3, <1>4, <1>5 DEF InputNext
-----------------------------------------------------------------------------
(* What a step can be to dash c                                            *)

(* Its controller and what is due of it stay as they are ...               *)
AsBefore(c) == Controller(c)' = Controller(c) /\ due'[c] = due[c]
(* ... and so do the buttons.                                              *)
NoEdge == held' = held /\ presses' = presses /\ now' = now

EdgeAlong(b) == held' = AfterEdge(held, b) /\ presses' = Pressed(presses, held, b)

IsTold(c) ==
  \E e \in EventSample :
    /\ e.time = now + 1 /\ (e.value.pressed <=> e.value.id \notin held)
    /\ link'[c] = link[c] /\ channel'[c] = channel[c] /\ Controller(c)' = Controller(c)
    /\ pendingEvents' = Append(pendingEvents, e)
    /\ EdgeAlong(e.value.id) /\ now' = now + 1
    /\ due'[c] = IF link[c] = "accepted" THEN NowDue(due[c], e) ELSE due[c]

IsUntold(c) ==
  /\ link[c] # "accepted" /\ (link[c] = "pending" => pendingEvents = <<>>)
  /\ link'[c] = link[c] /\ channel'[c] = channel[c] /\ AsBefore(c)
  /\ pendingEvents' = pendingEvents
  /\ \E b \in Buttons : EdgeAlong(b)
  /\ now <= now'

IsAside(c) ==
  /\ link'[c] = link[c] /\ channel'[c] = channel[c] /\ AsBefore(c)
  /\ pendingEvents' = pendingEvents /\ held' = held /\ presses' = presses
  /\ now <= now' \/ (now' = 0 /\ run < MaxRuns)

IsSent(c) ==
  /\ link[c] = "accepted" /\ link'[c] = "accepted" /\ AsBefore(c) /\ NoEdge /\ Shown
  /\ pendingEvents' = <<>>
  /\ \E f \in Frame : /\ f.events = pendingEvents /\ TellsHeld(f, held)
                      /\ channel'[c] = Append(channel[c], f)

IsNotSent(c) ==
  /\ link[c] # "accepted" /\ link'[c] = link[c] /\ channel'[c] = channel[c]
  /\ AsBefore(c) /\ NoEdge
  /\ pendingEvents' = <<>>

IsClosed(c) ==
  /\ link[c] \in {"accepted", "pending"} /\ link'[c] = "closing"
  /\ link[c] = "pending" => channel[c] = <<>>
  /\ channel'[c] = channel[c] /\ AsBefore(c) /\ NoEdge

IsAway(c) ==
  /\ \/ link'[c] \in {"off", "gone"}
     \/ link[c] = "closing" /\ link'[c] = "waiting"
  /\ channel'[c] \in {channel[c], <<>>} /\ AsBefore(c) /\ NoEdge

IsAccepted(c) ==
  /\ link[c] = "pending" /\ link'[c] = "accepted" /\ AsBefore(c) /\ NoEdge
  /\ pendingEvents' = pendingEvents
  /\ \/ Shown /\ \E f \in Frame :
          /\ f.events = <<>> /\ "inputs" \in DOMAIN f.state
          /\ TellsHeld(f, held) /\ channel'[c] = <<f>>
     \/ ~Shown /\ channel'[c] = <<>> /\ pendingEvents = <<>>

IsReading(c) ==
  /\ link[c] \in {"accepted", "closing"} /\ link'[c] = link[c] /\ channel[c] # <<>>
  /\ Controller(c)' = ProcessSamples(Controller(c), Head(channel[c]))
  /\ channel'[c] = Tail(channel[c]) /\ due'[c] = due[c] /\ NoEdge
  /\ pendingEvents' = pendingEvents

IsNew(c) ==
  /\ link[c] = "off" /\ link'[c] = "waiting" /\ NoEdge /\ due'[c] = due[c]
  /\ input'[c] = NewController /\ acted'[c] = acted[c] /\ channel'[c] = channel[c]

IsConnecting(c) ==
  /\ link[c] = "waiting" /\ link'[c] = "pending" /\ NoEdge
  /\ Controller(c)' = Controller(c) /\ due'[c] = acted[c] /\ channel'[c] = <<>>
  /\ pendingEvents' = <<>> /\ pendingEvents = <<>>

Moves(c) ==
  \/ IsTold(c) \/ IsUntold(c) \/ IsAside(c) \/ IsSent(c) \/ IsNotSent(c)
  \/ IsClosed(c) \/ IsAway(c) \/ IsAccepted(c) \/ IsReading(c) \/ IsNew(c)
  \/ IsConnecting(c)

LEMMA NotTooManyMoves ==
  ASSUME IpcTypeOK, InputTypeOK, IpcTypeOK', InputTypeOK',
         NEW c \in Clients, Dash(c), Moves(c)
  PROVE  Dash(c)'
<1> HIDE DEF Controllers, EventSample, Frame
<1> DEFINE d == Controller(c)
           ch == channel[c]
<1>1. /\ d \in Controllers /\ ch \in Seq(Frame) /\ pendingEvents \in Seq(EventSample)
      /\ held \in SUBSET Buttons /\ presses \in [Buttons -> Nat] /\ link[c] \in Links
  BY ControllerType DEF IpcTypeOK, InputTypeOK
<1>2. NotTooMany(link[c], d, ch, pendingEvents, held, presses) BY DEF Dash
<1>3. Dash(c)' = NotTooMany(link'[c], Controller(c)', channel'[c], pendingEvents', held', presses')
  BY DEF Dash
<1> HIDE DEF d, ch
<1>4. CASE IsTold(c)
  <2>1. PICK e \in EventSample :
          /\ e.value.pressed <=> e.value.id \notin held
          /\ link'[c] = link[c] /\ channel'[c] = ch /\ Controller(c)' = d
          /\ pendingEvents' = Append(pendingEvents, e) /\ EdgeAlong(e.value.id)
    BY <1>4 DEF IsTold, d, ch
  <2>2. NotTooMany(link[c], d, ch, Append(pendingEvents, e), AfterEdge(held, e.value.id),
                   Pressed(presses, held, e.value.id))
    BY <1>1, <1>2, <2>1, NotTooManyTold
  <2> QED BY <1>3, <2>1, <2>2 DEF EdgeAlong
<1>5. CASE IsUntold(c)
  <2>1. PICK b \in Buttons : EdgeAlong(b) BY <1>5 DEF IsUntold
  <2>2. NotTooMany(link[c], d, ch, pendingEvents, AfterEdge(held, b), Pressed(presses, held, b))
    BY <1>1, <1>2, <1>5, NotTooManyUntold DEF IsUntold
  <2> QED BY <1>3, <1>5, <2>1, <2>2 DEF EdgeAlong, IsUntold, AsBefore, d, ch
<1>6. CASE IsAside(c) BY <1>2, <1>3, <1>6 DEF IsAside, AsBefore, d, ch
<1>7. CASE IsSent(c)
  <2>1. PICK f \in Frame : /\ f.events = pendingEvents /\ TellsHeld(f, held)
                           /\ channel'[c] = Append(ch, f)
    BY <1>7 DEF IsSent, ch
  <2>2. NotTooMany("accepted", d, ch, f.events, held, presses) BY <1>2, <1>7, <2>1 DEF IsSent
  <2>3. NotTooMany("accepted", d, Append(ch, f), <<>>, held, presses)
    BY <1>1, <2>1, <2>2, NotTooManyFlush
  <2> QED BY <1>3, <1>7, <2>1, <2>3 DEF IsSent, AsBefore, NoEdge, d
<1>8. CASE IsNotSent(c)
  <2>1. NotTooMany(link[c], d, ch, <<>>, held, presses)
    <3>1. CASE link[c] = "pending" BY <1>1, <1>2, <3>1, NotTooManyFlushPending
    <3>2. CASE link[c] # "pending" BY <1>2, <1>8, <3>2 DEF IsNotSent, NotTooMany
    <3> QED BY <3>1, <3>2
  <2> QED BY <1>3, <1>8, <2>1 DEF IsNotSent, AsBefore, NoEdge, d, ch
<1>9. CASE IsClosed(c)
  <2>1. NotTooMany("closing", d, ch, pendingEvents', held, presses)
    BY <1>1, <1>2, <1>9, NotTooManyClosed DEF IsClosed, ch
  <2> QED BY <1>3, <1>9, <2>1 DEF IsClosed, AsBefore, NoEdge, d, ch
<1>10. CASE IsAway(c)
  <2>1. NotTooMany(link'[c], d, channel'[c], pendingEvents', held, presses)
    <3>1. CASE link'[c] \in {"off", "gone"} BY <1>2, <3>1, NotTooManyOff
    <3>2. CASE link[c] = "closing" /\ link'[c] = "waiting"
      BY <1>1, <1>2, <3>2, NotTooManyWaiting
    <3> QED BY <1>10, <3>1, <3>2 DEF IsAway
  <2> QED BY <1>3, <1>10, <2>1 DEF IsAway, AsBefore, NoEdge, d
<1>11. CASE IsAccepted(c)
  <2>1. NotTooMany("pending", d, ch, pendingEvents, held, presses) BY <1>2, <1>11 DEF IsAccepted
  <2>2. NotTooMany("accepted", d, channel'[c], pendingEvents, held, presses)
    <3>1. ASSUME NEW f \in Frame, f.events = <<>>, "inputs" \in DOMAIN f.state,
                 TellsHeld(f, held), channel'[c] = <<f>>
          PROVE  NotTooMany("accepted", d, channel'[c], pendingEvents, held, presses)
      <4>1. NotTooMany("accepted", d, <<f>>, pendingEvents, held, presses)
        BY <1>1, <2>1, <3>1, NotTooManyAccepted
      <4> QED BY <3>1, <4>1
    <3>2. CASE channel'[c] = <<>> /\ pendingEvents = <<>>
      <4>1. NotTooMany("accepted", d, <<>>, <<>>, held, presses)
        BY <1>1, <2>1, NotTooManyAcceptedSilently
      <4> QED BY <3>2, <4>1
    <3> QED BY <1>11, <3>1, <3>2 DEF IsAccepted
  <2> QED BY <1>3, <1>11, <2>2 DEF IsAccepted, AsBefore, NoEdge, d
<1>12. CASE IsReading(c)
  <2>1. NotTooMany(link[c], ProcessSamples(d, Head(ch)), Tail(ch), pendingEvents, held, presses)
    BY <1>1, <1>2, <1>12, NotTooManyRead DEF IsReading, ch
  <2> QED BY <1>3, <1>12, <2>1 DEF IsReading, NoEdge, d, ch
<1>13. CASE IsNew(c)
  <2> DEFINE d1 == Controller(c)'
  <2>1. d1.known = {} /\ d1.acted = d.acted
    BY <1>13 DEF IsNew, NewController, Controller, d
  <2>2. NotTooMany("off", d, ch, pendingEvents, held, presses) BY <1>2, <1>13 DEF IsNew
  <2> HIDE DEF d1
  <2>3. NotTooMany("waiting", d1, channel'[c], pendingEvents', held, presses)
    BY <2>1, <2>2, NotTooManyNew
  <2> QED BY <1>3, <1>13, <2>3 DEF IsNew, NoEdge, d1
<1>14. CASE IsConnecting(c)
  <2>1. NotTooMany("pending", d, channel'[c], <<>>, held, presses)
    <3>1. NotTooMany("waiting", d, ch, pendingEvents, held, presses)
      BY <1>2, <1>14 DEF IsConnecting
    <3> QED BY <1>1, <3>1, NotTooManyWaiting
  <2> QED BY <1>3, <1>14, <2>1 DEF IsConnecting, NoEdge, d
<1> QED BY <1>4, <1>5, <1>6, <1>7, <1>8, <1>9, <1>10, <1>11, <1>12, <1>13, <1>14 DEF Moves
LEMMA EmptyMap ==
  ASSUME NEW m \in Map, DOMAIN m = {}
  PROVE  m = Nothing
<1>1. PICK S \in SUBSET Signals : m \in [S -> StateSample] BY DEF Map
<1> HIDE DEF StateSample
<1>2. m \in [{} -> StateSample] BY <1>1
<1> QED BY <1>2 DEF Nothing

(* Which of these each step is                                             *)

LEMMA StillThere ==
  ASSUME NEW c \in Clients, UNCHANGED dashVars
  PROVE  Controller(c)' = Controller(c)
BY DEF dashVars, Controller

LEMMA EdgeMoves ==
  ASSUME InputInv, NEW b \in Buttons, Edge(b), ~leftover, NEW c \in Clients
  PROVE  IsTold(c) \/ IsUntold(c)
<1>1. /\ IpcInv /\ IpcTypeOK /\ InputTypeOK /\ Wheel /\ ~statusDue
      /\ link[c] \in Links /\ now \in Nat
  BY DEF InputInv, IpcInv, IpcTypeOK, Edge
<1> DEFINE event == [id |-> b, pressed |-> b \notin held]
           e == Sampled(event)
<1>2. /\ e \in EventSample /\ e.value = event /\ e.time = now + 1
      /\ e.value.id = b /\ (e.value.pressed <=> b \notin held)
  BY <1>1, EdgeEvent
<1>3. /\ EdgeAlong(b) /\ Controller(c)' = Controller(c)
  BY StillThere DEF Edge, EdgeAlong, AfterEdge, Pressed
<1>4. CASE UNCHANGED <<ipcVars, statusDue, due>> /\ ~up
  <2>1. UNCHANGED <<now, link, channel, pendingEvents, due>>
    BY <1>4 DEF ipcVars, loggerVars, pendingVars, clientVars
  <2>2. link[c] # "accepted" /\ pendingEvents = <<>> BY <1>1, <1>4 DEF Wheel
  <2> QED BY <1>1, <1>3, <2>1, <2>2 DEF IsUntold, AsBefore
<1>5. CASE /\ PublishEvent(event) /\ statusDue' = Glued
           /\ due' = [x \in Clients |->
                IF b \notin held /\ link[x] = "accepted" THEN Plus(due[x], {b}) ELSE due[x]]
  <2>1. /\ now' = now + 1 /\ UNCHANGED <<link, channel>>
        /\ pendingEvents' = IF Served = {} THEN pendingEvents ELSE Append(pendingEvents, e)
    BY <1>5 DEF PublishEvent, clientVars
  <2> HIDE DEF e
  <2>2. due'[c] = IF link[c] = "accepted" THEN NowDue(due[c], e) ELSE due[c]
    BY <1>2, <1>5 DEF NowDue
  <2>3. CASE Served = {}
    <3>1. link[c] # "accepted" BY <2>3 DEF Served
    <3>2. pendingEvents = <<>> BY <1>1, <2>3, NothingPending
    <3> QED BY <1>1, <1>3, <2>1, <2>2, <2>3, <3>1, <3>2 DEF IsUntold, AsBefore
  <2>4. CASE Served # {} BY <1>2, <1>3, <2>1, <2>2, <2>4 DEF IsTold
  <2> QED BY <2>3, <2>4
<1> QED BY <1>4, <1>5 DEF Edge

LEMMA StatusMoves ==
  ASSUME InputInv, Status, NEW c \in Clients
  PROVE  IsAside(c)
<1>1. /\ now' = now + 1 /\ UNCHANGED <<link, channel, pendingEvents, held, presses, due>>
      /\ Controller(c)' = Controller(c)
  BY StillThere DEF Status, PublishState, clientVars
<1>2. now \in Nat BY DEF InputInv, IpcInv, IpcTypeOK
<1> QED BY <1>1, <1>2 DEF IsAside, AsBefore

LEMMA NothingToFlush ==
  ASSUME IpcInv, Wheel, ~leftover, ~statusDue, ~Shown
  PROVE  pendingLatest = Nothing /\ pendingEvents = <<>>
<1>1. pendingEvents = <<>> BY NothingPending
<1>2. /\ \A s \in DOMAIN pendingLatest : s \in DOMAIN latestState
      /\ pendingLatest \in Map
  BY DEF IpcInv, IpcTypeOK, PendingIsLatest
<1>3. \A s \in DOMAIN pendingLatest : s = "inputs" BY <1>2, MapFacts, WheelFacts
<1>4. DOMAIN pendingLatest = {} BY <1>2, <1>3 DEF Shown
<1> QED BY <1>1, <1>2, <1>4, EmptyMap

LEMMA ServerMoves ==
  ASSUME InputInv, ~statusDue, ServerStep, UNCHANGED <<wheelVars, dashVars, due>>,
         ~leftover, NEW c \in Clients
  PROVE  Moves(c)
<1>1. /\ IpcInv /\ IpcTypeOK /\ InputTypeOK /\ Wheel /\ link[c] \in Links
      /\ now \in Nat /\ run \in Nat /\ link \in [Clients -> Links]
  BY DEF InputInv, IpcInv, IpcTypeOK
<1>2. /\ held' = held /\ presses' = presses /\ AsBefore(c)
  BY StillThere DEF wheelVars, AsBefore
<1>3. CASE LoggerStart
  <2>1. /\ run < MaxRuns /\ now' = 0 /\ UNCHANGED <<link, channel, pendingEvents>>
    BY <1>3 DEF LoggerStart, pendingVars, clientVars
  <2> QED BY <1>2, <2>1 DEF Moves, IsAside
<1>4. CASE LoggerStop
  <2>1. /\ now' = now /\ channel' = channel /\ pendingEvents' = <<>>
        /\ link'[c] = CASE link[c] \in {"pending", "accepted"} -> "closing"
                        [] link[c] = "gone" -> "off"
                        [] OTHER -> link[c]
    BY <1>4 DEF LoggerStop
  <2>2. NoEdge BY <1>2, <2>1 DEF NoEdge
  <2>3. CASE link[c] \in {"pending", "accepted"}
    <3>1. link[c] = "pending" => channel[c] = <<>>
      BY <1>1 DEF IpcInv, Connection, Accounted
    <3> QED BY <1>2, <2>1, <2>2, <2>3, <3>1 DEF Moves, IsClosed
  <2>4. CASE link[c] = "gone"
    <3>1. link'[c] = "off" BY <2>1, <2>4
    <3> QED BY <1>2, <2>1, <2>2, <3>1 DEF Moves, IsAway
  <2>5. CASE link[c] \notin {"pending", "accepted", "gone"}
    <3>1. link'[c] = link[c] BY <2>1, <2>5
    <3> QED BY <1>2, <2>1, <2>2, <2>5, <3>1 DEF Moves, IsNotSent
  <2> QED BY <2>3, <2>4, <2>5
<1>5. CASE FlushPendingSamples
  <2>1. /\ up /\ now' = now /\ pendingEvents' = <<>>
        /\ link'[c] = IF c \in TooSlow THEN "closing" ELSE link[c]
        /\ channel'[c] = IF link[c] = "accepted" /\ c \notin TooSlow
                         THEN Append(channel[c], Batch) ELSE channel[c]
    BY <1>5 DEF FlushPendingSamples, loggerVars
  <2>2. NoEdge BY <1>2, <2>1 DEF NoEdge
  <2>3. CASE c \in TooSlow
    <3>1. link[c] = "accepted" BY <2>3 DEF TooSlow
    <3> QED BY <1>2, <2>1, <2>2, <2>3, <3>1 DEF Moves, IsClosed
  <2>4. CASE c \notin TooSlow /\ link[c] = "accepted"
    <3>1. /\ Batch \in Frame /\ Batch.events = pendingEvents /\ TellsHeld(Batch, held)
      BY <1>1, <2>1, PendingTellsHeld
    <3> DEFINE f == Batch
    <3>2. channel'[c] = Append(channel[c], f) /\ link'[c] = "accepted" BY <2>1, <2>4
    <3> HIDE DEF f
    <3>3. f \in Frame /\ f.events = pendingEvents /\ TellsHeld(f, held) BY <3>1 DEF f
    <3>4. Shown
      <4>1. pendingLatest # Nothing \/ pendingEvents # <<>> BY <1>5 DEF FlushPendingSamples
      <4> QED BY <1>1, <4>1, NothingToFlush
    <3>5. IsSent(c) BY <1>2, <2>1, <2>2, <2>4, <3>2, <3>3, <3>4 DEF IsSent
    <3> QED BY <3>5 DEF Moves
  <2>5. CASE link[c] # "accepted"
    <3>1. c \notin TooSlow BY <2>5 DEF TooSlow
    <3> QED BY <1>2, <2>1, <2>2, <2>5, <3>1 DEF Moves, IsNotSent
  <2> QED BY <2>3, <2>4, <2>5
<1>6. ASSUME NEW x \in Clients, Accept(x) PROVE Moves(c)
  <2>1. /\ up /\ now' = now /\ pendingEvents' = pendingEvents /\ link[x] = "pending"
        /\ link' = [link EXCEPT ![x] = "accepted"]
        /\ channel' = [channel EXCEPT ![x] =
             IF latestState = Nothing THEN <<>>
             ELSE <<[events |-> <<>>, state |-> latestState]>>]
    BY <1>6 DEF Accept, loggerVars, pendingVars
  <2>2. channel \in [Clients -> Seq(Frame)] BY <1>1 DEF IpcTypeOK
  <2>3. NoEdge BY <1>2, <2>1 DEF NoEdge
  <2>4. CASE x # c
    <3>1. link'[c] = link[c] /\ channel'[c] = channel[c] BY <1>1, <2>1, <2>2, <2>4
    <3> QED BY <1>1, <1>2, <2>1, <3>1 DEF Moves, IsAside
  <2>5. CASE x = c
    <3>1. /\ link[c] = "pending" /\ link'[c] = "accepted"
          /\ channel'[c] = IF latestState = Nothing THEN <<>>
                           ELSE <<[events |-> <<>>, state |-> latestState]>>
      BY <1>1, <2>1, <2>2, <2>5
    <3>2. CASE latestState = Nothing
      <4>1. ~Shown BY <3>2, NothingFacts DEF Shown
      <4>2. pendingEvents = <<>> BY <1>1, <4>1, NothingPending
      <4>3. IsAccepted(c) BY <1>2, <2>1, <2>3, <3>1, <3>2, <4>1, <4>2 DEF IsAccepted
      <4> QED BY <4>3 DEF Moves
    <3>3. CASE latestState # Nothing
      <4>1. Shown
        <5>1. latestState \in Map BY <1>1 DEF IpcTypeOK
        <5>2. DOMAIN latestState # {} BY <3>3, <5>1, EmptyMap
        <5> QED BY <5>1, <5>2, MapFacts, WheelFacts DEF Shown
      <4> DEFINE f == [events |-> <<>>, state |-> latestState]
      <4>2. f \in Frame /\ f.events = <<>> /\ f.state = latestState
        <5>1. <<>> \in Seq(EventSample) /\ latestState \in Map BY <1>1 DEF IpcTypeOK
        <5> QED BY <5>1, FrameIs
      <4>3. channel'[c] = <<f>> BY <3>1, <3>3
      <4> HIDE DEF f
      <4>4. TellsHeld(f, held) BY <1>1, <2>1, <4>1, <4>2 DEF TellsHeld, Wheel
      <4>5. "inputs" \in DOMAIN f.state BY <4>1, <4>2 DEF Shown
      <4>6. IsAccepted(c)
        <5>1. Shown /\ \E g \in Frame :
                /\ g.events = <<>> /\ "inputs" \in DOMAIN g.state
                /\ TellsHeld(g, held) /\ channel'[c] = <<g>>
          BY <4>1, <4>2, <4>3, <4>4, <4>5
        <5> QED BY <1>2, <2>1, <2>3, <3>1, <5>1 DEF IsAccepted
      <4> QED BY <4>6 DEF Moves
    <3> QED BY <3>2, <3>3
  <2> QED BY <2>4, <2>5
<1>7. ASSUME NEW x \in Clients, NoticeGone(x) PROVE Moves(c)
  <2>1. /\ now' = now /\ pendingEvents' = pendingEvents /\ channel' = channel
        /\ link' = [link EXCEPT ![x] = "off"]
    BY <1>7 DEF NoticeGone, loggerVars, pendingVars
  <2>2. NoEdge BY <1>2, <2>1 DEF NoEdge
  <2>3. CASE x # c
    <3>1. link'[c] = link[c] BY <1>1, <2>1, <2>3
    <3> QED BY <1>1, <1>2, <2>1, <3>1 DEF Moves, IsAside
  <2>4. CASE x = c
    <3>1. link'[c] = "off" BY <1>1, <2>1, <2>4
    <3> QED BY <1>2, <2>1, <2>2, <3>1 DEF Moves, IsAway
  <2> QED BY <2>3, <2>4
<1> QED BY <1>3, <1>4, <1>5, <1>6, <1>7 DEF ServerStep

LEMMA DashMoves ==
  ASSUME InputInv, NEW x \in Clients, ReadSamples(x) \/ DashLifeStep(x), NEW c \in Clients
  PROVE  Moves(c)
<1>1. /\ IpcTypeOK /\ InputTypeOK /\ link[c] \in Links /\ now \in Nat
      /\ link \in [Clients -> Links] /\ channel \in [Clients -> Seq(Frame)]
  BY DEF InputInv, IpcInv, IpcTypeOK
<1>2. /\ DOMAIN input = Clients /\ DOMAIN acted = Clients /\ DOMAIN due = Clients
  BY <1>1 DEF InputTypeOK
<1>3. /\ now' = now /\ pendingEvents' = pendingEvents /\ held' = held /\ presses' = presses
  BY DEF ReadSamples, DashLifeStep, Read, DashStart, Connect, NoticeClosed, DashStop,
         loggerVars, pendingVars, wheelVars
<1>4. NoEdge BY <1>3 DEF NoEdge
<1>5. ASSUME link'[c] = link[c], channel'[c] = channel[c],
             input'[c] = input[c], acted'[c] = acted[c], due'[c] = due[c]
      PROVE  Moves(c)
  <2>1. AsBefore(c) BY <1>5 DEF AsBefore, Controller
  <2> QED BY <1>1, <1>3, <1>5, <2>1 DEF Moves, IsAside
<1>6. CASE ReadSamples(x)
  <2> DEFINE d1 == ProcessSamples(Controller(x), Head(channel[x]))
  <2>1. /\ link[x] \in {"accepted", "closing"} /\ link' = link /\ channel[x] # <<>>
        /\ channel' = [channel EXCEPT ![x] = Tail(@)] /\ due' = due
        /\ input' = [input EXCEPT ![x] = [known |-> d1.known, pressed |-> d1.pressed,
                                          lastEvent |-> d1.lastEvent]]
        /\ acted' = [acted EXCEPT ![x] = d1.acted]
    BY <1>6 DEF ReadSamples, Read
  <2>2. d1 \in Controllers
    <3>1. Head(channel[x]) \in Frame BY <1>1, <2>1, TailIndices
    <3> QED BY <1>1, <3>1, ControllerType, SamplesType
  <2>3. CASE x # c
    <3> HIDE DEF d1
    <3> QED BY <1>1, <1>2, <1>5, <2>1, <2>3
  <2>4. CASE x = c
    <3> HIDE DEF d1
    <3>1. /\ input'[c].known = d1.known /\ input'[c].pressed = d1.pressed
          /\ input'[c].lastEvent = d1.lastEvent /\ acted'[c] = d1.acted
          /\ channel'[c] = Tail(channel[c])
      BY <1>1, <1>2, <2>1, <2>4
    <3>2. Controller(c)' = d1 BY <2>2, <3>1, ControllerFacts DEF Controller
    <3> QED BY <1>3, <1>4, <2>1, <2>4, <3>1, <3>2 DEF Moves, IsReading, d1
  <2> QED BY <2>3, <2>4
<1>7. CASE DashStart(x) /\ input' = [input EXCEPT ![x] = NewController]
           /\ UNCHANGED <<wheelVars, acted, due>>
  <2>1. /\ link[x] = "off" /\ link' = [link EXCEPT ![x] = "waiting"] /\ channel' = channel
    BY <1>7 DEF DashStart
  <2>2. CASE x # c BY <1>1, <1>2, <1>5, <1>7, <2>1, <2>2
  <2>3. CASE x = c
    <3>1. link[c] = "off" /\ link'[c] = "waiting" /\ input'[c] = NewController
      BY <1>1, <1>2, <1>7, <2>1, <2>3
    <3> QED BY <1>4, <1>7, <2>1, <3>1 DEF Moves, IsNew
  <2> QED BY <2>2, <2>3
<1>8. CASE Connect(x) /\ pendingEvents = <<>> /\ due' = [due EXCEPT ![x] = acted[x]]
           /\ UNCHANGED <<wheelVars, dashVars>>
  <2>1. /\ link[x] = "waiting" /\ link' = [link EXCEPT ![x] = "pending"]
        /\ channel' = [channel EXCEPT ![x] = <<>>]
    BY <1>8 DEF Connect
  <2>2. CASE x # c
    <3>1. input' = input /\ acted' = acted BY <1>8 DEF dashVars
    <3> QED BY <1>1, <1>2, <1>5, <1>8, <2>1, <2>2, <3>1
  <2>3. CASE x = c
    <3>1. /\ link[c] = "waiting" /\ link'[c] = "pending" /\ due'[c] = acted[c]
          /\ channel'[c] = <<>>
      BY <1>1, <1>2, <1>8, <2>1, <2>3
    <3>2. Controller(c)' = Controller(c) BY <1>8, StillThere
    <3> QED BY <1>3, <1>4, <1>8, <3>1, <3>2 DEF Moves, IsConnecting
  <2> QED BY <2>2, <2>3
<1>9. CASE (NoticeClosed(x) \/ DashStop(x)) /\ UNCHANGED <<wheelVars, dashVars, due>>
  <2>1. /\ channel' = [channel EXCEPT ![x] = <<>>]
        /\ \/ link[x] = "closing" /\ link' = [link EXCEPT ![x] = "waiting"]
           \/ link' = [link EXCEPT ![x] = IF @ = "accepted" THEN "gone" ELSE "off"]
    BY <1>9 DEF NoticeClosed, DashStop
  <2>2. AsBefore(c) BY <1>9, StillThere DEF AsBefore
  <2>3. CASE x # c
    <3>1. input' = input /\ acted' = acted BY <1>9 DEF dashVars
    <3> QED BY <1>1, <1>2, <1>5, <1>9, <2>1, <2>3, <3>1
  <2>4. CASE x = c
    <3>1. \/ link'[c] \in {"off", "gone"}
          \/ link[c] = "closing" /\ link'[c] = "waiting"
      BY <1>1, <2>1, <2>4
    <3>2. channel'[c] = <<>> BY <1>1, <2>1, <2>4
    <3> QED BY <1>4, <2>2, <3>1, <3>2 DEF Moves, IsAway
  <2> QED BY <2>3, <2>4
<1> QED BY <1>6, <1>7, <1>8, <1>9 DEF DashLifeStep

LEMMA EachMoves ==
  ASSUME InputInv, [InputNext]_inputVars, ~leftover, NEW c \in Clients
  PROVE  Moves(c)
<1>1. ASSUME NEW b \in Buttons, Edge(b) PROVE Moves(c) BY <1>1, EdgeMoves DEF Moves
<1>2. Status => Moves(c) BY StatusMoves DEF Moves
<1>3. ~statusDue /\ ServerStep /\ UNCHANGED <<wheelVars, dashVars, due>> => Moves(c)
  BY ServerMoves
<1>4. ASSUME NEW x \in Clients, ReadSamples(x) \/ DashLifeStep(x) PROVE Moves(c)
  BY <1>4, DashMoves
<1>5. ASSUME UNCHANGED inputVars PROVE Moves(c)
  <2>1. UNCHANGED <<now, run, link, channel, pendingEvents, held, presses, due>>
    BY <1>5 DEF inputVars, ipcVars, loggerVars, pendingVars, clientVars, wheelVars
  <2>2. Controller(c)' = Controller(c) BY <1>5, StillThere DEF inputVars
  <2>3. now \in Nat BY DEF InputInv, IpcInv, IpcTypeOK
  <2> QED BY <2>1, <2>2, <2>3 DEF Moves, IsAside, AsBefore
<1> QED BY <1>1, <1>2, <1>3, <1>4, <1>5 DEF InputNext

LEMMA LeftForGood ==
  ASSUME [InputNext]_inputVars, leftover
  PROVE  leftover'
<1>1. CASE UNCHANGED inputVars BY <1>1 DEF inputVars, ipcVars, historyVars
<1>2. ASSUME NEW b \in Buttons, Edge(b) PROVE leftover'
  BY <1>2 DEF Edge, PublishEvent, ipcVars, historyVars
<1>3. Status => leftover' BY DEF Status, PublishState, historyVars
<1>4. ServerStep => leftover'
  BY DEF ServerStep, LoggerStart, LoggerStop, FlushPendingSamples, Accept, NoticeGone, historyVars
<1>5. ASSUME NEW x \in Clients, ReadSamples(x) \/ DashLifeStep(x) PROVE leftover'
  BY <1>5 DEF ReadSamples, DashLifeStep, Read, DashStart, Connect, NoticeClosed, DashStop,
              historyVars
<1> QED BY <1>1, <1>2, <1>3, <1>4, <1>5 DEF InputNext

LEMMA InputInitially == Glued /\ InputInit => InputInv
<1> SUFFICES ASSUME Glued, InputInit PROVE InputInv OBVIOUS
<1>1. IpcInit BY DEF InputInit
<1>2. IpcInv BY <1>1, IpcInitially
<1>3. None \in [Buttons -> Nat] /\ \A x \in Buttons : None[x] = 0 BY NothingPressed
<1>4. InputTypeOK
  <2>1. NewController \in [known : SUBSET Buttons, pressed : SUBSET Buttons, lastEvent : Nat]
    BY DEF NewController
  <2> HIDE DEF NewController
  <2> QED BY <1>3, <2>1 DEF InputInit, InputTypeOK
<1>5. Wheel
  <2>1. DOMAIN latestState = {} BY <1>1, NothingFacts DEF IpcInit
  <2> QED BY <1>1, <2>1 DEF InputInit, IpcInit, Wheel, Shown
<1>6. ASSUME NEW c \in Clients PROVE Dash(c)
  <2>1. link[c] = "off" /\ acted[c] = None /\ presses = None BY <1>1 DEF InputInit, IpcInit
  <2>2. NoMore(Controller(c), presses) BY <1>3, <2>1 DEF NoMore, Controller
  <2> QED BY <2>1, <2>2 DEF Dash, NotTooMany
<1> QED BY <1>2, <1>4, <1>5, <1>6 DEF InputInv

LEMMA InputInvStep == InputInv /\ [InputNext]_inputVars => InputInv'
<1> SUFFICES ASSUME InputInv, [InputNext]_inputVars PROVE InputInv' OBVIOUS
<1>1. Glued /\ IpcInv /\ IpcTypeOK /\ InputTypeOK /\ Wheel BY DEF InputInv, IpcInv
<1>2. IpcInv' BY <1>1, InputIsIpc, IpcInvStep
<1>3. IpcTypeOK' BY <1>2 DEF IpcInv
<1>4. InputTypeOK' BY <1>1, InputTypesStep
<1>5. Wheel' BY <1>1, WheelStep
<1>6. ASSUME ~leftover', NEW c \in Clients PROVE Dash(c)'
  <2>1. ~leftover BY <1>6, LeftForGood
  <2>2. Moves(c) /\ Dash(c) BY <2>1, EachMoves DEF InputInv
  <2> QED BY <1>1, <1>3, <1>4, <2>2, NotTooManyMoves
<1> QED BY <1>1, <1>2, <1>4, <1>5, <1>6 DEF InputInv

(* No dash ever acts more often on a button than it was pressed, whatever  *)
(* the order of events, statuses, snapshots, reconnects and restarts, as   *)
(* long as the status of an edge travels in the same frame as its event    *)
(* and nobody has left a status behind.                                    *)
THEOREM NoDashActsTooOften == Glued /\ InputSpec => []NoPhantomAction
<1>1. InputInv => NoPhantomAction
  <2> SUFFICES ASSUME InputInv, ~leftover, NEW c \in Clients, NEW b \in Buttons
               PROVE  acted[c][b] <= presses[b]
    BY DEF NoPhantomAction
  <2>1. NoMore(Controller(c), presses) BY DEF InputInv, Dash, NotTooMany
  <2> QED BY <2>1 DEF NoMore, Controller
<1> QED BY <1>1, InputInitially, InputInvStep, PTL DEF InputSpec
-----------------------------------------------------------------------------
(* In one run of the logger, no press is lost                              *)

Prompt(c) ==
  EachOne(link[c], Controller(c), channel[c], pendingEvents, held, now, due[c])

(* Before the first status there is nothing that a dash could know.        *)
Fresh(c) == channel[c] = <<>> /\ input[c].known = {}

OnceInv ==
  /\ InputInv
  /\ MaxRuns = 1 /\ run <= 1
  /\ run = 0 => now = 0 /\ latestState = Nothing /\ ~up
  /\ leftover \/ Shown \/ \A c \in Clients : Fresh(c)
  /\ leftover \/ \A c \in Clients : Prompt(c)

LEMMA PromptMoves ==
  ASSUME IpcTypeOK, InputTypeOK, IpcTypeOK', InputTypeOK', MaxRuns = 1, run = 0 => now = 0,
         NEW c \in Clients, Prompt(c), Shown \/ Fresh(c), Moves(c)
  PROVE  Prompt(c)'
<1> HIDE DEF Controllers, EventSample, Frame
<1> DEFINE d == Controller(c)
           ch == channel[c]
           m == due[c]
<1>1. /\ d \in Controllers /\ ch \in Seq(Frame) /\ pendingEvents \in Seq(EventSample)
      /\ held \in SUBSET Buttons /\ now \in Nat /\ m \in [Buttons -> Nat] /\ link[c] \in Links
      /\ held' \in SUBSET Buttons /\ now' \in Nat /\ run \in Nat
      /\ d.acted = acted[c] /\ d.known = input[c].known
  BY ControllerType DEF IpcTypeOK, InputTypeOK
<1>2. EachOne(link[c], d, ch, pendingEvents, held, now, m) BY DEF Prompt
<1>3. Prompt(c)' = EachOne(link'[c], Controller(c)', channel'[c], pendingEvents', held', now',
                           due'[c])
  BY DEF Prompt
<1> HIDE DEF d, ch, m
<1>4. CASE IsTold(c)
  <2>1. PICK e \in EventSample :
          /\ e.time = now + 1 /\ (e.value.pressed <=> e.value.id \notin held)
          /\ link'[c] = link[c] /\ channel'[c] = ch /\ Controller(c)' = d
          /\ pendingEvents' = Append(pendingEvents, e) /\ EdgeAlong(e.value.id)
          /\ now' = now + 1 /\ due'[c] = IF link[c] = "accepted" THEN NowDue(m, e) ELSE m
    BY <1>4 DEF IsTold, d, ch, m
  <2>2. EachOne(link[c], d, ch, Append(pendingEvents, e), AfterEdge(held, e.value.id), now + 1,
                IF link[c] = "accepted" THEN NowDue(m, e) ELSE m)
    BY <1>1, <1>2, <2>1, EachOneTold
  <2> QED BY <1>3, <2>1, <2>2 DEF EdgeAlong
<1>5. CASE IsUntold(c)
  <2>1. EachOne(link[c], d, ch, pendingEvents, held', now', m)
    BY <1>1, <1>2, <1>5, EachOneUntold DEF IsUntold
  <2> QED BY <1>3, <1>5, <2>1 DEF IsUntold, AsBefore, d, ch, m
<1>6. CASE IsAside(c)
  <2>1. now <= now'
    <3>1. CASE now <= now' BY <3>1
    <3>2. CASE now' = 0 /\ run < MaxRuns
      <4>1. run = 0 BY <1>1, <3>2
      <4> QED BY <3>2, <4>1
    <3> QED BY <1>6, <3>1, <3>2 DEF IsAside
  <2>2. EachOne(link[c], d, ch, pendingEvents, held, now', m)
    BY <1>1, <1>2, <2>1, EachOneLater
  <2> QED BY <1>3, <1>6, <2>2 DEF IsAside, AsBefore, d, ch, m
<1>7. CASE IsSent(c)
  <2>1. PICK f \in Frame : /\ f.events = pendingEvents /\ TellsHeld(f, held)
                           /\ channel'[c] = Append(ch, f)
    BY <1>7 DEF IsSent, ch
  <2>2. EachOne("accepted", d, ch, f.events, held, now, m) BY <1>2, <1>7, <2>1 DEF IsSent
  <2>3. EachOne("accepted", d, Append(ch, f), <<>>, held, now, m)
    BY <1>1, <2>1, <2>2, EachOneFlush
  <2> QED BY <1>3, <1>7, <2>1, <2>3 DEF IsSent, AsBefore, NoEdge, d, m
<1>8. CASE IsNotSent(c)
  <2>1. EachOne(link[c], d, ch, <<>>, held, now, m)
    <3>1. CASE link[c] = "pending"
      <4>1. EachOne("pending", d, ch, pendingEvents, held, now, m) BY <1>2, <3>1
      <4>2. EachOne("pending", d, ch, <<>>, held, now, m) BY <1>1, <4>1, EachOneFlushPending
      <4> QED BY <3>1, <4>2
    <3>2. CASE link[c] # "pending" BY <1>2, <1>8, <3>2 DEF IsNotSent, EachOne
    <3> QED BY <3>1, <3>2
  <2> QED BY <1>3, <1>8, <2>1 DEF IsNotSent, AsBefore, NoEdge, d, ch, m
<1>9. CASE IsClosed(c)
  <2>1. EachOne("closing", d, ch, pendingEvents', held, now, m)
    BY <1>1, <1>2, <1>9, EachOneClosed DEF IsClosed, ch
  <2> QED BY <1>3, <1>9, <2>1 DEF IsClosed, AsBefore, NoEdge, d, ch, m
<1>10. CASE IsAway(c)
  <2>1. EachOne(link'[c], d, channel'[c], pendingEvents', held, now, m)
    BY <1>2, <1>10, EachOneAway DEF IsAway
  <2> QED BY <1>3, <1>10, <2>1 DEF IsAway, AsBefore, NoEdge, d, m
<1>11. CASE IsAccepted(c)
  <2>1. EachOne("pending", d, ch, pendingEvents, held, now, m) BY <1>2, <1>11 DEF IsAccepted
  <2>2. EachOne("accepted", d, channel'[c], pendingEvents, held, now, m)
    <3>1. ASSUME NEW f \in Frame, f.events = <<>>, "inputs" \in DOMAIN f.state,
                 TellsHeld(f, held), channel'[c] = <<f>>
          PROVE  EachOne("accepted", d, channel'[c], pendingEvents, held, now, m)
      <4>1. EachOne("accepted", d, <<f>>, pendingEvents, held, now, m)
        BY <1>1, <2>1, <3>1, EachOneAccepted
      <4> QED BY <3>1, <4>1
    <3>2. CASE ~Shown /\ channel'[c] = <<>> /\ pendingEvents = <<>>
      <4>1. d.known = {} BY <1>1, <3>2 DEF Fresh
      <4>2. EachOne("accepted", d, <<>>, <<>>, held, now, m)
        BY <1>1, <2>1, <4>1, EachOneAcceptedSilently
      <4> QED BY <3>2, <4>2
    <3> QED BY <1>11, <3>1, <3>2 DEF IsAccepted
  <2> QED BY <1>3, <1>11, <2>2 DEF IsAccepted, AsBefore, NoEdge, d, m
<1>12. CASE IsReading(c)
  <2>1. EachOne(link[c], ProcessSamples(d, Head(ch)), Tail(ch), pendingEvents, held, now, m)
    BY <1>1, <1>2, <1>12, EachOneRead DEF IsReading, ch
  <2> QED BY <1>3, <1>12, <2>1 DEF IsReading, NoEdge, d, ch, m
<1>13. CASE IsNew(c)
  <2> DEFINE d1 == Controller(c)'
  <2>1. d1.lastEvent = 0 BY <1>13 DEF IsNew, NewController, Controller
  <2> HIDE DEF d1
  <2>2. EachOne("waiting", d1, channel'[c], pendingEvents', held, now, m)
    BY <1>1, <2>1, EachOneNew
  <2> QED BY <1>3, <1>13, <2>2 DEF IsNew, NoEdge, d1, m
<1>14. CASE IsConnecting(c)
  <2>1. EachOne("pending", d, channel'[c], <<>>, held, now, d.acted)
    BY <1>1, <1>2, EachOneConnect
  <2> QED BY <1>1, <1>3, <1>14, <2>1 DEF IsConnecting, NoEdge, d
<1> QED BY <1>4, <1>5, <1>6, <1>7, <1>8, <1>9, <1>10, <1>11, <1>12, <1>13, <1>14 DEF Moves

LEMMA FreshMoves ==
  ASSUME InputTypeOK, NEW c \in Clients, Fresh(c), ~Shown, Moves(c)
  PROVE  Fresh(c)'
<1>1. Controller(c)' = Controller(c) => input'[c].known = input[c].known BY DEF Controller
<1>2. CASE IsSent(c) \/ IsReading(c) BY <1>2 DEF IsSent, IsReading, Fresh
<1>3. CASE IsNew(c) BY <1>3 DEF IsNew, NewController, Fresh
<1>4. CASE IsTold(c) BY <1>1, <1>4 DEF IsTold, Fresh
<1>5. CASE IsUntold(c) \/ IsAside(c) \/ IsNotSent(c) \/ IsClosed(c)
  BY <1>1, <1>5 DEF IsUntold, IsAside, IsNotSent, IsClosed, AsBefore, Fresh
<1>6. CASE IsAway(c) \/ IsAccepted(c) \/ IsConnecting(c)
  BY <1>1, <1>6 DEF IsAway, IsAccepted, IsConnecting, AsBefore, Fresh
<1> QED BY <1>2, <1>3, <1>4, <1>5, <1>6 DEF Moves

(* What a step does to the runs of the logger and to the latest status.    *)
LEMMA LoggerMoves ==
  ASSUME [InputNext]_inputVars
  PROVE  \/ run' = run /\ latestState' = latestState /\ (up \/ (~up' /\ now' = now))
         \/ up /\ run' = run /\ latestState' = Put(latestState, "inputs", Sampled(held))
         \/ run < MaxRuns /\ run' = run + 1 /\ latestState' = Nothing
<1> DEFINE Kept == run' = run /\ latestState' = latestState /\ (up \/ (~up' /\ now' = now))
<1>1. ASSUME UNCHANGED ipcVars PROVE Kept BY <1>1 DEF ipcVars, loggerVars
<1>2. ASSUME NEW b \in Buttons, Edge(b) PROVE Kept
  <2>1. CASE UNCHANGED ipcVars BY <1>1, <2>1
  <2>2. CASE ~UNCHANGED ipcVars BY <1>2, <2>2 DEF Edge, PublishEvent
  <2> QED BY <2>1, <2>2
<1>3. Status => up /\ run' = run /\ latestState' = Put(latestState, "inputs", Sampled(held))
  BY DEF Status, PublishState
<1>4. LoggerStart => run < MaxRuns /\ run' = run + 1 /\ latestState' = Nothing BY DEF LoggerStart
<1>5. ServerStep => Kept \/ LoggerStart
  BY DEF ServerStep, LoggerStop, FlushPendingSamples, Accept, NoticeGone, loggerVars
<1>6. ASSUME NEW x \in Clients, ReadSamples(x) \/ DashLifeStep(x) PROVE Kept
  <2>1. UNCHANGED <<loggerVars, latestState>>
    BY <1>6 DEF ReadSamples, DashLifeStep, Read, DashStart, Connect, NoticeClosed, DashStop
  <2> QED BY <2>1 DEF loggerVars
<1>7. UNCHANGED inputVars => UNCHANGED ipcVars BY DEF inputVars
<1> QED BY <1>1, <1>2, <1>3, <1>4, <1>5, <1>6, <1>7 DEF InputNext

LEMMA OnceInvStep == OnceInv /\ [InputNext]_inputVars => OnceInv'
<1> SUFFICES ASSUME OnceInv, [InputNext]_inputVars PROVE OnceInv' OBVIOUS
<1>1. InputInv /\ InputInv' BY InputInvStep DEF OnceInv
<1>2. /\ IpcTypeOK /\ IpcTypeOK' /\ InputTypeOK /\ InputTypeOK' /\ run \in Nat
      /\ MaxRuns = 1 /\ (run = 0 => now = 0 /\ latestState = Nothing /\ ~up) /\ run <= 1
  BY <1>1 DEF InputInv, IpcInv, IpcTypeOK, OnceInv
<1>3. run' <= 1 /\ (run' = 0 => now' = 0 /\ latestState' = Nothing /\ ~up')
  BY <1>2, LoggerMoves
<1>4. Shown => Shown'
  <2>1. latestState' = latestState => (Shown => Shown') BY DEF Shown
  <2>2. latestState' = Put(latestState, "inputs", Sampled(held)) => Shown'
    BY DEF Shown, Put
  <2>3. run < MaxRuns => ~Shown
    <3>1. run < MaxRuns => latestState = Nothing BY <1>2
    <3> QED BY <3>1, NothingFacts DEF Shown
  <2> QED BY <2>1, <2>2, <2>3, LoggerMoves
<1>5. ASSUME ~leftover', NEW c \in Clients
      PROVE  Prompt(c)' /\ (Shown' \/ Fresh(c)')
  <2>1. ~leftover BY <1>5, LeftForGood
  <2>2. Prompt(c) /\ (Shown \/ Fresh(c)) BY <2>1 DEF OnceInv
  <2>3. Moves(c) BY <1>1, <2>1, EachMoves
  <2>4. Prompt(c)' BY <1>2, <2>2, <2>3, PromptMoves
  <2>5. ~Shown => Fresh(c)' BY <1>2, <2>2, <2>3, FreshMoves
  <2> QED BY <1>4, <2>4, <2>5
<1> QED BY <1>1, <1>2, <1>3, <1>5 DEF OnceInv

LEMMA OnceInitially == Glued /\ MaxRuns = 1 /\ InputInit => OnceInv
<1> SUFFICES ASSUME Glued, MaxRuns = 1, InputInit PROVE OnceInv OBVIOUS
<1>1. InputInv BY InputInitially
<1>2. /\ run = 0 /\ now = 0 /\ latestState = Nothing /\ ~up
      /\ \A c \in Clients : link[c] = "off" /\ channel[c] = <<>> /\ input[c] = NewController
  BY DEF InputInit, IpcInit
<1>3. \A c \in Clients : Fresh(c) BY <1>2 DEF Fresh, NewController
<1>4. ASSUME NEW c \in Clients PROVE Prompt(c)
  <2>1. link[c] = "off" /\ Controller(c).lastEvent = 0 BY <1>2 DEF Controller, NewController
  <2> QED BY <1>2, <2>1 DEF Prompt, EachOne
<1> QED BY <1>1, <1>2, <1>3, <1>4 DEF OnceInv

(* A dash that has read everything it was sent has acted on every press    *)
(* since it was connected, in one run of the logger: with a restart, the   *)
(* acquisition time starts anew and the events are taken for old ones.     *)
THEOREM NoPressIsLost == Glued /\ MaxRuns = 1 /\ InputSpec => []EveryPressActs
<1>1. OnceInv => EveryPressActs
  <2> SUFFICES ASSUME OnceInv, ~leftover, NEW c \in Clients, CaughtUp(c), NEW b \in Buttons
               PROVE  acted[c][b] >= due[c][b]
    BY DEF EveryPressActs
  <2>1. link[c] = "accepted" /\ channel[c] = <<>> /\ pendingEvents = <<>> BY DEF CaughtUp
  <2>2. /\ Controller(c) \in Controllers /\ Controller(c).acted = acted[c]
        /\ acted[c][b] \in Nat /\ due[c][b] \in Nat
    BY ControllerType DEF OnceInv, InputInv, InputTypeOK
  <2>3. UpToDate(AllRead(Controller(c), <<>>, <<>>), held, now, due[c])
    BY <2>1 DEF OnceInv, Prompt, EachOne
  <2>4. AllRead(Controller(c), <<>>, <<>>) = Controller(c) BY <2>2, NothingRead
  <2>5. due[c][b] <= acted[c][b] BY <2>2, <2>3, <2>4 DEF UpToDate, AtLeast
  <2> QED BY <2>2, <2>5
<1> QED BY <1>1, OnceInitially, OnceInvStep, PTL DEF InputSpec
=============================================================================

-------------------------- MODULE SignalIpcProofs --------------------------
(***************************************************************************)
(* Proofs about SignalIpc, for any number of dashes, signals, values,      *)
(* events and runs of the logger.                                          *)
(***************************************************************************)
EXTENDS SignalIpc, TLAPS, WellFoundedInduction, SequenceTheorems

-----------------------------------------------------------------------------
(* Natural numbers *)

(* A set of natural numbers has a least element. *)
LEMMA LeastElement ==
  ASSUME NEW T \in SUBSET Nat, T # {}
  PROVE  \E m \in T : \A k \in T : m <= k
<1> DEFINE R == OpToRel(<, Nat)
<1>1. IsWellFoundedOn(R, Nat) BY NatLessThanWellFounded
<1>2. ASSUME NEW x \in T, NEW y \in T, y < x PROVE <<y, x>> \in R
  BY <1>2 DEF OpToRel
<1> HIDE DEF R
<1>3. PICK x \in T : \A y \in T : ~(<<y, x>> \in R) BY <1>1, WFMin
<1>4. \A y \in T : ~(y < x) BY <1>2, <1>3
<1> QED BY <1>4

(* Induction, for a set. *)
LEMMA SetInduction ==
  ASSUME NEW S \in SUBSET Nat, 0 \in S, \A n \in S : n + 1 \in S
  PROVE  S = Nat
<1> SUFFICES ASSUME Nat \ S # {} PROVE FALSE OBVIOUS
<1>1. PICK m \in Nat \ S : \A k \in Nat \ S : m <= k BY LeastElement
<1>2. m # 0 OBVIOUS
<1>3. m - 1 \in Nat /\ m - 1 \notin Nat \ S BY <1>1, <1>2
<1> QED BY <1>3

(* The greatest index in a set of indices. *)
LEMMA MaxOfIndices ==
  ASSUME NEW n \in Nat, NEW T \in SUBSET (1 .. n), T # {}
  PROVE  Max(T) \in T /\ \A k \in T : k <= Max(T)
<1> DEFINE U == {n - k : k \in T}
<1>0. \A k \in T : n - k \in Nat OBVIOUS
<1>1. U \in SUBSET Nat /\ U # {} BY <1>0
<1> HIDE DEF U
<1>2. PICK u \in U : \A v \in U : u <= v BY <1>1, LeastElement
<1>3. PICK m \in T : u = n - m BY DEF U
<1>4. \A k \in T : m >= k BY <1>2, <1>3, SMTT(30) DEF U
<1> QED BY <1>4 DEF Max

LEMMA MaxIs ==
  ASSUME NEW n \in Nat, NEW T \in SUBSET (1 .. n), NEW m \in T, \A k \in T : k <= m
  PROVE  Max(T) = m
<1>1. Max(T) \in T /\ m <= Max(T) BY MaxOfIndices
<1> DEFINE top == Max(T)
<1> HIDE DEF top
<1>2. top \in T /\ m <= top BY <1>1 DEF top
<1>3. top \in 1 .. n /\ m \in 1 .. n /\ top <= m BY <1>2
<1>4. top = m BY <1>2, <1>3
<1> QED BY <1>4 DEF top

-----------------------------------------------------------------------------
(* Concatenating a sequence of sequences *)

(* h[i] is the concatenation of the first i sequences, up to k of them.    *)
ConcatenatesTo(k, h, seqs, E) ==
  /\ h \in [1 .. k -> Seq(E)]
  /\ \A i \in 1 .. k : h[i] = IF i = 1 THEN seqs[i] ELSE h[i - 1] \o seqs[i]
Concatenates(h, seqs, E) == ConcatenatesTo(Len(seqs), h, seqs, E)

(* One more sequence. *)
LEMMA OneMore ==
  ASSUME NEW E, NEW k \in Nat, NEW seqs, NEW h, ConcatenatesTo(k, h, seqs, E),
         seqs[k + 1] \in Seq(E)
  PROVE  LET e == IF k = 0 THEN seqs[k + 1] ELSE h[k] \o seqs[k + 1]
         IN  ConcatenatesTo(k + 1, [i \in 1 .. k + 1 |-> IF i = k + 1 THEN e ELSE h[i]],
                            seqs, E)
<1> DEFINE e == IF k = 0 THEN seqs[k + 1] ELSE h[k] \o seqs[k + 1]
           g == [i \in 1 .. k + 1 |-> IF i = k + 1 THEN e ELSE h[i]]
<1>1. e \in Seq(E) BY ConcatProperties DEF ConcatenatesTo
<1>2. g \in [1 .. k + 1 -> Seq(E)] BY <1>1 DEF ConcatenatesTo
<1>3. ASSUME NEW i \in 1 .. k + 1
      PROVE  g[i] = IF i = 1 THEN seqs[i] ELSE g[i - 1] \o seqs[i]
  <2>1. CASE i = k + 1
    <3>1. g[i] = e /\ (k # 0 => g[i - 1] = h[k]) BY <2>1
    <3> HIDE DEF g
    <3> QED BY <2>1, <3>1
  <2>2. CASE i # k + 1
    <3>1. i \in 1 .. k /\ g[i] = h[i] /\ (i # 1 => g[i - 1] = h[i - 1]) BY <2>2
    <3> HIDE DEF g
    <3> QED BY <3>1 DEF ConcatenatesTo
  <2> QED BY <2>1, <2>2
<1>4. ConcatenatesTo(k + 1, g, seqs, E)
  <2> HIDE DEF g
  <2> QED BY <1>2, <1>3 DEF ConcatenatesTo
<1> QED BY <1>4

LEMMA Concatenation ==
  ASSUME NEW E, NEW seqs \in Seq(Seq(E))
  PROVE  \E h : Concatenates(h, seqs, E)
<1> DEFINE T == {k \in Nat : k <= Len(seqs) => \E h : ConcatenatesTo(k, h, seqs, E)}
<1>1. 0 \in T
  <2> DEFINE h == [i \in 1 .. 0 |-> <<>>]
  <2>1. ConcatenatesTo(0, h, seqs, E) BY DEF ConcatenatesTo
  <2> HIDE DEF h
  <2> QED BY <2>1
<1>2. ASSUME NEW k \in T PROVE k + 1 \in T
  <2>1. CASE k + 1 <= Len(seqs)
    <3>1. PICK h : ConcatenatesTo(k, h, seqs, E) BY <2>1
    <3>2. seqs[k + 1] \in Seq(E) BY <2>1
    <3>3. \E g : ConcatenatesTo(k + 1, g, seqs, E) BY <3>1, <3>2, OneMore
    <3> QED BY <3>3
  <2> QED BY <2>1
<1>3. T = Nat
  <2> HIDE DEF T
  <2>1. T \in SUBSET Nat BY DEF T
  <2> QED BY <1>1, <1>2, <2>1, SetInduction
<1>4. Len(seqs) \in T
  <2>1. Len(seqs) \in Nat OBVIOUS
  <2> HIDE DEF T
  <2> QED BY <1>3, <2>1
<1>5. \E h : ConcatenatesTo(Len(seqs), h, seqs, E) BY <1>4
<1> QED BY <1>5 DEF Concatenates

(* FlattenSeq is the last of these concatenations. *)
LEMMA FlattenIs ==
  ASSUME NEW E, NEW seqs \in Seq(Seq(E)), Len(seqs) # 0,
         NEW h, Concatenates(h, seqs, E)
  PROVE  FlattenSeq(seqs) = h[Len(seqs)]
<1> DEFINE G(f) == [i \in 1 .. Len(seqs) |-> IF i = 1 THEN seqs[i] ELSE f[i - 1] \o seqs[i]]
           f0 == CHOOSE f : f = G(f)
           T == {k \in Nat : k + 1 <= Len(seqs) => f0[k + 1] = h[k + 1]}
<1>1. FlattenSeq(seqs) = f0[Len(seqs)] BY DEF FlattenSeq
<1>2. h = G(h) BY DEF Concatenates, ConcatenatesTo
<1>3. f0 = G(f0)
  <2>1. \E f : f = G(f)
    <3> WITNESS h
    <3> QED BY <1>2
  <2> QED BY <2>1
<1> HIDE DEF f0
<1>4. 0 \in T BY <1>3, <1>2
<1>5. ASSUME NEW k \in T PROVE k + 1 \in T
  <2> SUFFICES ASSUME (k + 1) + 1 <= Len(seqs) PROVE f0[(k + 1) + 1] = h[(k + 1) + 1] OBVIOUS
  <2>1. f0[k + 1] = h[k + 1] OBVIOUS
  <2> DEFINE j == (k + 1) + 1
  <2>2. j \in 1 .. Len(seqs) /\ j # 1 /\ j - 1 = k + 1 OBVIOUS
  <2> HIDE DEF j
  <2>3. f0[j] = f0[j - 1] \o seqs[j] BY <1>3, <2>2
  <2>4. h[j] = h[j - 1] \o seqs[j] BY <2>2 DEF Concatenates, ConcatenatesTo
  <2> QED BY <2>1, <2>2, <2>3, <2>4 DEF j
<1>6. T = Nat
  <2> HIDE DEF T
  <2>1. T \in SUBSET Nat BY DEF T
  <2> QED BY <1>4, <1>5, <2>1, SetInduction
<1>7. Len(seqs) - 1 \in Nat /\ (Len(seqs) - 1) + 1 = Len(seqs) OBVIOUS
<1>8. Len(seqs) - 1 \in T BY <1>6, <1>7
<1> QED BY <1>1, <1>7, <1>8

LEMMA FlattenType ==
  ASSUME NEW E, NEW seqs \in Seq(Seq(E))
  PROVE  FlattenSeq(seqs) \in Seq(E)
<1>1. CASE Len(seqs) = 0 BY <1>1 DEF FlattenSeq
<1>2. CASE Len(seqs) # 0
  <2>1. PICK h : Concatenates(h, seqs, E) BY Concatenation
  <2>2. FlattenSeq(seqs) = h[Len(seqs)] BY <1>2, <2>1, FlattenIs
  <2> QED BY <1>2, <2>1, <2>2, SMTT(30) DEF Concatenates, ConcatenatesTo
<1> QED BY <1>1, <1>2

LEMMA FlattenAppend ==
  ASSUME NEW E, NEW seqs \in Seq(Seq(E)), NEW x \in Seq(E)
  PROVE  FlattenSeq(Append(seqs, x)) = FlattenSeq(seqs) \o x
<1> DEFINE all == Append(seqs, x)
           n == Len(seqs)
<1>1. /\ all \in Seq(Seq(E)) /\ Len(all) = n + 1 /\ n \in Nat /\ all[n + 1] = x
      /\ \A i \in 1 .. n : all[i] = seqs[i]
  OBVIOUS
<1> HIDE DEF all
<1>2. PICK h : Concatenates(h, seqs, E) BY Concatenation
<1>3. ConcatenatesTo(n, h, all, E) BY <1>1, <1>2 DEF Concatenates, ConcatenatesTo
<1> DEFINE e == IF n = 0 THEN x ELSE h[n] \o x
           g == [i \in 1 .. n + 1 |-> IF i = n + 1 THEN e ELSE h[i]]
<1>4. ConcatenatesTo(n + 1, g, all, E) BY <1>1, <1>3, OneMore
<1>5. g[n + 1] = e BY <1>1
<1> HIDE DEF g
<1>6. FlattenSeq(all) = e
  <2>1. Concatenates(g, all, E) /\ Len(all) # 0 BY <1>1, <1>4 DEF Concatenates
  <2>2. FlattenSeq(all) = g[Len(all)] BY <1>1, <2>1, FlattenIs
  <2> QED BY <1>1, <1>5, <2>2
<1>7. CASE n = 0
  <2>1. FlattenSeq(seqs) = <<>> BY <1>7 DEF FlattenSeq
  <2> QED BY <1>6, <1>7, <2>1, ConcatEmptySeq DEF all
<1>8. CASE n # 0
  <2>1. FlattenSeq(seqs) = h[n] BY <1>2, <1>8, FlattenIs
  <2> QED BY <1>6, <1>8, <2>1 DEF all
<1> QED BY <1>7, <1>8

LEMMA FlattenHead ==
  ASSUME NEW E, NEW seqs \in Seq(Seq(E)), seqs # <<>>
  PROVE  FlattenSeq(seqs) = Head(seqs) \o FlattenSeq(Tail(seqs))
<1> DEFINE n == Len(seqs)
           rest == Tail(seqs)
           x == Head(seqs)
<1>1. /\ n \in Nat /\ n >= 1 /\ rest \in Seq(Seq(E)) /\ Len(rest) = n - 1
      /\ x \in Seq(E) /\ x = seqs[1]
      /\ \A i \in 1 .. n - 1 : rest[i] = seqs[i + 1]
  OBVIOUS
<1> HIDE DEF n, rest, x
<1>2. PICK h : Concatenates(h, rest, E) BY <1>1, Concatenation
<1>3. h \in [1 .. n - 1 -> Seq(E)] BY <1>1, <1>2 DEF Concatenates, ConcatenatesTo
<1>4. ASSUME NEW i \in 1 .. n - 1
      PROVE  h[i] = IF i = 1 THEN rest[i] ELSE h[i - 1] \o rest[i]
  BY <1>1, <1>2 DEF Concatenates, ConcatenatesTo
<1> DEFINE g == [i \in 1 .. n |-> IF i = 1 THEN x ELSE x \o h[i - 1]]
<1>5. g \in [1 .. n -> Seq(E)]
  <2>1. ASSUME NEW i \in 1 .. n, i # 1 PROVE x \o h[i - 1] \in Seq(E)
    <3>1. h[i - 1] \in Seq(E) BY <1>1, <1>3, <2>1
    <3> QED BY <1>1, <3>1, ConcatProperties
  <2> QED BY <1>1, <2>1
<1>6. /\ g[1] = x
      /\ \A i \in 1 .. n : i # 1 => g[i] = x \o h[i - 1]
  <2>1. 1 \in 1 .. n BY <1>1
  <2> QED BY <2>1
<1> HIDE DEF g
<1>7. ASSUME NEW i \in 1 .. n
      PROVE  g[i] = IF i = 1 THEN seqs[i] ELSE g[i - 1] \o seqs[i]
  <2>1. CASE i = 1 BY <1>1, <1>6, <2>1
  <2>2. CASE i = 2
    <3>1. g[2] = x \o h[1] BY <1>6, <2>2
    <3>2. h[1] = rest[1] /\ rest[1] = seqs[2] BY <1>1, <1>4, <2>2
    <3>3. i - 1 = 1 /\ g[i - 1] = x BY <1>6, <2>2
    <3> QED BY <2>2, <3>1, <3>2, <3>3
  <2>3. CASE i # 1 /\ i # 2
    <3> DEFINE j == i - 1
    <3>1. j \in 1 .. n /\ j \in 1 .. n - 1 /\ j # 1 /\ j - 1 \in 1 .. n - 1 /\ i = j + 1
      BY <1>1, <2>3
    <3> HIDE DEF j
    <3>2. g[i] = x \o h[j] BY <1>6, <2>3 DEF j
    <3>3. h[j] = h[j - 1] \o seqs[i] BY <1>1, <1>4, <3>1
    <3>4. g[j] = x \o h[j - 1] BY <1>6, <3>1
    <3>5. seqs[i] \in Seq(E) BY DEF n
    <3>6. h[j - 1] \in Seq(E) BY <1>3, <3>1
    <3>7. ASSUME NEW p \in Seq(E), NEW q \in Seq(E)
          PROVE  x \o (p \o q) = (x \o p) \o q
      <4>1. x \in Seq(E) BY <1>1
      <4>2. (x \o p) \o q = x \o (p \o q) BY <4>1, ConcatAssociative, SMTT(30)
      <4> QED BY <4>2
    <3>8. x \o (h[j - 1] \o seqs[i]) = (x \o h[j - 1]) \o seqs[i]
      BY <3>5, <3>6, <3>7
    <3> QED BY <2>3, <3>2, <3>3, <3>4, <3>8 DEF j
  <2> QED BY <2>1, <2>2, <2>3
<1>8. Concatenates(g, seqs, E) BY <1>5, <1>7 DEF Concatenates, ConcatenatesTo, n
<1>9. FlattenSeq(seqs) = g[n]
  <2>1. Len(seqs) # 0 BY <1>1 DEF n
  <2> QED BY <1>8, <2>1, FlattenIs DEF n
<1>10. CASE n = 1
  <2>1. FlattenSeq(rest) = <<>> BY <1>1, <1>10 DEF FlattenSeq
  <2> QED BY <1>1, <1>6, <1>9, <1>10, <2>1, ConcatEmptySeq DEF rest, x
<1>11. CASE n # 1
  <2>1. FlattenSeq(rest) = h[n - 1] BY <1>1, <1>2, <1>11, FlattenIs
  <2>2. n \in 1 .. n BY <1>1
  <2>3. g[n] = x \o h[n - 1] BY <1>6, <1>11, <2>2
  <2> QED BY <1>9, <2>1, <2>3 DEF rest, x
<1> QED BY <1>10, <1>11

-----------------------------------------------------------------------------
(* Samples, the maps that hold the newest one of each signal, and frames   *)

StateSample == [value : Values, run : Nat, time : Nat]
EventSample == [value : Events, run : Nat, time : Nat]
Map == UNION {[S -> StateSample] : S \in SUBSET Signals}
Frame == [events : Seq(EventSample), state : Map]

LEMMA MapFacts ==
  ASSUME NEW m \in Map
  PROVE  /\ DOMAIN m \subseteq Signals
         /\ \A s \in DOMAIN m : m[s] \in StateSample
<1>1. PICK S \in SUBSET Signals : m \in [S -> StateSample] BY DEF Map
<1> HIDE DEF StateSample
<1> QED BY <1>1

LEMMA IsMap ==
  ASSUME NEW S \in SUBSET Signals, NEW m \in [S -> StateSample]
  PROVE  m \in Map
BY DEF Map

LEMMA NothingFacts == Nothing \in Map /\ DOMAIN Nothing = {}
<1>1. DOMAIN Nothing = {} /\ Nothing \in [{} -> StateSample] BY DEF Nothing
<1> HIDE DEF Nothing
<1> QED BY <1>1, IsMap

LEMMA PutFacts ==
  ASSUME NEW m \in Map, NEW s \in Signals, NEW x \in StateSample
  PROVE  /\ Put(m, s, x) \in Map
         /\ DOMAIN Put(m, s, x) = DOMAIN m \cup {s}
         /\ \A t \in DOMAIN m \cup {s} : Put(m, s, x)[t] = IF t = s THEN x ELSE m[t]
<1>1. /\ DOMAIN Put(m, s, x) = DOMAIN m \cup {s}
      /\ \A t \in DOMAIN m \cup {s} : Put(m, s, x)[t] = IF t = s THEN x ELSE m[t]
  BY DEF Put
<1>2. DOMAIN m \cup {s} \in SUBSET Signals BY MapFacts
<1>3. Put(m, s, x) \in [DOMAIN m \cup {s} -> StateSample]
  <2>1. \A t \in DOMAIN m : m[t] \in StateSample BY MapFacts
  <2> QED BY <2>1 DEF Put
<1> HIDE DEF Put
<1> QED BY <1>1, <1>2, <1>3, IsMap

LEMMA OverlayFacts ==
  ASSUME NEW m \in Map, NEW f \in Map
  PROVE  /\ Overlay(m, f) \in Map
         /\ DOMAIN Overlay(m, f) = DOMAIN m \cup DOMAIN f
         /\ \A t \in DOMAIN m \cup DOMAIN f :
              Overlay(m, f)[t] = IF t \in DOMAIN f THEN f[t] ELSE m[t]
<1>1. /\ DOMAIN Overlay(m, f) = DOMAIN m \cup DOMAIN f
      /\ \A t \in DOMAIN m \cup DOMAIN f :
           Overlay(m, f)[t] = IF t \in DOMAIN f THEN f[t] ELSE m[t]
  BY DEF Overlay
<1>2. DOMAIN m \cup DOMAIN f \in SUBSET Signals BY MapFacts
<1>3. Overlay(m, f) \in [DOMAIN m \cup DOMAIN f -> StateSample]
  <2>1. \A t \in DOMAIN m : m[t] \in StateSample BY MapFacts
  <2>2. \A t \in DOMAIN f : f[t] \in StateSample BY MapFacts
  <2> QED BY <2>1, <2>2 DEF Overlay
<1> QED BY <1>1, <1>2, <1>3, IsMap

LEMMA FrameFacts ==
  ASSUME NEW f \in Frame
  PROVE  f.events \in Seq(EventSample) /\ f.state \in Map
BY DEF Frame

LEMMA FrameIs ==
  ASSUME NEW e \in Seq(EventSample), NEW m \in Map
  PROVE  /\ [events |-> e, state |-> m] \in Frame
         /\ [events |-> e, state |-> m].events = e
         /\ [events |-> e, state |-> m].state = m
BY DEF Frame

(* What Append, Head and Tail do to the indices of a channel. *)
LEMMA AppendIndices ==
  ASSUME NEW ch \in Seq(Frame), NEW f \in Frame
  PROVE  LET more == Append(ch, f)
         IN  /\ more \in Seq(Frame) /\ more # <<>>
             /\ Len(ch) \in Nat /\ Len(more) = Len(ch) + 1
             /\ DOMAIN ch = 1 .. Len(ch) /\ DOMAIN more = 1 .. Len(ch) + 1
             /\ more[Len(ch) + 1] = f
             /\ \A i \in 1 .. Len(ch) : more[i] = ch[i] /\ ch[i] \in Frame
OBVIOUS

LEMMA TailIndices ==
  ASSUME NEW ch \in Seq(Frame), ch # <<>>
  PROVE  LET n == Len(ch)
         IN  /\ n \in Nat /\ n >= 1 /\ DOMAIN ch = 1 .. n
             /\ Tail(ch) \in Seq(Frame) /\ Len(Tail(ch)) = n - 1
             /\ DOMAIN Tail(ch) = 1 .. n - 1
             /\ Head(ch) = ch[1] /\ Head(ch) \in Frame
             /\ \A i \in 1 .. n : ch[i] \in Frame
             /\ \A i \in 1 .. n - 1 : Tail(ch)[i] = ch[i + 1]
OBVIOUS

-----------------------------------------------------------------------------
(* The events of a channel                                                 *)

EventsOf(ch) == [i \in 1 .. Len(ch) |-> ch[i].events]
Flying(ch) == FlattenSeq(EventsOf(ch))

LEMMA EventsOfType ==
  ASSUME NEW ch \in Seq(Frame)
  PROVE  /\ EventsOf(ch) \in Seq(Seq(EventSample)) /\ Len(EventsOf(ch)) = Len(ch)
         /\ \A i \in 1 .. Len(ch) : EventsOf(ch)[i] = ch[i].events
<1>1. \A i \in 1 .. Len(ch) : ch[i].events \in Seq(EventSample) BY FrameFacts
<1>2. Len(ch) \in Nat OBVIOUS
<1> HIDE DEF EventSample
<1> QED BY <1>1, <1>2 DEF EventsOf

LEMMA FlyingType ==
  ASSUME NEW ch \in Seq(Frame)
  PROVE  Flying(ch) \in Seq(EventSample)
BY EventsOfType, FlattenType DEF Flying

LEMMA FlyingNone == Flying(<<>>) = <<>>
<1>1. EventsOf(<<>>) = <<>> BY DEF EventsOf
<1> QED BY <1>1 DEF Flying, FlattenSeq

LEMMA FlyingAppend ==
  ASSUME NEW ch \in Seq(Frame), NEW f \in Frame
  PROVE  Flying(Append(ch, f)) = Flying(ch) \o f.events
<1> DEFINE more == Append(ch, f)
<1>1. /\ more \in Seq(Frame) /\ Len(ch) \in Nat /\ Len(more) = Len(ch) + 1
      /\ more[Len(ch) + 1] = f /\ \A i \in 1 .. Len(ch) : more[i] = ch[i]
  BY AppendIndices
<1> HIDE DEF more
<1>2. /\ EventsOf(ch) \in Seq(Seq(EventSample)) /\ Len(EventsOf(ch)) = Len(ch)
      /\ \A i \in 1 .. Len(ch) : EventsOf(ch)[i] = ch[i].events
  BY EventsOfType
<1>3. /\ EventsOf(more) \in Seq(Seq(EventSample)) /\ Len(EventsOf(more)) = Len(ch) + 1
      /\ \A i \in 1 .. Len(ch) + 1 : EventsOf(more)[i] = more[i].events
  BY <1>1, EventsOfType
<1>4. f.events \in Seq(EventSample) BY FrameFacts
<1> DEFINE a == EventsOf(ch)
           b == EventsOf(more)
           e == f.events
<1> HIDE DEF a, b, e
<1>5. b = Append(a, e)
  <2>1. /\ a \in Seq(Seq(EventSample)) /\ b \in Seq(Seq(EventSample))
        /\ e \in Seq(EventSample) /\ Len(b) = Len(a) + 1 /\ Len(a) \in Nat
    BY <1>1, <1>2, <1>3, <1>4 DEF a, b, e
  <2>2. ASSUME NEW i \in 1 .. Len(a) PROVE b[i] = a[i]
    <3>1. i \in 1 .. Len(ch) /\ i \in 1 .. Len(ch) + 1 BY <1>1, <1>2 DEF a
    <3>2. b[i] = more[i].events BY <1>3, <3>1 DEF b
    <3>3. a[i] = ch[i].events BY <1>2, <3>1 DEF a
    <3>4. more[i] = ch[i] BY <1>1, <3>1
    <3> QED BY <3>2, <3>3, <3>4
  <2>3. b[Len(a) + 1] = e BY <1>1, <1>2, <1>3 DEF a, b, e
  <2>4. \A i \in 1 .. Len(b) : b[i] = Append(a, e)[i] BY <2>1, <2>2, <2>3
  <2>5. Append(a, e) \in Seq(Seq(EventSample)) /\ Len(Append(a, e)) = Len(b) BY <2>1
  <2> HIDE DEF EventSample
  <2> QED BY <2>1, <2>4, <2>5, SeqEqual
<1>6. FlattenSeq(Append(a, e)) = FlattenSeq(a) \o e
  BY <1>2, <1>4, FlattenAppend DEF a, e
<1> QED BY <1>5, <1>6 DEF a, b, e, more, Flying

LEMMA FlyingHead ==
  ASSUME NEW ch \in Seq(Frame), ch # <<>>
  PROVE  Flying(ch) = Head(ch).events \o Flying(Tail(ch))
<1> DEFINE rest == Tail(ch)
           n == Len(ch)
<1>1. /\ n \in Nat /\ n >= 1 /\ rest \in Seq(Frame) /\ Len(rest) = n - 1
      /\ Head(ch) = ch[1] /\ \A i \in 1 .. n - 1 : rest[i] = ch[i + 1]
  BY TailIndices
<1> HIDE DEF rest
<1>2. /\ EventsOf(ch) \in Seq(Seq(EventSample)) /\ Len(EventsOf(ch)) = n
      /\ \A i \in 1 .. n : EventsOf(ch)[i] = ch[i].events
  BY EventsOfType
<1>3. /\ EventsOf(rest) \in Seq(Seq(EventSample)) /\ Len(EventsOf(rest)) = n - 1
      /\ \A i \in 1 .. n - 1 : EventsOf(rest)[i] = rest[i].events
  BY <1>1, EventsOfType
<1> DEFINE a == EventsOf(ch)
           b == EventsOf(rest)
<1> HIDE DEF a, b, n
<1>4. /\ a \in Seq(Seq(EventSample)) /\ b \in Seq(Seq(EventSample)) /\ Len(a) = n
      /\ Len(b) = n - 1 /\ a # <<>>
  BY <1>1, <1>2, <1>3 DEF a, b
<1>5. b = Tail(a)
  <2>1. Tail(a) \in Seq(Seq(EventSample)) /\ Len(Tail(a)) = n - 1 BY <1>4
  <2>2. \A i \in 1 .. n - 1 : Tail(a)[i] = a[i + 1] BY <1>1, <1>4
  <2>3. ASSUME NEW i \in 1 .. n - 1 PROVE b[i] = a[i + 1]
    <3>1. i + 1 \in 1 .. n BY <1>1
    <3>2. b[i] = rest[i].events BY <1>3 DEF b
    <3>3. a[i + 1] = ch[i + 1].events BY <1>2, <3>1 DEF a
    <3>4. rest[i] = ch[i + 1] BY <1>1
    <3> QED BY <3>2, <3>3, <3>4
  <2>4. \A i \in 1 .. Len(b) : b[i] = Tail(a)[i] BY <1>4, <2>2, <2>3
  <2> HIDE DEF EventSample
  <2> QED BY <1>4, <2>1, <2>4, SeqEqual
<1>6. FlattenSeq(a) = Head(a) \o FlattenSeq(Tail(a)) BY <1>4, FlattenHead
<1>7. Head(a) = Head(ch).events
  <2>1. 1 \in 1 .. n BY <1>1
  <2>2. Head(a) = a[1] BY <1>4
  <2> QED BY <1>1, <1>2, <2>1, <2>2 DEF a
<1> QED BY <1>5, <1>6, <1>7 DEF a, b, rest, Flying

-----------------------------------------------------------------------------
(* The values of a connection are in order                                 *)

(* A logger in its r-th run, with these latest values, has published x.    *)
Known(s, x, r, latest) ==
  \/ x.run < r
  \/ x.run = r /\ s \in DOMAIN latest /\ NotOlder(latest[s], x)

(* What a dash shows and what is on its way to it are known, and no frame  *)
(* is older than what is read before it.                                   *)
Chronological(v, ch, r, latest) ==
  /\ \A s \in DOMAIN v : Known(s, v[s], r, latest)
  /\ \A i \in 1 .. Len(ch) : \A s \in DOMAIN ch[i].state :
       /\ Known(s, ch[i].state[s], r, latest)
       /\ s \in DOMAIN v => NotOlder(ch[i].state[s], v[s])
       /\ \A j \in 1 .. i - 1 : s \in DOMAIN ch[j].state =>
            NotOlder(ch[i].state[s], ch[j].state[s])

(* The latest values are of this run, and none is newer than now.          *)
Recent(latest, r, t) ==
  \A s \in DOMAIN latest : latest[s].run = r /\ latest[s].time <= t

LEMMA NotOlderOrder ==
  ASSUME NEW x \in StateSample, NEW y \in StateSample, NEW z \in StateSample
  PROVE  /\ NotOlder(x, x)
         /\ NotOlder(x, y) /\ NotOlder(y, z) => NotOlder(x, z)
<1>1. /\ x.run \in Nat /\ x.time \in Nat /\ y.run \in Nat /\ y.time \in Nat
      /\ z.run \in Nat /\ z.time \in Nat
  BY DEF StateSample
<1> QED BY <1>1 DEF NotOlder

LEMMA LatestIsNewest ==
  ASSUME NEW latest \in Map, NEW r \in Nat, NEW t \in Nat, Recent(latest, r, t),
         NEW s \in DOMAIN latest, NEW x \in StateSample, Known(s, x, r, latest)
  PROVE  NotOlder(latest[s], x)
<1>1. latest[s].run = r BY DEF Recent
<1>2. x.run \in Nat BY DEF StateSample
<1>3. CASE x.run < r BY <1>1, <1>2, <1>3 DEF NotOlder
<1> QED BY <1>3 DEF Known

LEMMA LatestIsKnown ==
  ASSUME NEW latest \in Map, NEW r \in Nat, NEW t \in Nat, Recent(latest, r, t),
         NEW s \in DOMAIN latest
  PROVE  Known(s, latest[s], r, latest)
<1>1. latest[s] \in StateSample BY MapFacts
<1>2. NotOlder(latest[s], latest[s]) BY <1>1, NotOlderOrder
<1> QED BY <1>2 DEF Known, Recent

(* The logger does not forget what it has published ...                    *)
LEMMA KnownAfterPublish ==
  ASSUME NEW latest \in Map, NEW r \in Nat, NEW t \in Nat, Recent(latest, r, t),
         NEW u \in Signals, NEW y \in StateSample, y.run = r, y.time = t + 1
  PROVE  /\ Recent(Put(latest, u, y), r, t + 1)
         /\ \A s : \A x \in StateSample :
              Known(s, x, r, latest) => Known(s, x, r, Put(latest, u, y))
<1>1. /\ DOMAIN Put(latest, u, y) = DOMAIN latest \cup {u}
      /\ \A s \in DOMAIN latest \cup {u} :
           Put(latest, u, y)[s] = IF s = u THEN y ELSE latest[s]
  BY PutFacts, ZenonT(30)
<1>2. Recent(Put(latest, u, y), r, t + 1)
  <2>1. \A s \in DOMAIN latest : latest[s].time \in Nat
    <3>1. \A s \in DOMAIN latest : latest[s] \in StateSample BY MapFacts
    <3> QED BY <3>1 DEF StateSample
  <2> QED BY <1>1, <2>1 DEF Recent
<1>3. ASSUME NEW s, NEW x \in StateSample, Known(s, x, r, latest)
      PROVE  Known(s, x, r, Put(latest, u, y))
  <2>1. CASE x.run < r BY <2>1 DEF Known
  <2>2. CASE x.run = r /\ s \in DOMAIN latest /\ NotOlder(latest[s], x)
    <3>1. CASE s = u
      <4>1. latest[u] \in StateSample BY <2>2, <3>1, MapFacts
      <4>2. latest[u].time \in Nat /\ x.time \in Nat /\ x.run \in Nat BY <4>1 DEF StateSample
      <4>3. latest[u].run = r /\ latest[u].time <= t BY <2>2, <3>1 DEF Recent
      <4>4. y.time >= x.time BY <2>2, <3>1, <4>2, <4>3 DEF NotOlder
      <4>5. NotOlder(y, x) BY <2>2, <4>4 DEF NotOlder
      <4> QED BY <1>1, <2>2, <3>1, <4>5 DEF Known
    <3>2. CASE s # u
      <4>1. Put(latest, u, y)[s] = latest[s] BY <1>1, <2>2, <3>2
      <4> QED BY <1>1, <2>2, <4>1 DEF Known
    <3> QED BY <3>1, <3>2
  <2> QED BY <1>3, <2>1, <2>2 DEF Known
<1> QED BY <1>2, <1>3

(* ... and a restart makes all of it older.                                *)
LEMMA KnownAfterRestart ==
  ASSUME NEW latest, NEW r \in Nat, NEW s, NEW x \in StateSample, Known(s, x, r, latest)
  PROVE  Known(s, x, r + 1, Nothing)
<1>1. x.run \in Nat BY DEF StateSample
<1> QED BY <1>1 DEF Known

LEMMA ChronologicalKnown ==
  ASSUME NEW v \in Map, NEW ch \in Seq(Frame), NEW r, NEW latest, NEW r2, NEW latest2,
         Chronological(v, ch, r, latest),
         \A s : \A x \in StateSample : Known(s, x, r, latest) => Known(s, x, r2, latest2)
  PROVE  Chronological(v, ch, r2, latest2)
<1>1. \A s \in DOMAIN v : Known(s, v[s], r2, latest2)
  <2>1. \A s \in DOMAIN v : v[s] \in StateSample BY MapFacts
  <2> QED BY <2>1 DEF Chronological
<1>2. ASSUME NEW i \in 1 .. Len(ch), NEW s \in DOMAIN ch[i].state
      PROVE  Known(s, ch[i].state[s], r2, latest2)
  <2>1. ch[i] \in Frame BY ElementOfSeq
  <2>2. ch[i].state[s] \in StateSample BY <2>1, FrameFacts, MapFacts
  <2> QED BY <2>2 DEF Chronological
<1> QED BY <1>1, <1>2 DEF Chronological

LEMMA ChronologicalEmpty ==
  ASSUME NEW v, NEW ch, NEW r, NEW latest, Chronological(v, ch, r, latest)
  PROVE  Chronological(v, <<>>, r, latest)
BY DEF Chronological

(* A frame of latest values may follow whatever is on its way.             *)
LEMMA ChronologicalAppend ==
  ASSUME NEW v \in Map, NEW ch \in Seq(Frame), NEW r \in Nat, NEW t \in Nat,
         NEW latest \in Map, NEW f \in Frame, Recent(latest, r, t),
         Chronological(v, ch, r, latest),
         \A s \in DOMAIN f.state : s \in DOMAIN latest /\ latest[s] = f.state[s]
  PROVE  Chronological(v, Append(ch, f), r, latest)
<1> DEFINE more == Append(ch, f)
           n == Len(ch)
<1>1. /\ n \in Nat /\ Len(more) = n + 1 /\ more[n + 1] = f
      /\ \A i \in 1 .. n : more[i] = ch[i] /\ ch[i] \in Frame
  BY AppendIndices
<1> HIDE DEF more
<1>2. ASSUME NEW i \in 1 .. n + 1, NEW s \in DOMAIN more[i].state
      PROVE  /\ Known(s, more[i].state[s], r, latest)
             /\ s \in DOMAIN v => NotOlder(more[i].state[s], v[s])
             /\ \A j \in 1 .. i - 1 : s \in DOMAIN more[j].state =>
                  NotOlder(more[i].state[s], more[j].state[s])
  <2>1. CASE i = n + 1
    <3>1. s \in DOMAIN latest /\ more[i].state[s] = latest[s] BY <1>1, <1>2, <2>1
    <3>2. Known(s, latest[s], r, latest) BY <3>1, LatestIsKnown
    <3>3. ASSUME s \in DOMAIN v PROVE NotOlder(latest[s], v[s])
      <4>1. v[s] \in StateSample BY <3>3, MapFacts
      <4>2. Known(s, v[s], r, latest) BY <3>3 DEF Chronological
      <4> QED BY <3>1, <4>1, <4>2, LatestIsNewest
    <3>4. ASSUME NEW j \in 1 .. i - 1, s \in DOMAIN more[j].state
          PROVE  NotOlder(latest[s], more[j].state[s])
      <4>1. j \in 1 .. n BY <1>1, <2>1
      <4>2. more[j] = ch[j] /\ ch[j] \in Frame BY <1>1, <4>1
      <4>3. ch[j].state[s] \in StateSample BY <3>4, <4>2, FrameFacts, MapFacts
      <4>4. Known(s, ch[j].state[s], r, latest) BY <3>4, <4>1, <4>2 DEF Chronological
      <4>5. NotOlder(latest[s], ch[j].state[s]) BY <3>1, <4>3, <4>4, LatestIsNewest
      <4> QED BY <4>2, <4>5
    <3> QED BY <3>1, <3>2, <3>3, <3>4
  <2>2. CASE i # n + 1
    <3>1. i \in 1 .. n /\ more[i] = ch[i] BY <1>1, <2>2
    <3>2. ASSUME NEW j \in 1 .. i - 1 PROVE more[j] = ch[j]
      <4>1. j \in 1 .. n BY <1>1, <3>1
      <4> QED BY <1>1, <4>1
    <3> QED BY <1>2, <3>1, <3>2 DEF Chronological
  <2> QED BY <2>1, <2>2
<1>3. \A s \in DOMAIN v : Known(s, v[s], r, latest) BY DEF Chronological
<1>4. Chronological(v, more, r, latest) BY <1>1, <1>2, <1>3 DEF Chronological
<1> QED BY <1>4 DEF more

(* Reading a frame makes no value older and leaves the rest in order.      *)
LEMMA ChronologicalRead ==
  ASSUME NEW v \in Map, NEW ch \in Seq(Frame), NEW r, NEW latest, ch # <<>>,
         Chronological(v, ch, r, latest)
  PROVE  /\ Chronological(Overlay(v, Head(ch).state), Tail(ch), r, latest)
         /\ \A s \in DOMAIN v : NotOlder(Overlay(v, Head(ch).state)[s], v[s])
<1> DEFINE f == Head(ch).state
           w == Overlay(v, f)
           rest == Tail(ch)
           n == Len(ch)
<1>1. /\ n \in Nat /\ n >= 1 /\ Len(rest) = n - 1
      /\ Head(ch) = ch[1] /\ Head(ch) \in Frame
      /\ \A i \in 1 .. n - 1 : rest[i] = ch[i + 1]
  BY TailIndices
<1>2. 1 \in 1 .. n /\ f \in Map /\ f = ch[1].state BY <1>1, FrameFacts
<1> HIDE DEF f, rest
<1>3. /\ DOMAIN w = DOMAIN v \cup DOMAIN f
      /\ \A s \in DOMAIN w : w[s] = IF s \in DOMAIN f THEN f[s] ELSE v[s]
  <2>1. DOMAIN w = DOMAIN v \cup DOMAIN f BY <1>2, OverlayFacts
  <2>2. \A s \in DOMAIN v \cup DOMAIN f : w[s] = IF s \in DOMAIN f THEN f[s] ELSE v[s]
    BY DEF Overlay
  <2> QED BY <2>1, <2>2
<1> HIDE DEF w
<1>4. \A s \in DOMAIN w : Known(s, w[s], r, latest)
  BY <1>2, <1>3 DEF Chronological
<1>5. ASSUME NEW s \in DOMAIN v PROVE NotOlder(w[s], v[s])
  <2>1. CASE s \in DOMAIN f BY <1>2, <1>3, <2>1 DEF Chronological
  <2>2. CASE s \notin DOMAIN f
    <3>1. v[s] \in StateSample BY MapFacts
    <3> QED BY <1>3, <2>2, <3>1, NotOlderOrder
  <2> QED BY <2>1, <2>2
<1>6. ASSUME NEW i \in 1 .. n - 1, NEW s \in DOMAIN rest[i].state
      PROVE  /\ Known(s, rest[i].state[s], r, latest)
             /\ s \in DOMAIN w => NotOlder(rest[i].state[s], w[s])
             /\ \A j \in 1 .. i - 1 : s \in DOMAIN rest[j].state =>
                  NotOlder(rest[i].state[s], rest[j].state[s])
  <2> DEFINE k == i + 1
  <2>1. k \in 1 .. n /\ rest[i] = ch[k] /\ 1 \in 1 .. k - 1 BY <1>1
  <2>2. ASSUME NEW j \in 1 .. i - 1 PROVE rest[j] = ch[j + 1] /\ j + 1 \in 1 .. k - 1
    BY <1>1
  <2> HIDE DEF k
  <2>3. Known(s, ch[k].state[s], r, latest) BY <1>6, <2>1 DEF Chronological
  <2>4. ASSUME s \in DOMAIN w PROVE NotOlder(ch[k].state[s], w[s])
    <3>1. CASE s \in DOMAIN f
      <4>1. NotOlder(ch[k].state[s], ch[1].state[s])
        BY <1>2, <1>6, <2>1, <3>1 DEF Chronological
      <4> QED BY <1>2, <1>3, <2>4, <3>1, <4>1
    <3>2. CASE s \notin DOMAIN f
      <4>1. s \in DOMAIN v /\ w[s] = v[s] BY <1>3, <2>4, <3>2
      <4> QED BY <1>6, <2>1, <4>1 DEF Chronological
    <3> QED BY <3>1, <3>2
  <2>5. ASSUME NEW j \in 1 .. i - 1, s \in DOMAIN rest[j].state
        PROVE  NotOlder(ch[k].state[s], rest[j].state[s])
    BY <1>6, <2>1, <2>2, <2>5 DEF Chronological
  <2> QED BY <2>1, <2>3, <2>4, <2>5
<1>7. Chronological(w, rest, r, latest) BY <1>1, <1>4, <1>6 DEF Chronological
<1> QED BY <1>5, <1>7 DEF w, rest, f

-----------------------------------------------------------------------------
(* A connected dash is to see the latest values                            *)

CarryingIn(ch, s) == {i \in 1 .. Len(ch) : s \in DOMAIN ch[i].state}

(* Upcoming, for a view, a channel and pending values.                     *)
Due(v, ch, pending, s, x) ==
  IF s \in DOMAIN pending THEN pending[s] = x
  ELSE IF CarryingIn(ch, s) # {} THEN ch[Max(CarryingIn(ch, s))].state[s] = x
  ELSE s \in DOMAIN v /\ v[s] = x

Informed(v, ch, pending, latest) ==
  \A s \in DOMAIN latest : Due(v, ch, pending, s, latest[s])

LEMMA CarryingType ==
  ASSUME NEW ch \in Seq(Frame), NEW s
  PROVE  CarryingIn(ch, s) \in SUBSET (1 .. Len(ch)) /\ Len(ch) \in Nat
BY DEF CarryingIn

LEMMA InformedPublish ==
  ASSUME NEW v, NEW ch, NEW pending \in Map, NEW latest \in Map,
         NEW u \in Signals, NEW x \in StateSample, Informed(v, ch, pending, latest)
  PROVE  Informed(v, ch, Put(pending, u, x), Put(latest, u, x))
<1>1. /\ DOMAIN Put(pending, u, x) = DOMAIN pending \cup {u}
      /\ \A s \in DOMAIN pending \cup {u} :
           Put(pending, u, x)[s] = IF s = u THEN x ELSE pending[s]
  BY DEF Put
<1>2. /\ DOMAIN Put(latest, u, x) = DOMAIN latest \cup {u}
      /\ \A s \in DOMAIN latest \cup {u} :
           Put(latest, u, x)[s] = IF s = u THEN x ELSE latest[s]
  BY DEF Put
<1> DEFINE p == Put(pending, u, x)
           l == Put(latest, u, x)
<1> HIDE DEF p, l
<1>3. ASSUME NEW s \in DOMAIN l PROVE Due(v, ch, p, s, l[s])
  <2>1. CASE s = u
    <3>1. s \in DOMAIN p /\ p[s] = x /\ l[s] = x BY <1>1, <1>2, <2>1 DEF p, l
    <3> QED BY <3>1 DEF Due
  <2>2. CASE s # u
    <3>1. s \in DOMAIN latest /\ l[s] = latest[s] BY <1>2, <2>2 DEF l
    <3>2. Due(v, ch, pending, s, latest[s]) BY <3>1 DEF Informed
    <3>3. s \in DOMAIN p <=> s \in DOMAIN pending BY <1>1, <2>2 DEF p
    <3>4. s \in DOMAIN pending => p[s] = pending[s] BY <1>1, <2>2 DEF p
    <3> QED BY <3>1, <3>2, <3>3, <3>4 DEF Due
  <2> QED BY <2>1, <2>2
<1>4. Informed(v, ch, p, l) BY <1>3 DEF Informed
<1> QED BY <1>4 DEF p, l

LEMMA InformedFlush ==
  ASSUME NEW v, NEW ch \in Seq(Frame), NEW pending \in Map, NEW latest, NEW f \in Frame,
         f.state = pending, Informed(v, ch, pending, latest)
  PROVE  Informed(v, Append(ch, f), Nothing, latest)
<1> SUFFICES ASSUME NEW s \in DOMAIN latest
             PROVE  Due(v, Append(ch, f), Nothing, s, latest[s])
  BY DEF Informed
<1> DEFINE more == Append(ch, f)
           n == Len(ch)
<1>1. /\ n \in Nat /\ Len(more) = n + 1 /\ more[n + 1] = f /\ more \in Seq(Frame)
      /\ \A i \in 1 .. n : more[i] = ch[i]
  BY AppendIndices
<1> HIDE DEF more, n
<1>2. Due(v, ch, pending, s, latest[s]) BY DEF Informed
<1>3. s \notin DOMAIN Nothing BY NothingFacts
<1>4. CASE s \in DOMAIN pending
  <2>1. n + 1 \in CarryingIn(more, s) BY <1>1, <1>4 DEF CarryingIn
  <2>2. CarryingIn(more, s) \in SUBSET (1 .. n + 1) BY <1>1 DEF CarryingIn
  <2>3. \A k \in CarryingIn(more, s) : k <= n + 1 BY <1>1, <2>2
  <2>4. Max(CarryingIn(more, s)) = n + 1
    <3>1. n + 1 \in Nat BY <1>1
    <3> QED BY <2>1, <2>2, <2>3, <3>1, MaxIs
  <2>5. more[n + 1].state[s] = latest[s] BY <1>1, <1>2, <1>4 DEF Due
  <2> QED BY <1>3, <2>1, <2>4, <2>5 DEF Due, more
<1>5. CASE s \notin DOMAIN pending
  <2>1. CarryingIn(more, s) = CarryingIn(ch, s)
    <3>1. ASSUME NEW i \in 1 .. n + 1
          PROVE  s \in DOMAIN more[i].state <=> i \in 1 .. n /\ s \in DOMAIN ch[i].state
      <4>1. CASE i = n + 1 BY <1>1, <1>5, <4>1
      <4>2. CASE i # n + 1
        <5>1. i \in 1 .. n BY <1>1, <4>2
        <5> QED BY <1>1, <5>1
      <4> QED BY <4>1, <4>2
    <3>2. 1 .. n \subseteq 1 .. n + 1 BY <1>1
    <3> QED BY <1>1, <3>1, <3>2 DEF CarryingIn, n
  <2>2. CASE CarryingIn(ch, s) # {}
    <3> DEFINE m == Max(CarryingIn(ch, s))
    <3>1. m \in 1 .. n
      <4>1. CarryingIn(ch, s) \in SUBSET (1 .. n) BY CarryingType DEF n
      <4>2. m \in CarryingIn(ch, s) BY <1>1, <2>2, <4>1, MaxOfIndices
      <4> HIDE DEF m
      <4> QED BY <4>1, <4>2
    <3> HIDE DEF m
    <3>2. ch[m].state[s] = latest[s] BY <1>2, <1>5, <2>2 DEF Due, m
    <3>3. more[m].state[s] = latest[s] BY <1>1, <3>1, <3>2
    <3> QED BY <1>3, <2>1, <2>2, <3>3 DEF Due, m, more
  <2>3. CASE CarryingIn(ch, s) = {}
    <3>1. s \in DOMAIN v /\ v[s] = latest[s] BY <1>2, <1>5, <2>3 DEF Due
    <3> QED BY <1>3, <2>1, <2>3, <3>1 DEF Due, more
  <2> QED BY <2>2, <2>3
<1> QED BY <1>4, <1>5

LEMMA InformedRead ==
  ASSUME NEW v \in Map, NEW ch \in Seq(Frame), NEW pending, NEW latest, ch # <<>>,
         Informed(v, ch, pending, latest)
  PROVE  Informed(Overlay(v, Head(ch).state), Tail(ch), pending, latest)
<1> SUFFICES ASSUME NEW s \in DOMAIN latest
             PROVE  Due(Overlay(v, Head(ch).state), Tail(ch), pending, s, latest[s])
  BY DEF Informed
<1> DEFINE f == Head(ch).state
           w == Overlay(v, f)
           rest == Tail(ch)
           n == Len(ch)
           A == CarryingIn(ch, s)
           B == CarryingIn(rest, s)
<1>1. /\ n \in Nat /\ n >= 1 /\ Len(rest) = n - 1 /\ rest \in Seq(Frame)
      /\ Head(ch) = ch[1] /\ Head(ch) \in Frame
      /\ \A i \in 1 .. n - 1 : rest[i] = ch[i + 1]
  BY TailIndices
<1>2. 1 \in 1 .. n /\ f \in Map /\ f = ch[1].state BY <1>1, FrameFacts
<1> HIDE DEF f
<1>3. /\ DOMAIN w = DOMAIN v \cup DOMAIN f
      /\ \A t \in DOMAIN v \cup DOMAIN f : w[t] = IF t \in DOMAIN f THEN f[t] ELSE v[t]
  BY DEF Overlay
<1> HIDE DEF w, rest
<1>4. Due(v, ch, pending, s, latest[s]) BY DEF Informed
<1>5. A \in SUBSET (1 .. n) /\ B \in SUBSET (1 .. n - 1) BY <1>1 DEF CarryingIn
<1>6. \A i \in 1 .. n - 1 : i \in B <=> i + 1 \in A
  <2>1. \A i \in 1 .. n - 1 : i + 1 \in 1 .. n BY <1>1
  <2> QED BY <1>1, <2>1 DEF CarryingIn
<1>7. 1 \in A <=> s \in DOMAIN f BY <1>2 DEF CarryingIn
<1> HIDE DEF A, B, n
<1>8. SUFFICES ASSUME s \notin DOMAIN pending PROVE Due(w, rest, pending, s, latest[s])
  BY <1>4 DEF Due, w, rest, f
<1>9. CASE B # {}
  <2>1. PICK i \in B : TRUE BY <1>9
  <2>2. n - 1 \in Nat BY <1>1
  <2> DEFINE m == Max(B)
  <2>3. m \in B /\ \A k \in B : k <= m BY <1>5, <1>9, <2>2, MaxOfIndices
  <2> HIDE DEF m
  <2>4. m \in 1 .. n - 1 /\ m + 1 \in A BY <1>5, <1>6, <2>3
  <2>5. \A k \in A : k <= m + 1
    <3> SUFFICES ASSUME NEW k \in A, k # 1 PROVE k <= m + 1 BY <1>1, <2>4
    <3> DEFINE j == k - 1
    <3>1. j \in 1 .. n - 1 /\ j + 1 = k BY <1>1, <1>5
    <3> HIDE DEF j
    <3>2. j <= m BY <1>6, <2>3, <3>1
    <3> QED BY <2>4, <3>1, <3>2
  <2>6. Max(A) = m + 1 BY <1>1, <1>5, <2>4, <2>5, MaxIs
  <2>7. ch[m + 1].state[s] = latest[s] BY <1>4, <1>8, <2>4, <2>6 DEF Due, A
  <2>8. rest[m].state[s] = latest[s] BY <1>1, <2>4, <2>7
  <2> QED BY <1>8, <1>9, <2>8 DEF Due, B, m
<1>10. CASE B = {}
  <2>1. \A k \in A : k = 1
    <3> SUFFICES ASSUME NEW k \in A, k # 1 PROVE FALSE OBVIOUS
    <3> DEFINE j == k - 1
    <3>1. j \in 1 .. n - 1 /\ j + 1 = k BY <1>1, <1>5
    <3> HIDE DEF j
    <3> QED BY <1>6, <1>10, <3>1
  <2>2. CASE 1 \in A
    <3>1. Max(A) = 1
      <4>1. \A k \in A : k <= 1 BY <2>1
      <4> QED BY <1>1, <1>5, <2>2, <4>1, MaxIs
    <3>2. ch[1].state[s] = latest[s] BY <1>4, <1>8, <2>2, <3>1 DEF Due, A
    <3>3. s \in DOMAIN f BY <1>7, <2>2
    <3>4. s \in DOMAIN w /\ w[s] = latest[s] BY <1>2, <1>3, <3>2, <3>3
    <3> QED BY <1>8, <1>10, <3>4 DEF Due, B
  <2>3. CASE 1 \notin A
    <3>1. A = {} BY <2>1, <2>3
    <3>2. s \in DOMAIN v /\ v[s] = latest[s] BY <1>4, <1>8, <3>1 DEF Due, A
    <3>3. s \notin DOMAIN f BY <1>7, <2>3
    <3>4. s \in DOMAIN w /\ w[s] = latest[s] BY <1>3, <3>2, <3>3
    <3> QED BY <1>8, <1>10, <3>4 DEF Due, B
  <2> QED BY <2>2, <2>3
<1> QED BY <1>9, <1>10

(* The snapshot, with what is pending for the others after it.             *)
LEMMA InformedSnapshot ==
  ASSUME NEW v, NEW pending, NEW latest \in Map, NEW f \in Frame, f.state = latest,
         \A s \in DOMAIN pending : s \in DOMAIN latest /\ latest[s] = pending[s]
  PROVE  Informed(v, <<f>>, pending, latest)
<1> SUFFICES ASSUME NEW s \in DOMAIN latest, s \notin DOMAIN pending
             PROVE  Due(v, <<f>>, pending, s, latest[s])
  BY DEF Informed, Due
<1>1. CarryingIn(<<f>>, s) = {1} BY DEF CarryingIn
<1>2. Max({1}) = 1
  <2>1. {1} \in SUBSET (1 .. 1) /\ 1 \in Nat OBVIOUS
  <2>2. 1 \in {1} /\ \A k \in {1} : k <= 1 OBVIOUS
  <2> QED BY <2>1, <2>2, MaxIs
<1> QED BY <1>1, <1>2 DEF Due

-----------------------------------------------------------------------------
(* The events of a connection are accounted for                            *)

Accounted(state, g, ch, pending, o) ==
  /\ state = "accepted" => g \o Flying(ch) \o pending = o
  /\ state = "closing" => IsPrefix(g \o Flying(ch), o)
  /\ state = "pending" => g = <<>> /\ o = <<>> /\ ch = <<>>

LEMMA PrefixOfConcat ==
  ASSUME NEW E, NEW s \in Seq(E), NEW t \in Seq(E)
  PROVE  IsPrefix(s, s \o t)
<1>1. /\ s \o t \in Seq(E) /\ Len(s \o t) = Len(s) + Len(t)
      /\ Len(s) \in Nat /\ Len(t) \in Nat
  BY ConcatProperties, LenProperties
<1>2. SubSeq(s, 1, Len(s)) = s BY SubSeqFull
<1>3. SubSeq(s \o t, 1, Len(s)) = s
  <2>1. CASE Len(s) = 0
    <3>1. SubSeq(s \o t, 1, Len(s)) = <<>> BY <2>1, SubSeqEmpty
    <3>2. s = <<>> BY <2>1
    <3> QED BY <3>1, <3>2
  <2>2. CASE Len(s) # 0
    <3>1. 1 \in 1 .. Len(s) /\ Len(s) \in 1 .. Len(s) BY <1>1, <2>2
    <3> QED BY <1>2, <3>1, SubSeqOfConcat1
  <2> QED BY <2>1, <2>2
<1> QED BY <1>1, <1>2, <1>3 DEF IsPrefix

LEMMA Associative ==
  ASSUME NEW E, NEW s \in Seq(E), NEW t \in Seq(E), NEW u \in Seq(E)
  PROVE  /\ (s \o t) \o u = s \o (t \o u)
         /\ s \o t \in Seq(E)
BY ConcatAssociative, ConcatProperties

LEMMA AccountedPublish ==
  ASSUME NEW g \in Seq(EventSample), NEW ch \in Seq(Frame), NEW p \in Seq(EventSample),
         NEW o \in Seq(EventSample), NEW x \in EventSample, Accounted("accepted", g, ch, p, o)
  PROVE  Accounted("accepted", g, ch, Append(p, x), Append(o, x))
<1> HIDE DEF EventSample
<1> DEFINE a == g \o Flying(ch)
<1>1. a \in Seq(EventSample) BY FlyingType, ConcatProperties
<1>2. a \o p = o BY DEF Accounted
<1> HIDE DEF a
<1>3. <<x>> \in Seq(EventSample) OBVIOUS
<1>4. Append(p, x) = p \o <<x>> /\ Append(o, x) = o \o <<x>> BY AppendIsConcat
<1>5. (a \o p) \o <<x>> = a \o (p \o <<x>>) BY <1>1, <1>3, Associative, SMTT(30)
<1>6. a \o Append(p, x) = Append(o, x) BY <1>2, <1>4, <1>5
<1> QED BY <1>6 DEF Accounted, a

LEMMA AccountedFlush ==
  ASSUME NEW g \in Seq(EventSample), NEW ch \in Seq(Frame), NEW p \in Seq(EventSample),
         NEW o, NEW f \in Frame, f.events = p, Accounted("accepted", g, ch, p, o)
  PROVE  Accounted("accepted", g, Append(ch, f), <<>>, o)
<1> HIDE DEF EventSample
<1>1. Flying(ch) \in Seq(EventSample) BY FlyingType
<1>2. Flying(Append(ch, f)) = Flying(ch) \o p BY FlyingAppend
<1>3. g \o (Flying(ch) \o p) = (g \o Flying(ch)) \o p BY <1>1, Associative, SMTT(30)
<1>4. g \o (Flying(ch) \o p) \in Seq(EventSample)
  <2>1. Flying(ch) \o p \in Seq(EventSample) BY <1>1, Associative
  <2> QED BY <2>1, Associative
<1>5. (g \o (Flying(ch) \o p)) \o <<>> = g \o (Flying(ch) \o p) BY <1>4, ConcatEmptySeq
<1>6. g \o Flying(ch) \o p = o BY DEF Accounted
<1> QED BY <1>2, <1>3, <1>5, <1>6 DEF Accounted

(* When the server closes a connection, what is pending is lost to it.     *)
LEMMA AccountedClose ==
  ASSUME NEW g \in Seq(EventSample), NEW ch \in Seq(Frame), NEW p \in Seq(EventSample),
         NEW o, NEW state \in {"accepted", "pending"}, Accounted(state, g, ch, p, o), NEW p2
  PROVE  Accounted("closing", g, ch, p2, o)
<1> HIDE DEF EventSample
<1>1. CASE state = "accepted"
  <2>1. g \o Flying(ch) \in Seq(EventSample) BY FlyingType, Associative
  <2>2. g \o Flying(ch) \o p = o BY <1>1 DEF Accounted
  <2> QED BY <2>1, <2>2, PrefixOfConcat DEF Accounted
<1>2. CASE state = "pending"
  <2>1. g = <<>> /\ o = <<>> /\ Flying(ch) = <<>> BY <1>2, FlyingNone DEF Accounted
  <2>2. <<>> \in Seq(EventSample) OBVIOUS
  <2>3. <<>> \o <<>> = <<>> BY <2>2, ConcatEmptySeq
  <2>4. IsPrefix(<<>>, <<>> \o <<>>) BY <2>2, PrefixOfConcat
  <2> QED BY <2>1, <2>3, <2>4 DEF Accounted
<1> QED BY <1>1, <1>2

LEMMA AccountedRead ==
  ASSUME NEW g \in Seq(EventSample), NEW ch \in Seq(Frame), NEW p, NEW o, NEW state,
         state # "pending", ch # <<>>, Accounted(state, g, ch, p, o)
  PROVE  Accounted(state, g \o Head(ch).events, Tail(ch), p, o)
<1> HIDE DEF EventSample
<1>1. Head(ch) \in Frame /\ Tail(ch) \in Seq(Frame) BY TailIndices
<1>2. Head(ch).events \in Seq(EventSample) /\ Flying(Tail(ch)) \in Seq(EventSample)
  BY <1>1, FrameFacts, FlyingType
<1>3. (g \o Head(ch).events) \o Flying(Tail(ch)) = g \o (Head(ch).events \o Flying(Tail(ch)))
  <2>1. \A a \in Seq(EventSample) : \A b \in Seq(EventSample) :
          (g \o a) \o b = g \o (a \o b)
    BY ConcatAssociative
  <2> QED BY <1>2, <2>1
<1>4. Flying(ch) = Head(ch).events \o Flying(Tail(ch)) BY FlyingHead
<1> QED BY <1>3, <1>4 DEF Accounted

(* A new client is to get what is pending, in any case.                    *)
LEMMA AccountedAccept ==
  ASSUME NEW ch \in Seq(Frame), NEW p \in Seq(EventSample), Flying(ch) = <<>>
  PROVE  Accounted("accepted", <<>>, ch, p, p)
<1> HIDE DEF EventSample
<1>1. <<>> \in Seq(EventSample) OBVIOUS
<1>2. <<>> \o <<>> = <<>> BY <1>1, ConcatEmptySeq
<1>3. <<>> \o p = p BY ConcatEmptySeq
<1> QED BY <1>2, <1>3 DEF Accounted

-----------------------------------------------------------------------------
(* The inductive invariant                                                 *)

Links == {"off", "waiting", "pending", "accepted", "closing", "gone"}

IpcTypeOK ==
  /\ up \in BOOLEAN /\ listening \in BOOLEAN /\ leftover \in BOOLEAN
  /\ run \in Nat /\ now \in Nat
  /\ latestState \in Map /\ pendingLatest \in Map
  /\ pendingEvents \in Seq(EventSample)
  /\ link \in [Clients -> Links]
  /\ channel \in [Clients -> Seq(Frame)]
  /\ view \in [Clients -> Map]
  /\ got \in [Clients -> Seq(EventSample)]
  /\ owed \in [Clients -> Seq(EventSample)]

(* What is pending is the latest value; and it is pending for somebody,    *)
(* unless the last dash has left it behind.                                *)
PendingIsLatest ==
  /\ ~up => pendingLatest = Nothing
  /\ leftover \/ /\ pendingLatest = Nothing \/ Served # {}
                 /\ \A s \in DOMAIN pendingLatest :
                      s \in DOMAIN latestState /\ latestState[s] = pendingLatest[s]

Connection(c) ==
  /\ Accounted(link[c], got[c], channel[c], pendingEvents, owed[c])
  /\ leftover \/ Chronological(view[c], channel[c], run, latestState)
  /\ leftover \/ link[c] # "accepted"
              \/ Informed(view[c], channel[c], pendingLatest, latestState)

IpcInv ==
  /\ IpcTypeOK
  /\ Recent(latestState, run, now)
  /\ PendingIsLatest
  /\ \A c \in Clients : Connection(c)

LEMMA IpcInitially == IpcInit => IpcInv
<1> SUFFICES ASSUME IpcInit PROVE IpcInv OBVIOUS
<1>1. Nothing \in Map /\ DOMAIN Nothing = {} BY NothingFacts
<1>2. IpcTypeOK
  <2> HIDE DEF Nothing, EventSample, Map, Frame
  <2>1. <<>> \in Seq(EventSample) /\ <<>> \in Seq(Frame) OBVIOUS
  <2>2. up \in BOOLEAN /\ listening \in BOOLEAN /\ leftover \in BOOLEAN BY DEF IpcInit
  <2>3. run \in Nat /\ now \in Nat BY DEF IpcInit
  <2>4. latestState \in Map /\ pendingLatest \in Map BY <1>1 DEF IpcInit
  <2>5. pendingEvents \in Seq(EventSample) BY <2>1 DEF IpcInit
  <2>6. link \in [Clients -> Links] BY DEF IpcInit, Links
  <2>7. channel \in [Clients -> Seq(Frame)] BY <2>1 DEF IpcInit
  <2>8. view \in [Clients -> Map] BY <1>1 DEF IpcInit
  <2>9. got \in [Clients -> Seq(EventSample)] /\ owed \in [Clients -> Seq(EventSample)]
    BY <2>1 DEF IpcInit
  <2> QED BY <2>2, <2>3, <2>4, <2>5, <2>6, <2>7, <2>8, <2>9 DEF IpcTypeOK
<1>3. Recent(latestState, run, now) BY <1>1 DEF IpcInit, Recent
<1>4. PendingIsLatest BY <1>1 DEF IpcInit, PendingIsLatest
<1>5. ASSUME NEW c \in Clients PROVE Connection(c)
  <2>1. link[c] = "off" /\ channel[c] = <<>> /\ view[c] = Nothing BY DEF IpcInit
  <2>2. Accounted(link[c], got[c], channel[c], pendingEvents, owed[c])
    BY <2>1 DEF Accounted
  <2>3. Chronological(view[c], channel[c], run, latestState)
    BY <1>1, <2>1 DEF Chronological
  <2> QED BY <2>1, <2>2, <2>3 DEF Connection
<1> QED BY <1>2, <1>3, <1>4, <1>5 DEF IpcInv

(* The types of a connection.                                              *)
LEMMA ConnectionTypes ==
  ASSUME IpcTypeOK, NEW c \in Clients
  PROVE  /\ link[c] \in Links /\ channel[c] \in Seq(Frame) /\ view[c] \in Map
         /\ got[c] \in Seq(EventSample) /\ owed[c] \in Seq(EventSample)
BY DEF IpcTypeOK

(* A dash that has no part in a step, and the logger at a dash's step.     *)
LEMMA Bystander ==
  ASSUME IpcInv, NEW c \in Clients,
         run' = run, latestState' = latestState, pendingLatest' = pendingLatest,
         pendingEvents' = pendingEvents, leftover => leftover',
         link'[c] = link[c], channel'[c] = channel[c], view'[c] = view[c],
         got'[c] = got[c], owed'[c] = owed[c]
  PROVE  Connection(c)'
BY DEF IpcInv, Connection

LEMMA DashStepLeavesPending ==
  ASSUME IpcInv, UNCHANGED <<loggerVars, latestState, pendingVars, leftover>>,
         Served # {} => Served' # {}
  PROVE  Recent(latestState, run, now)' /\ PendingIsLatest'
<1>1. Recent(latestState, run, now)' BY DEF IpcInv, loggerVars
<1>2. PendingIsLatest' BY DEF IpcInv, PendingIsLatest, loggerVars, pendingVars
<1> QED BY <1>1, <1>2

-----------------------------------------------------------------------------
(* The logger's steps                                                      *)

LEMMA SampledType ==
  ASSUME IpcTypeOK
  PROVE  /\ \A value \in Values : Sampled(value) \in StateSample
         /\ \A event \in Events : Sampled(event) \in EventSample
         /\ \A x : Sampled(x).run = run /\ Sampled(x).time = now + 1
BY DEF IpcTypeOK, Sampled, StateSample, EventSample

LEMMA StartInv == IpcInv /\ LoggerStart => IpcInv'
<1> SUFFICES ASSUME IpcInv, LoggerStart PROVE IpcInv' OBVIOUS
<1>1. /\ ~up /\ up' = TRUE /\ listening' \in BOOLEAN /\ run' = run + 1 /\ now' = 0
      /\ latestState' = Nothing
      /\ UNCHANGED <<pendingLatest, pendingEvents, link, channel, view, got, owed, leftover>>
  BY DEF LoggerStart, pendingVars, clientVars, historyVars
<1>2. IpcTypeOK /\ run \in Nat BY DEF IpcInv, IpcTypeOK
<1>3. Nothing \in Map /\ DOMAIN Nothing = {} BY NothingFacts
<1>4. IpcTypeOK' BY <1>1, <1>2, <1>3 DEF IpcTypeOK
<1>5. Recent(latestState, run, now)' BY <1>1, <1>3 DEF Recent
<1>6. PendingIsLatest'
  <2>1. pendingLatest = Nothing BY <1>1 DEF IpcInv, PendingIsLatest
  <2> QED BY <1>1, <1>3, <2>1 DEF PendingIsLatest
<1>7. ASSUME NEW c \in Clients PROVE Connection(c)'
  <2>1. Connection(c) BY DEF IpcInv
  <2>2. view[c] \in Map /\ channel[c] \in Seq(Frame) BY <1>2, ConnectionTypes
  <2>3. ASSUME Chronological(view[c], channel[c], run, latestState)
        PROVE  Chronological(view[c], channel[c], run', latestState')
    <3>1. \A s : \A x \in StateSample :
            Known(s, x, run, latestState) => Known(s, x, run', latestState')
      BY <1>1, <1>2, KnownAfterRestart
    <3> QED BY <2>2, <2>3, <3>1, ChronologicalKnown
  <2>4. Informed(view[c], channel[c], pendingLatest, latestState')
    BY <1>1, <1>3 DEF Informed
  <2> QED BY <1>1, <2>1, <2>3, <2>4 DEF Connection
<1> QED BY <1>4, <1>5, <1>6, <1>7 DEF IpcInv

LEMMA StopInv == IpcInv /\ LoggerStop => IpcInv'
<1> SUFFICES ASSUME IpcInv, LoggerStop PROVE IpcInv' OBVIOUS
<1>1. /\ up' = FALSE /\ listening' = FALSE
      /\ pendingLatest' = Nothing /\ pendingEvents' = <<>>
      /\ UNCHANGED <<run, now, latestState, channel, view, got, owed, leftover>>
  BY DEF LoggerStop, historyVars
<1>2. IpcTypeOK /\ \A c \in Clients : Connection(c) BY DEF IpcInv
<1>3. Nothing \in Map /\ DOMAIN Nothing = {} BY NothingFacts
<1>4. ASSUME NEW c \in Clients
      PROVE  \/ link[c] \in {"pending", "accepted"} /\ link'[c] = "closing"
             \/ link[c] = "gone" /\ link'[c] = "off"
             \/ link[c] \in {"off", "waiting", "closing"} /\ link'[c] = link[c]
  <2>1. link[c] \in Links BY <1>2, ConnectionTypes
  <2> QED BY <2>1 DEF LoggerStop, Links
<1>5. link' \in [Clients -> Links]
  <2>1. DOMAIN link' = Clients /\ link' = [c \in Clients |-> link'[c]] BY DEF LoggerStop
  <2>2. \A c \in Clients : link'[c] \in Links BY <1>4 DEF Links
  <2> QED BY <2>1, <2>2
<1>6. IpcTypeOK'
  <2> HIDE DEF EventSample
  <2>1. <<>> \in Seq(EventSample) OBVIOUS
  <2> QED BY <1>1, <1>2, <1>3, <1>5, <2>1 DEF IpcTypeOK
<1>7. Recent(latestState, run, now)' BY <1>1 DEF IpcInv
<1>8. PendingIsLatest' BY <1>1, <1>3 DEF PendingIsLatest
<1>9. ASSUME NEW c \in Clients PROVE Connection(c)'
  <2>1. /\ channel[c] \in Seq(Frame) /\ got[c] \in Seq(EventSample)
        /\ pendingEvents \in Seq(EventSample)
    BY <1>2, ConnectionTypes DEF IpcTypeOK
  <2>2. Accounted(link[c], got[c], channel[c], pendingEvents, owed[c])
    BY <1>2 DEF Connection
  <2>3. Accounted(link'[c], got[c], channel[c], <<>>, owed[c])
    <3>1. CASE link[c] \in {"pending", "accepted"} /\ link'[c] = "closing"
      BY <2>1, <2>2, <3>1, AccountedClose
    <3>2. CASE link'[c] \in {"off", "waiting"} BY <3>2 DEF Accounted
    <3>3. CASE link[c] = "closing" /\ link'[c] = "closing" BY <2>2, <3>3 DEF Accounted
    <3> QED BY <1>4, <3>1, <3>2, <3>3
  <2>4. link'[c] # "accepted" BY <1>4
  <2> QED BY <1>1, <1>2, <2>3, <2>4 DEF Connection
<1> QED BY <1>6, <1>7, <1>8, <1>9 DEF IpcInv

LEMMA PublishStateInv ==
  ASSUME NEW s \in Signals, NEW value \in Values, IpcInv, PublishState(s, value)
  PROVE  IpcInv'
<1> DEFINE x == Sampled(value)
<1>1. /\ up /\ now' = now + 1 /\ latestState' = Put(latestState, s, x)
      /\ pendingLatest' = IF Served = {} THEN pendingLatest ELSE Put(pendingLatest, s, x)
      /\ UNCHANGED <<up, listening, run, pendingEvents, link, channel, view, got, owed, leftover>>
  BY DEF PublishState, clientVars, historyVars
<1>2. IpcTypeOK /\ Recent(latestState, run, now) /\ PendingIsLatest
  BY DEF IpcInv
<1>3. /\ run \in Nat /\ now \in Nat /\ latestState \in Map /\ pendingLatest \in Map
  BY <1>2 DEF IpcTypeOK
<1>4. x \in StateSample /\ x.run = run /\ x.time = now + 1 BY <1>2, SampledType
<1> HIDE DEF x
<1>5. /\ Recent(latestState', run, now + 1)
      /\ \A t : \A y \in StateSample :
           Known(t, y, run, latestState) => Known(t, y, run, latestState')
  BY <1>1, <1>2, <1>3, <1>4, KnownAfterPublish
<1>6. /\ latestState' \in Map /\ DOMAIN latestState' = DOMAIN latestState \cup {s}
      /\ \A t \in DOMAIN latestState \cup {s} :
           latestState'[t] = IF t = s THEN x ELSE latestState[t]
  <2>1. Put(latestState, s, x) \in Map BY <1>3, <1>4, PutFacts
  <2> QED BY <1>1, <2>1 DEF Put
<1>7. pendingLatest' \in Map
  <2>1. Put(pendingLatest, s, x) \in Map BY <1>3, <1>4, PutFacts
  <2> QED BY <1>1, <1>3, <2>1
<1>8. IpcTypeOK' BY <1>1, <1>2, <1>3, <1>6, <1>7 DEF IpcTypeOK
<1>9. Recent(latestState, run, now)' BY <1>1, <1>5
<1>10. Served' = Served BY <1>1 DEF Served
<1>11. PendingIsLatest'
  <2>1. CASE leftover BY <1>1, <2>1 DEF PendingIsLatest
  <2>2. CASE ~leftover /\ Served = {}
    <3>1. pendingLatest = Nothing /\ pendingLatest' = Nothing
      BY <1>1, <1>2, <2>2 DEF PendingIsLatest
    <3>2. DOMAIN Nothing = {} BY NothingFacts
    <3> QED BY <1>1, <3>1, <3>2 DEF PendingIsLatest
  <2>3. CASE ~leftover /\ Served # {}
    <3>1. /\ DOMAIN pendingLatest' = DOMAIN pendingLatest \cup {s}
          /\ \A t \in DOMAIN pendingLatest \cup {s} :
               pendingLatest'[t] = IF t = s THEN x ELSE pendingLatest[t]
      BY <1>1, <2>3 DEF Put
    <3>2. \A t \in DOMAIN pendingLatest' :
            t \in DOMAIN latestState' /\ latestState'[t] = pendingLatest'[t]
      BY <1>2, <1>6, <2>3, <3>1 DEF PendingIsLatest
    <3> QED BY <1>1, <1>10, <2>3, <3>2 DEF PendingIsLatest
  <2> QED BY <1>2, <2>1, <2>2, <2>3 DEF IpcTypeOK
<1>12. ASSUME NEW c \in Clients PROVE Connection(c)'
  <2>1. Connection(c) BY DEF IpcInv
  <2>2. view[c] \in Map /\ channel[c] \in Seq(Frame) BY <1>2, ConnectionTypes
  <2>3. ASSUME Chronological(view[c], channel[c], run, latestState)
        PROVE  Chronological(view[c], channel[c], run, latestState')
    BY <1>5, <2>2, <2>3, ChronologicalKnown
  <2>4. ASSUME link[c] = "accepted",
               Informed(view[c], channel[c], pendingLatest, latestState)
        PROVE  Informed(view[c], channel[c], pendingLatest', latestState')
    <3>1. Served # {} BY <2>4 DEF Served
    <3>2. pendingLatest' = Put(pendingLatest, s, x) BY <1>1, <3>1
    <3> QED BY <1>1, <1>3, <1>4, <2>4, <3>2, InformedPublish
  <2> QED BY <1>1, <2>1, <2>3, <2>4 DEF Connection
<1> QED BY <1>8, <1>9, <1>11, <1>12 DEF IpcInv

LEMMA PublishEventInv ==
  ASSUME NEW event \in Events, IpcInv, PublishEvent(event)
  PROVE  IpcInv'
<1> DEFINE x == Sampled(event)
<1>1. /\ now' = now + 1
      /\ pendingEvents' = IF Served = {} THEN pendingEvents ELSE Append(pendingEvents, x)
      /\ owed' = [c \in Clients |-> IF c \in Served THEN Append(owed[c], x) ELSE owed[c]]
      /\ UNCHANGED <<up, listening, run, latestState, pendingLatest, link, channel, view,
                     got, leftover>>
  BY DEF PublishEvent, clientVars
<1>2. IpcTypeOK BY DEF IpcInv
<1>3. x \in EventSample BY <1>2, SampledType
<1> HIDE DEF x, EventSample
<1>4. pendingEvents \in Seq(EventSample) /\ now \in Nat BY <1>2 DEF IpcTypeOK
<1>5. pendingEvents' \in Seq(EventSample) BY <1>1, <1>3, <1>4
<1>6. owed' \in [Clients -> Seq(EventSample)]
  <2>1. \A c \in Clients : owed[c] \in Seq(EventSample) BY <1>2 DEF IpcTypeOK
  <2>2. \A c \in Clients : Append(owed[c], x) \in Seq(EventSample) BY <1>3, <2>1
  <2> QED BY <1>1, <2>1, <2>2
<1>7. IpcTypeOK' BY <1>1, <1>2, <1>4, <1>5, <1>6 DEF IpcTypeOK
<1>8. Recent(latestState, run, now)'
  <2>1. \A s \in DOMAIN latestState : latestState[s].time \in Nat
    <3>1. \A s \in DOMAIN latestState : latestState[s] \in StateSample
      BY <1>2, MapFacts DEF IpcTypeOK
    <3> QED BY <3>1 DEF StateSample
  <2> QED BY <1>1, <1>4, <2>1 DEF IpcInv, Recent
<1>9. PendingIsLatest'
  <2>1. Served' = Served BY <1>1 DEF Served
  <2> QED BY <1>1, <2>1 DEF IpcInv, PendingIsLatest
<1>10. ASSUME NEW c \in Clients PROVE Connection(c)'
  <2>1. Connection(c) BY DEF IpcInv
  <2>2. Accounted(link[c], got[c], channel[c], pendingEvents, owed[c])
    BY <2>1 DEF Connection
  <2>3. /\ got[c] \in Seq(EventSample) /\ channel[c] \in Seq(Frame)
        /\ owed[c] \in Seq(EventSample)
    BY <1>2, ConnectionTypes
  <2>4. Accounted(link[c], got[c], channel[c], pendingEvents', owed'[c])
    <3>1. CASE link[c] = "accepted"
      <4>1. c \in Served BY <3>1 DEF Served
      <4>2. pendingEvents' = Append(pendingEvents, x) /\ owed'[c] = Append(owed[c], x)
        BY <1>1, <4>1
      <4> QED BY <1>3, <1>4, <2>2, <2>3, <3>1, <4>2, AccountedPublish
    <3>2. CASE link[c] \in {"closing", "pending"}
      <4>1. owed'[c] = owed[c] BY <1>1, <3>2 DEF Served
      <4> QED BY <2>2, <3>2, <4>1 DEF Accounted
    <3>3. CASE link[c] \notin {"accepted", "closing", "pending"} BY <3>3 DEF Accounted
    <3> QED BY <3>1, <3>2, <3>3
  <2> QED BY <1>1, <2>1, <2>4 DEF Connection
<1> QED BY <1>7, <1>8, <1>9, <1>10 DEF IpcInv

LEMMA FlushInv == IpcInv /\ FlushPendingSamples => IpcInv'
<1> SUFFICES ASSUME IpcInv, FlushPendingSamples PROVE IpcInv' OBVIOUS
<1>1. /\ pendingLatest' = Nothing /\ pendingEvents' = <<>>
      /\ link' = [c \in Clients |-> IF c \in TooSlow THEN "closing" ELSE link[c]]
      /\ channel' = [c \in Clients |->
                       IF link[c] = "accepted" /\ c \notin TooSlow
                       THEN Append(channel[c], Batch) ELSE channel[c]]
      /\ UNCHANGED <<up, listening, run, now, latestState, view, got, owed, leftover>>
  BY DEF FlushPendingSamples, loggerVars, historyVars
<1>2. IpcTypeOK /\ Recent(latestState, run, now) /\ PendingIsLatest BY DEF IpcInv
<1>3. /\ run \in Nat /\ now \in Nat /\ latestState \in Map /\ pendingLatest \in Map
      /\ pendingEvents \in Seq(EventSample)
  BY <1>2 DEF IpcTypeOK
<1>4. Batch \in Frame /\ Batch.state = pendingLatest /\ Batch.events = pendingEvents
  BY <1>3, FrameIs DEF Batch
<1>5. Nothing \in Map /\ DOMAIN Nothing = {} BY NothingFacts
<1> HIDE DEF EventSample
<1>6. IpcTypeOK'
  <2>1. <<>> \in Seq(EventSample) OBVIOUS
  <2>2. link' \in [Clients -> Links] BY <1>1, <1>2 DEF IpcTypeOK, Links
  <2>3. channel' \in [Clients -> Seq(Frame)]
    <3>1. \A c \in Clients : channel[c] \in Seq(Frame) BY <1>2 DEF IpcTypeOK
    <3>2. \A c \in Clients : Append(channel[c], Batch) \in Seq(Frame)
      BY <1>4, <3>1, AppendIndices
    <3> QED BY <1>1, <3>1, <3>2
  <2> QED BY <1>1, <1>2, <1>5, <2>1, <2>2, <2>3 DEF IpcTypeOK
<1>7. Recent(latestState, run, now)' BY <1>1, <1>2
<1>8. PendingIsLatest' BY <1>1, <1>5 DEF PendingIsLatest
<1>9. ASSUME NEW c \in Clients PROVE Connection(c)'
  <2>1. Connection(c) BY DEF IpcInv
  <2>2. /\ got[c] \in Seq(EventSample) /\ channel[c] \in Seq(Frame) /\ view[c] \in Map
    BY <1>2, ConnectionTypes
  <2>3. Accounted(link[c], got[c], channel[c], pendingEvents, owed[c])
    BY <2>1 DEF Connection
  <2>4. CASE link[c] = "accepted" /\ c \notin TooSlow
    <3>1. link'[c] = "accepted" /\ channel'[c] = Append(channel[c], Batch) BY <1>1, <2>4
    <3>2. Accounted("accepted", got[c], channel'[c], <<>>, owed[c])
      BY <1>3, <1>4, <2>2, <2>3, <2>4, <3>1, AccountedFlush
    <3>3. ASSUME ~leftover, Chronological(view[c], channel[c], run, latestState)
          PROVE  Chronological(view[c], channel'[c], run, latestState)
      <4>1. \A s \in DOMAIN Batch.state : s \in DOMAIN latestState /\ latestState[s] = Batch.state[s]
        BY <1>2, <1>4, <3>3 DEF PendingIsLatest
      <4> QED BY <1>2, <1>3, <1>4, <2>2, <3>1, <3>3, <4>1, ChronologicalAppend
    <3>4. ASSUME Informed(view[c], channel[c], pendingLatest, latestState)
          PROVE  Informed(view[c], channel'[c], Nothing, latestState)
      BY <1>3, <1>4, <2>2, <3>1, <3>4, InformedFlush
    <3> QED BY <1>1, <2>1, <2>4, <3>1, <3>2, <3>3, <3>4 DEF Connection
  <2>5. CASE c \in TooSlow
    <3>1. link[c] = "accepted" /\ link'[c] = "closing" /\ channel'[c] = channel[c]
      BY <1>1, <2>5 DEF TooSlow
    <3>2. Accounted("closing", got[c], channel[c], <<>>, owed[c])
      BY <1>3, <2>2, <2>3, <3>1, AccountedClose
    <3> QED BY <1>1, <2>1, <3>1, <3>2 DEF Connection
  <2>6. CASE link[c] # "accepted" /\ c \notin TooSlow
    <3>1. link'[c] = link[c] /\ channel'[c] = channel[c] BY <1>1, <2>6
    <3>2. Accounted(link[c], got[c], channel[c], <<>>, owed[c])
      BY <2>3, <2>6 DEF Accounted
    <3> QED BY <1>1, <2>1, <2>6, <3>1, <3>2 DEF Connection
  <2> QED BY <2>4, <2>5, <2>6
<1> QED BY <1>6, <1>7, <1>8, <1>9 DEF IpcInv

LEMMA AcceptInv ==
  ASSUME NEW c \in Clients, IpcInv, Accept(c)
  PROVE  IpcInv'
<1>1. /\ link[c] = "pending" /\ link' = [link EXCEPT ![c] = "accepted"]
      /\ channel' = [channel EXCEPT ![c] =
           IF latestState = Nothing THEN <<>>
           ELSE <<[events |-> <<>>, state |-> latestState]>>]
      /\ owed' = [owed EXCEPT ![c] = pendingEvents]
      /\ UNCHANGED <<loggerVars, latestState, pendingVars, view, got, leftover>>
  BY DEF Accept
<1>2. IpcTypeOK /\ Recent(latestState, run, now) /\ PendingIsLatest /\ Connection(c)
  BY DEF IpcInv
<1>3. /\ run \in Nat /\ now \in Nat /\ latestState \in Map /\ pendingLatest \in Map
      /\ pendingEvents \in Seq(EventSample)
  BY <1>2 DEF IpcTypeOK
<1> HIDE DEF EventSample
<1> DEFINE f == [events |-> <<>>, state |-> latestState]
<1>4. f \in Frame /\ f.events = <<>> /\ f.state = latestState
  <2>1. <<>> \in Seq(EventSample) OBVIOUS
  <2> QED BY <1>3, <2>1, FrameIs
<1> HIDE DEF f
<1> DEFINE ch == IF latestState = Nothing THEN <<>> ELSE <<f>>
<1>5. link'[c] = "accepted" /\ channel'[c] = ch /\ owed'[c] = pendingEvents
  BY <1>1, <1>2 DEF IpcTypeOK, f
<1>6. <<>> \in Seq(Frame) /\ Append(<<>>, f) = <<f>> /\ <<f>> \in Seq(Frame) BY <1>4
<1>7. ch \in Seq(Frame) BY <1>6
<1>8. IpcTypeOK'
  <2>1. link' \in [Clients -> Links] BY <1>1, <1>2 DEF IpcTypeOK, Links
  <2>2. channel' \in [Clients -> Seq(Frame)] BY <1>1, <1>2, <1>7 DEF IpcTypeOK, f
  <2>3. owed' \in [Clients -> Seq(EventSample)] BY <1>1, <1>2, <1>3 DEF IpcTypeOK
  <2> QED BY <1>1, <1>2, <2>1, <2>2, <2>3 DEF IpcTypeOK, loggerVars, pendingVars
<1>9. Recent(latestState, run, now)' /\ PendingIsLatest'
  <2>1. Served # {} => Served' # {}
    <3>1. c \in Served' BY <1>5 DEF Served
    <3> QED BY <3>1
  <2> QED BY <1>1, <2>1, DashStepLeavesPending
<1>10. Connection(c)'
  <2>1. Accounted(link[c], got[c], channel[c], pendingEvents, owed[c])
    BY <1>2 DEF Connection
  <2>2. got[c] = <<>> BY <1>1, <2>1 DEF Accounted
  <2>3. Flying(<<f>>) = <<>>
    <3>1. Flying(<<f>>) = Flying(<<>>) \o <<>> BY <1>4, <1>6, FlyingAppend
    <3>2. <<>> \o <<>> = <<>>
      <4>1. <<>> \in Seq(EventSample) OBVIOUS
      <4> QED BY <4>1, ConcatEmptySeq
    <3> QED BY <3>1, <3>2, FlyingNone
  <2>4. Flying(ch) = <<>> BY <2>3, FlyingNone
  <2>5. Accounted("accepted", <<>>, ch, pendingEvents, pendingEvents)
    <3> HIDE DEF ch
    <3> QED BY <1>3, <1>7, <2>4, AccountedAccept
  <2>6. view[c] \in Map /\ channel[c] \in Seq(Frame) BY <1>2, ConnectionTypes
  <2>7. ASSUME Chronological(view[c], channel[c], run, latestState)
        PROVE  Chronological(view[c], ch, run, latestState)
    <3>1. Chronological(view[c], <<>>, run, latestState) BY <2>7, ChronologicalEmpty
    <3>2. Chronological(view[c], <<f>>, run, latestState)
      <4>1. \A s \in DOMAIN f.state : s \in DOMAIN latestState /\ latestState[s] = f.state[s]
        BY <1>4
      <4> QED BY <1>2, <1>3, <1>4, <1>6, <2>6, <3>1, <4>1, ChronologicalAppend
    <3> QED BY <3>1, <3>2
  <2>8. ASSUME ~leftover PROVE Informed(view[c], ch, pendingLatest, latestState)
    <3>1. CASE latestState = Nothing
      <4>1. DOMAIN latestState = {} BY <3>1, NothingFacts
      <4> QED BY <4>1 DEF Informed
    <3>2. CASE latestState # Nothing
      <4>1. \A s \in DOMAIN pendingLatest :
              s \in DOMAIN latestState /\ latestState[s] = pendingLatest[s]
        BY <1>2, <2>8 DEF PendingIsLatest
      <4>2. Informed(view[c], <<f>>, pendingLatest, latestState)
        BY <1>3, <1>4, <4>1, InformedSnapshot
      <4> QED BY <3>2, <4>2
    <3> QED BY <3>1, <3>2
  <2> HIDE DEF ch
  <2> QED BY <1>1, <1>2, <1>5, <2>2, <2>5, <2>7, <2>8 DEF Connection, loggerVars, pendingVars
<1>11. ASSUME NEW d \in Clients, d # c PROVE Connection(d)'
  <2>1. link'[d] = link[d] /\ channel'[d] = channel[d] /\ owed'[d] = owed[d]
    BY <1>1, <1>2, <1>11 DEF IpcTypeOK
  <2> QED BY <1>1, <2>1, Bystander DEF loggerVars, pendingVars
<1>12. \A d \in Clients : Connection(d)' BY <1>10, <1>11
<1> QED BY <1>8, <1>9, <1>12 DEF IpcInv

LEMMA NoticeGoneInv ==
  ASSUME NEW c \in Clients, IpcInv, NoticeGone(c)
  PROVE  IpcInv'
<1>1. /\ link[c] = "gone" /\ link' = [link EXCEPT ![c] = "off"]
      /\ leftover' = (leftover \/ (Served = {c} /\ pendingLatest # Nothing))
      /\ UNCHANGED <<loggerVars, latestState, pendingVars, channel, view, got, owed>>
  BY DEF NoticeGone
<1>2. IpcTypeOK /\ Recent(latestState, run, now) /\ PendingIsLatest /\ Connection(c)
  BY DEF IpcInv
<1>3. link'[c] = "off" BY <1>1, <1>2 DEF IpcTypeOK
<1>4. IpcTypeOK'
  <2>1. link' \in [Clients -> Links] BY <1>1, <1>2 DEF IpcTypeOK, Links
  <2>2. leftover' \in BOOLEAN BY <1>1
  <2> QED BY <1>1, <1>2, <2>1, <2>2 DEF IpcTypeOK, loggerVars, pendingVars
<1>5. Recent(latestState, run, now)' BY <1>1, <1>2 DEF loggerVars
<1>6. PendingIsLatest'
  <2>1. CASE leftover' BY <1>1, <1>2, <2>1 DEF PendingIsLatest, loggerVars, pendingVars
  <2>2. CASE ~leftover'
    <3>1. ~leftover /\ (Served # {c} \/ pendingLatest = Nothing) BY <1>1, <2>2
    <3>2. pendingLatest = Nothing \/ Served' # {}
      <4>1. SUFFICES ASSUME pendingLatest # Nothing PROVE Served' # {} OBVIOUS
      <4>2. Served # {} /\ Served # {c} BY <1>2, <3>1, <4>1 DEF PendingIsLatest
      <4>3. PICK d \in Served : d # c BY <4>2
      <4>4. d \in Served' BY <1>1, <1>2, <4>3 DEF Served, IpcTypeOK
      <4> QED BY <4>4
    <3> QED BY <1>1, <1>2, <3>1, <3>2 DEF PendingIsLatest, loggerVars, pendingVars
  <2> QED BY <2>1, <2>2
<1>7. Connection(c)'
  <2>1. Accounted(link'[c], got[c], channel[c], pendingEvents, owed[c])
    BY <1>3 DEF Accounted
  <2> QED BY <1>1, <1>2, <1>3, <2>1 DEF Connection, loggerVars, pendingVars
<1>8. ASSUME NEW d \in Clients, d # c PROVE Connection(d)'
  <2>1. link'[d] = link[d] BY <1>1, <1>2, <1>8 DEF IpcTypeOK
  <2> QED BY <1>1, <2>1, Bystander DEF loggerVars, pendingVars
<1>9. \A d \in Clients : Connection(d)' BY <1>7, <1>8
<1> QED BY <1>4, <1>5, <1>6, <1>9 DEF IpcInv

-----------------------------------------------------------------------------
(* A dash's steps                                                          *)

(* Starting, connecting, noticing the end and stopping have this in        *)
(* common: what is on its way is dropped, or nothing changes on the way.   *)
LEMMA DashLinkInv ==
  ASSUME NEW c \in Clients, IpcInv,
         UNCHANGED <<loggerVars, latestState, pendingVars, leftover>>,
         NEW state \in Links, link' = [link EXCEPT ![c] = state], state # "accepted",
         state = "gone" \/ link[c] \notin {"accepted", "gone"},
         channel' = channel \/ channel' = [channel EXCEPT ![c] = <<>>],
         view' = view \/ view' = [view EXCEPT ![c] = Nothing],
         \/ got' = got /\ owed' = owed
         \/ got' = [got EXCEPT ![c] = <<>>] /\ owed' = [owed EXCEPT ![c] = <<>>],
         Accounted(state, got'[c], channel'[c], pendingEvents, owed'[c])
  PROVE  IpcInv'
<1> HIDE DEF EventSample, Nothing
<1>1. IpcTypeOK /\ Connection(c) BY DEF IpcInv
<1>2. IpcTypeOK'
  <2>1. <<>> \in Seq(EventSample) /\ <<>> \in Seq(Frame) /\ Nothing \in Map
    BY NothingFacts
  <2>2. link' \in [Clients -> Links] BY <1>1 DEF IpcTypeOK
  <2>3. channel' \in [Clients -> Seq(Frame)] BY <1>1, <2>1 DEF IpcTypeOK
  <2>4. view' \in [Clients -> Map] BY <1>1, <2>1 DEF IpcTypeOK
  <2>5. got' \in [Clients -> Seq(EventSample)] BY <1>1, <2>1 DEF IpcTypeOK
  <2>6. owed' \in [Clients -> Seq(EventSample)] BY <1>1, <2>1 DEF IpcTypeOK
  <2> QED BY <1>1, <2>2, <2>3, <2>4, <2>5, <2>6 DEF IpcTypeOK, loggerVars, pendingVars
<1>3. Recent(latestState, run, now)' /\ PendingIsLatest'
  <2>1. Served # {} => Served' # {}
    <3> SUFFICES ASSUME NEW d \in Served PROVE d \in Served' OBVIOUS
    <3>1. link' \in [Clients -> Links] /\ link'[c] = state BY <1>1, <1>2 DEF IpcTypeOK
    <3>2. d # c => link'[d] = link[d] BY <1>1 DEF IpcTypeOK, Served
    <3> QED BY <3>1, <3>2 DEF Served
  <2> QED BY <2>1, DashStepLeavesPending
<1>4. Connection(c)'
  <2>1. link'[c] = state BY <1>1 DEF IpcTypeOK
  <2>2. channel'[c] = channel[c] \/ channel'[c] = <<>> BY <1>1 DEF IpcTypeOK
  <2>3. view'[c] = view[c] \/ view'[c] = Nothing BY <1>1 DEF IpcTypeOK
  <2>4. view[c] \in Map /\ channel[c] \in Seq(Frame) BY <1>1, ConnectionTypes
  <2>5. ASSUME Chronological(view[c], channel[c], run, latestState)
        PROVE  Chronological(view'[c], channel'[c], run, latestState)
    <3>1. Chronological(view[c], <<>>, run, latestState) BY <2>5, ChronologicalEmpty
    <3>2. Chronological(view'[c], channel[c], run, latestState)
      <4>1. DOMAIN Nothing = {} BY NothingFacts
      <4>2. CASE view'[c] = Nothing BY <2>5, <4>1, <4>2 DEF Chronological
      <4> QED BY <2>3, <2>5, <4>2
    <3>3. Chronological(view'[c], <<>>, run, latestState) BY <3>2, ChronologicalEmpty
    <3> QED BY <2>2, <3>2, <3>3
  <2> QED BY <1>1, <2>1, <2>5 DEF Connection, loggerVars, pendingVars
<1>5. ASSUME NEW d \in Clients, d # c PROVE Connection(d)'
  <2>1. /\ link'[d] = link[d] /\ channel'[d] = channel[d] /\ view'[d] = view[d]
        /\ got'[d] = got[d] /\ owed'[d] = owed[d]
    BY <1>1, <1>5 DEF IpcTypeOK
  <2> QED BY <2>1, Bystander DEF loggerVars, pendingVars
<1>6. \A d \in Clients : Connection(d)' BY <1>4, <1>5
<1> QED BY <1>2, <1>3, <1>6 DEF IpcInv

LEMMA ReadInv ==
  ASSUME NEW c \in Clients, IpcInv, Read(c)
  PROVE  IpcInv'
<1> HIDE DEF EventSample
<1>1. /\ link[c] \in {"accepted", "closing"} /\ channel[c] # <<>>
      /\ view' = [view EXCEPT ![c] = Overlay(@, Head(channel[c]).state)]
      /\ got' = [got EXCEPT ![c] = @ \o Head(channel[c]).events]
      /\ channel' = [channel EXCEPT ![c] = Tail(@)]
      /\ UNCHANGED <<loggerVars, latestState, pendingVars, link, owed, leftover>>
  BY DEF Read
<1>2. IpcTypeOK /\ Connection(c) BY DEF IpcInv
<1>3. /\ channel[c] \in Seq(Frame) /\ view[c] \in Map /\ got[c] \in Seq(EventSample)
  BY <1>2, ConnectionTypes
<1> DEFINE f == Head(channel[c])
<1>4. f \in Frame /\ Tail(channel[c]) \in Seq(Frame) BY <1>1, <1>3, TailIndices
<1>5. f.events \in Seq(EventSample) /\ f.state \in Map BY <1>4, FrameFacts
<1>6. /\ view'[c] = Overlay(view[c], f.state) /\ got'[c] = got[c] \o f.events
      /\ channel'[c] = Tail(channel[c])
  BY <1>1, <1>2 DEF IpcTypeOK
<1>7. Overlay(view[c], f.state) \in Map BY <1>3, <1>5, OverlayFacts
<1>8. got[c] \o f.events \in Seq(EventSample) BY <1>3, <1>5, ConcatProperties
<1> HIDE DEF f
<1>9. IpcTypeOK'
  <2>1. view' \in [Clients -> Map] BY <1>1, <1>2, <1>7 DEF IpcTypeOK, f
  <2>2. got' \in [Clients -> Seq(EventSample)] BY <1>1, <1>2, <1>8 DEF IpcTypeOK, f
  <2>3. channel' \in [Clients -> Seq(Frame)] BY <1>1, <1>2, <1>4 DEF IpcTypeOK
  <2> QED BY <1>1, <1>2, <2>1, <2>2, <2>3 DEF IpcTypeOK, loggerVars, pendingVars
<1>10. Recent(latestState, run, now)' /\ PendingIsLatest'
  <2>1. Served' = Served BY <1>1 DEF Served
  <2> QED BY <1>1, <2>1, DashStepLeavesPending
<1>11. Connection(c)'
  <2>1. Accounted(link[c], got'[c], channel'[c], pendingEvents, owed[c])
    <3>1. Accounted(link[c], got[c], channel[c], pendingEvents, owed[c])
      BY <1>2 DEF Connection
    <3>2. link[c] # "pending" BY <1>1
    <3>3. Accounted(link[c], got[c] \o Head(channel[c]).events, Tail(channel[c]),
                    pendingEvents, owed[c])
      BY <1>1, <1>3, <3>1, <3>2, AccountedRead
    <3> QED BY <1>6, <3>3 DEF f
  <2>2. ASSUME Chronological(view[c], channel[c], run, latestState)
        PROVE  Chronological(view'[c], channel'[c], run, latestState)
    BY <1>1, <1>3, <1>6, <2>2, ChronologicalRead DEF f
  <2>3. ASSUME Informed(view[c], channel[c], pendingLatest, latestState)
        PROVE  Informed(view'[c], channel'[c], pendingLatest, latestState)
    BY <1>1, <1>3, <1>6, <2>3, InformedRead DEF f
  <2> QED BY <1>1, <1>2, <2>1, <2>2, <2>3 DEF Connection, loggerVars, pendingVars
<1>12. ASSUME NEW d \in Clients, d # c PROVE Connection(d)'
  <2>1. view'[d] = view[d] /\ got'[d] = got[d] /\ channel'[d] = channel[d]
    BY <1>1, <1>2, <1>12 DEF IpcTypeOK
  <2> QED BY <1>1, <2>1, Bystander DEF loggerVars, pendingVars
<1>13. \A d \in Clients : Connection(d)' BY <1>11, <1>12
<1> QED BY <1>9, <1>10, <1>13 DEF IpcInv

LEMMA DashStepInv ==
  ASSUME NEW c \in Clients, IpcInv, DashStep(c)
  PROVE  IpcInv'
<1>1. IpcTypeOK /\ Connection(c) BY DEF IpcInv
<1>2. Accounted(link[c], got[c], channel[c], pendingEvents, owed[c])
  BY <1>1 DEF Connection
<1>3. CASE DashStart(c)
  <2>1. "waiting" \in Links BY DEF Links
  <2>2. /\ link[c] = "off" /\ link' = [link EXCEPT ![c] = "waiting"]
        /\ channel' = channel /\ view' = view /\ got' = got /\ owed' = owed
        /\ UNCHANGED <<loggerVars, latestState, pendingVars, leftover>>
    BY <1>3 DEF DashStart, historyVars
  <2>3. Accounted("waiting", got'[c], channel'[c], pendingEvents, owed'[c])
    BY DEF Accounted
  <2> QED BY <2>1, <2>2, <2>3, DashLinkInv
<1>4. CASE Connect(c)
  <2>1. "pending" \in Links BY DEF Links
  <2>2. /\ link[c] = "waiting" /\ link' = [link EXCEPT ![c] = "pending"]
        /\ channel' = [channel EXCEPT ![c] = <<>>] /\ view' = view
        /\ got' = [got EXCEPT ![c] = <<>>] /\ owed' = [owed EXCEPT ![c] = <<>>]
        /\ UNCHANGED <<loggerVars, latestState, pendingVars, leftover>>
    BY <1>4 DEF Connect
  <2>3. channel'[c] = <<>> /\ got'[c] = <<>> /\ owed'[c] = <<>>
    BY <1>1, <2>2 DEF IpcTypeOK
  <2>4. Accounted("pending", got'[c], channel'[c], pendingEvents, owed'[c])
    BY <2>3 DEF Accounted
  <2> QED BY <2>1, <2>2, <2>4, DashLinkInv
<1>5. CASE Read(c) BY <1>5, ReadInv
<1>6. CASE NoticeClosed(c)
  <2>1. "waiting" \in Links BY DEF Links
  <2>2. /\ link[c] = "closing" /\ link' = [link EXCEPT ![c] = "waiting"]
        /\ channel' = [channel EXCEPT ![c] = <<>>] /\ view' = view /\ got' = got /\ owed' = owed
        /\ UNCHANGED <<loggerVars, latestState, pendingVars, leftover>>
    BY <1>6 DEF NoticeClosed, historyVars
  <2>3. Accounted("waiting", got'[c], channel'[c], pendingEvents, owed'[c])
    BY DEF Accounted
  <2> QED BY <2>1, <2>2, <2>3, DashLinkInv
<1>7. CASE DashStop(c)
  <2> DEFINE state == IF link[c] = "accepted" THEN "gone" ELSE "off"
  <2>1. /\ state \in Links /\ state # "accepted"
        /\ state = "gone" \/ link[c] \notin {"accepted", "gone"}
    BY <1>7 DEF DashStop, Links
  <2>2. /\ link' = [link EXCEPT ![c] = state]
        /\ channel' = [channel EXCEPT ![c] = <<>>]
        /\ view' = [view EXCEPT ![c] = Nothing]
        /\ got' = [got EXCEPT ![c] = <<>>] /\ owed' = [owed EXCEPT ![c] = <<>>]
        /\ UNCHANGED <<loggerVars, latestState, pendingVars, leftover>>
    BY <1>1, <1>7 DEF DashStop, IpcTypeOK
  <2>3. Accounted(state, got'[c], channel'[c], pendingEvents, owed'[c])
    BY DEF Accounted
  <2> HIDE DEF state
  <2> QED BY <2>1, <2>2, <2>3, DashLinkInv
<1> QED BY <1>3, <1>4, <1>5, <1>6, <1>7 DEF DashStep

LEMMA IpcInvStep == IpcInv /\ [IpcNext]_ipcVars => IpcInv'
<1> SUFFICES ASSUME IpcInv, [IpcNext]_ipcVars PROVE IpcInv' OBVIOUS
<1>1. CASE LoggerStart BY <1>1, StartInv
<1>2. CASE LoggerStop BY <1>2, StopInv
<1>3. CASE FlushPendingSamples BY <1>3, FlushInv
<1>4. CASE \E c \in Clients : Accept(c) \/ NoticeGone(c)
  BY <1>4, AcceptInv, NoticeGoneInv
<1>5. CASE \E s \in Signals, value \in Values : PublishState(s, value)
  BY <1>5, PublishStateInv
<1>6. CASE \E event \in Events : PublishEvent(event) BY <1>6, PublishEventInv
<1>7. CASE \E c \in Clients : DashStep(c) BY <1>7, DashStepInv
<1>8. CASE UNCHANGED ipcVars
  <2>1. UNCHANGED <<up, listening, run, now, latestState, pendingLatest, pendingEvents,
                    link, channel, view, got, owed, leftover>>
    BY <1>8 DEF ipcVars, loggerVars, pendingVars, clientVars, historyVars
  <2>2. IpcTypeOK' BY <2>1 DEF IpcInv, IpcTypeOK
  <2>3. Recent(latestState, run, now)' /\ PendingIsLatest'
    BY <2>1 DEF IpcInv, PendingIsLatest, Served
  <2>4. \A c \in Clients : Connection(c)' BY <2>1 DEF IpcInv, Connection
  <2> QED BY <2>2, <2>3, <2>4 DEF IpcInv
<1> QED BY <1>1, <1>2, <1>3, <1>4, <1>5, <1>6, <1>7, <1>8
        DEF IpcNext, ServerStep, PublishStep

-----------------------------------------------------------------------------
(* The theorems                                                            *)

(* The server's and the dashes' state has its types in every behaviour.    *)
THEOREM IpcTypes == IpcSpec => []IpcTypeOK
<1>1. IpcInv => IpcTypeOK BY DEF IpcInv
<1> QED BY <1>1, IpcInitially, IpcInvStep, PTL DEF IpcSpec

(* No event sample is lost, duplicated or reordered on a connection: the   *)
(* queue of the server, the frames in flight and what the dash has read    *)
(* always make up what was published for it.                               *)
THEOREM EventsReachTheDash == IpcSpec => []EventsInOrder
<1>1. IpcInv => EventsInOrder
  <2> SUFFICES ASSUME IpcInv, NEW c \in Clients
               PROVE  /\ link[c] = "accepted" => got[c] \o InFlight(c) \o pendingEvents = owed[c]
                      /\ link[c] = "closing" => IsPrefix(got[c] \o InFlight(c), owed[c])
    BY DEF EventsInOrder
  <2>1. InFlight(c) = Flying(channel[c]) BY DEF InFlight, Flying, EventsOf
  <2>2. Accounted(link[c], got[c], channel[c], pendingEvents, owed[c])
    BY DEF IpcInv, Connection
  <2> QED BY <2>1, <2>2 DEF Accounted
<1> QED BY <1>1, IpcInitially, IpcInvStep, PTL DEF IpcSpec

(* Coalescing loses no last value: a connected dash has, has on its way or *)
(* is about to be sent the latest value of every signal, unless the last   *)
(* dash has left values behind.                                            *)
THEOREM DashCatchesUp == IpcSpec => []ViewCatchesUp
<1>1. IpcInv => ViewCatchesUp
  <2> SUFFICES ASSUME IpcInv, ~leftover, NEW c \in Clients, link[c] = "accepted",
                      NEW s \in DOMAIN latestState
               PROVE  Upcoming(c, s, latestState[s])
    BY DEF ViewCatchesUp, CatchesUp
  <2>1. Due(view[c], channel[c], pendingLatest, s, latestState[s])
    BY DEF IpcInv, Connection, Informed
  <2>2. Carrying(c, s) = CarryingIn(channel[c], s)
    <3>1. DOMAIN channel[c] = 1 .. Len(channel[c])
      <4>1. channel[c] \in Seq(Frame) BY ConnectionTypes DEF IpcInv
      <4> QED BY <4>1, LenProperties
    <3> QED BY <3>1 DEF Carrying, CarryingIn
  <2> QED BY <2>1, <2>2 DEF Upcoming, Due
<1> QED BY <1>1, IpcInitially, IpcInvStep, PTL DEF IpcSpec

(* No step of anybody takes a dash back to an older value of a signal.     *)
THEOREM NoStepBack == IpcSpec => ViewNeverGoesBack
<1> DEFINE Onward == \A c \in Clients : \A s \in DOMAIN view[c] \cap DOMAIN view'[c] :
                       leftover \/ NotOlder(view'[c][s], view[c][s])
<1>1. IpcInv /\ [IpcNext]_ipcVars => [Onward]_ipcVars
  <2> SUFFICES ASSUME IpcInv, [IpcNext]_ipcVars, ipcVars' # ipcVars,
                      NEW c \in Clients, NEW s \in DOMAIN view[c] \cap DOMAIN view'[c],
                      ~leftover
               PROVE  NotOlder(view'[c][s], view[c][s])
    OBVIOUS
  <2>1. IpcTypeOK /\ Connection(c) BY DEF IpcInv
  <2>2. view[c] \in Map /\ channel[c] \in Seq(Frame) BY <2>1, ConnectionTypes
  <2>3. NotOlder(view[c][s], view[c][s])
    <3>1. view[c][s] \in StateSample BY <2>2, MapFacts
    <3> QED BY <3>1, NotOlderOrder
  <2>4. CASE view'[c] = view[c] BY <2>3, <2>4
  <2>5. CASE ServerStep \/ PublishStep
    <3>1. view' = view
      BY <2>5 DEF ServerStep, PublishStep, LoggerStart, LoggerStop, FlushPendingSamples,
                  Accept, NoticeGone, PublishState, PublishEvent, clientVars
    <3> QED BY <2>4, <3>1
  <2>6. ASSUME NEW d \in Clients, DashStep(d) PROVE NotOlder(view'[c][s], view[c][s])
    <3>1. CASE Read(d)
      <4>1. CASE d = c
        <5>1. view'[c] = Overlay(view[c], Head(channel[c]).state) /\ channel[c] # <<>>
          BY <2>1, <3>1, <4>1 DEF Read, IpcTypeOK
        <5>2. Chronological(view[c], channel[c], run, latestState)
          BY <2>1 DEF Connection
        <5> QED BY <2>2, <5>1, <5>2, ChronologicalRead
      <4>2. CASE d # c
        <5>1. view'[c] = view[c] BY <2>1, <3>1, <4>2 DEF Read, IpcTypeOK
        <5> QED BY <2>4, <5>1
      <4> QED BY <4>1, <4>2
    <3>2. CASE DashStop(d)
      <4>1. CASE d = c
        <5>1. view'[c] = Nothing BY <2>1, <3>2, <4>1 DEF DashStop, IpcTypeOK
        <5> QED BY <5>1, NothingFacts
      <4>2. CASE d # c
        <5>1. view'[c] = view[c] BY <2>1, <3>2, <4>2 DEF DashStop, IpcTypeOK
        <5> QED BY <2>4, <5>1
      <4> QED BY <4>1, <4>2
    <3>3. CASE DashStart(d) \/ Connect(d) \/ NoticeClosed(d)
      <4>1. view' = view BY <3>3 DEF DashStart, Connect, NoticeClosed
      <4> QED BY <2>4, <4>1
    <3> QED BY <2>6, <3>1, <3>2, <3>3 DEF DashStep
  <2> QED BY <2>5, <2>6 DEF IpcNext
<1> QED BY <1>1, IpcInitially, IpcInvStep, PTL DEF IpcSpec, ViewNeverGoesBack
=============================================================================

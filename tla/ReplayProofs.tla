---------------------------- MODULE ReplayProofs ----------------------------
(***************************************************************************)
(* Proofs about Replay, for any recordings, speeds, positions and bounds,  *)
(* and about ReplayControl, for any clients.                               *)
(*                                                                         *)
(* Pausing, going on, seeking and a new speed all set a base at the true   *)
(* position, start the clock and set the timer anew; so it is enough that  *)
(* the timer is right when it is set, by ScheduleBounds, and that nothing  *)
(* else touches what it was set for.                                       *)
(***************************************************************************)
EXTENDS ReplayControl, TLAPS, WellFoundedInduction, SequenceTheorems, FiniteSetTheorems

-----------------------------------------------------------------------------
(* Natural numbers *)

(* A set of natural numbers has a least element. *)
LEMMA LeastElement ==
  ASSUME NEW T \in SUBSET Nat, T # {}
  PROVE  \E m \in T : \A k \in T : m <= k
<1> DEFINE R == OpToRel(<, Nat)
<1>1. IsWellFoundedOn(R, Nat) BY NatLessThanWellFounded
<1>2. ASSUME NEW x \in T, NEW y \in T, y < x PROVE <<y, x>> \in R
  BY <1>2 DEF OpToRel
<1> HIDE DEF R
<1>3. PICK x \in T : \A y \in T : ~(<<y, x>> \in R) BY <1>1, WFMin
<1>4. \A y \in T : ~(y < x) BY <1>2, <1>3
<1> QED BY <1>4

(* Induction, for a set. *)
LEMMA SetInduction ==
  ASSUME NEW S \in SUBSET Nat, 0 \in S, \A n \in S : n + 1 \in S
  PROVE  S = Nat
<1> SUFFICES ASSUME Nat \ S # {} PROVE FALSE OBVIOUS
<1>1. PICK m \in Nat \ S : \A k \in Nat \ S : m <= k BY LeastElement
<1>2. m # 0 OBVIOUS
<1>3. m - 1 \in Nat /\ m - 1 \notin Nat \ S BY <1>1, <1>2
<1> QED BY <1>3

(* What division and rounding leave. *)
LEMMA Quotient ==
  ASSUME NEW n \in Nat, NEW d \in Nat \ {0}
  PROVE  n \div d \in Nat /\ (n \div d) * d + d > n
OBVIOUS

LEMMA Product == ASSUME NEW m \in Nat, NEW n \in Nat PROVE m * n \in Nat
OBVIOUS

LEMMA CeilMsBounds ==
  ASSUME NEW n \in Nat
  PROVE  CeilMs(n) \in Nat /\ CeilMs(n) >= n
<1>1. Ms \in Nat \ {0} BY ReplayAssumption
<1> DEFINE q == (n + Ms - 1) \div Ms
<1>2. n + Ms - 1 \in Nat BY <1>1
<1>3. q \in Nat /\ q * Ms + Ms > n + Ms - 1 BY <1>1, <1>2, Quotient
<1> HIDE DEF q
<1>4. q * Ms \in Nat BY <1>1, <1>3
<1>5. q * Ms >= n BY <1>1, <1>3, <1>4
<1> QED BY <1>4, <1>5 DEF CeilMs, q

-----------------------------------------------------------------------------
(* Recordings *)

LEMMA TimesType ==
  ASSUME NEW lines \in Seq(Line)
  PROVE  Times(lines) \in Seq(Nat)
<1> DEFINE G(f) == [n \in 0 .. Len(lines) |->
             IF n = 0 THEN <<>>
             ELSE IF lines[n].kind = "ignored" THEN f[n - 1]
             ELSE Append(f[n - 1], lines[n].time)]
           H(f, k) == [n \in 0 .. k |->
             IF n = 0 THEN <<>>
             ELSE IF lines[n].kind = "ignored" THEN f[n - 1]
             ELSE Append(f[n - 1], lines[n].time)]
           E == {k \in Nat : \E f : f = H(f, k)}
           f0 == CHOOSE f : f = G(f)
           T == {k \in Nat : k <= Len(lines) => f0[k] \in Seq(Nat)}
<1>1. Times(lines) = f0[Len(lines)] BY DEF Times
<1>2. E = Nat
  <2>1. 0 \in E
    <3> DEFINE f == [n \in 0 .. 0 |-> <<>>]
    <3>1. f = H(f, 0) OBVIOUS
    <3> QED BY <3>1
  <2>2. ASSUME NEW k \in E PROVE k + 1 \in E
    <3>1. PICK f : f = H(f, k) OBVIOUS
    <3> DEFINE e == IF lines[k + 1].kind = "ignored" THEN f[k]
                    ELSE Append(f[k], lines[k + 1].time)
               g == [n \in 0 .. k + 1 |-> IF n = k + 1 THEN e ELSE f[n]]
    <3>2. \A n \in 0 .. k : g[n] = f[n] OBVIOUS
    <3>3. ASSUME NEW n \in 0 .. k + 1
          PROVE  g[n] = IF n = 0 THEN <<>>
                        ELSE IF lines[n].kind = "ignored" THEN g[n - 1]
                        ELSE Append(g[n - 1], lines[n].time)
      <4>1. CASE n = k + 1
        <5>1. g[n] = e /\ g[n - 1] = f[k] /\ n # 0 BY <4>1
        <5> QED BY <4>1, <5>1
      <4>2. CASE n # k + 1
        <5>1. n \in 0 .. k BY <4>2
        <5>2. g[n] = f[n] BY <5>1
        <5>3. n # 0 => g[n - 1] = f[n - 1] BY <5>1
        <5>4. f[n] = IF n = 0 THEN <<>>
                     ELSE IF lines[n].kind = "ignored" THEN f[n - 1]
                     ELSE Append(f[n - 1], lines[n].time)
          BY <3>1, <5>1
        <5> HIDE DEF g
        <5> QED BY <5>2, <5>3, <5>4
      <4> QED BY <4>1, <4>2
    <3>4. g = H(g, k + 1) BY <3>3
    <3>5. \E h : h = H(h, k + 1)
      <4> WITNESS g
      <4> QED BY <3>4
    <3> HIDE DEF H
    <3> QED BY <3>5
  <2> HIDE DEF E
  <2> QED BY <2>1, <2>2, SetInduction DEF E
<1>3. Len(lines) \in Nat OBVIOUS
<1>4. \E f : f = G(f) BY <1>2, <1>3
<1>5. f0 = G(f0) BY <1>4
<1> HIDE DEF f0
<1>6. 0 \in T BY <1>5
<1>7. ASSUME NEW k \in T PROVE k + 1 \in T
  <2> SUFFICES ASSUME k + 1 <= Len(lines) PROVE f0[k + 1] \in Seq(Nat) OBVIOUS
  <2>1. f0[k] \in Seq(Nat) /\ k + 1 \in 1 .. Len(lines) BY <1>3
  <2>2. lines[k + 1] \in Line BY <2>1
  <2>3. lines[k + 1].time \in Nat BY <2>2 DEF Line
  <2>4. k + 1 \in 0 .. Len(lines) /\ k + 1 # 0 /\ (k + 1) - 1 = k BY <1>3
  <2>5. f0[k + 1] = IF lines[k + 1].kind = "ignored" THEN f0[k]
                    ELSE Append(f0[k], lines[k + 1].time)
    BY <1>5, <2>4
  <2> QED BY <2>1, <2>3, <2>5
<1>8. T = Nat BY <1>6, <1>7, SetInduction
<1> QED BY <1>1, <1>3, <1>8

(* In a sorted sequence nothing is before the first or after the last.     *)
LEMMA SortedEnds ==
  ASSUME NEW t \in Seq(Nat), t # <<>>, \A i \in 1 .. Len(t) - 1 : t[i] <= t[i + 1]
  PROVE  \A i \in 1 .. Len(t) : t[1] <= t[i] /\ t[i] <= t[Len(t)]
<1> DEFINE Up == {k \in Nat : k + 1 <= Len(t) => t[1] <= t[k + 1]}
           Down == {k \in Nat : k < Len(t) => t[Len(t) - k] <= t[Len(t)]}
<1>1. Len(t) \in Nat \ {0} /\ \A i \in 1 .. Len(t) : t[i] \in Nat OBVIOUS
<1>2. Up = Nat
  <2>1. 0 \in Up BY <1>1
  <2>2. ASSUME NEW k \in Up PROVE k + 1 \in Up
    <3> SUFFICES ASSUME (k + 1) + 1 <= Len(t) PROVE t[1] <= t[(k + 1) + 1] OBVIOUS
    <3>1. k + 1 \in 1 .. Len(t) - 1 /\ (k + 1) + 1 \in 1 .. Len(t) BY <1>1
    <3>2. t[1] <= t[k + 1] /\ t[k + 1] <= t[(k + 1) + 1] BY <3>1
    <3> QED BY <1>1, <3>1, <3>2
  <2> QED BY <2>1, <2>2, SetInduction
<1>3. Down = Nat
  <2>1. 0 \in Down BY <1>1
  <2>2. ASSUME NEW k \in Down PROVE k + 1 \in Down
    <3> SUFFICES ASSUME k + 1 < Len(t) PROVE t[Len(t) - (k + 1)] <= t[Len(t)] OBVIOUS
    <3> DEFINE j == Len(t) - (k + 1)
    <3>1. j \in 1 .. Len(t) - 1 /\ j + 1 = Len(t) - k /\ j + 1 \in 1 .. Len(t) BY <1>1
    <3>2. t[Len(t) - k] <= t[Len(t)] BY <1>1
    <3> HIDE DEF j
    <3>3. t[j] <= t[j + 1] BY <3>1
    <3>4. t[j] \in Nat /\ t[j + 1] \in Nat BY <1>1, <3>1
    <3> QED BY <1>1, <3>1, <3>2, <3>3, <3>4 DEF j
  <2> QED BY <2>1, <2>2, SetInduction
<1>4. ASSUME NEW i \in 1 .. Len(t) PROVE t[1] <= t[i] /\ t[i] <= t[Len(t)]
  <2> HIDE DEF Up, Down
  <2>1. i - 1 \in Nat /\ Len(t) - i \in Nat BY <1>1
  <2>2. i - 1 \in Up /\ Len(t) - i \in Down BY <2>1, <1>2, <1>3
  <2> USE DEF Up, Down
  <2>3. (i - 1) + 1 = i /\ Len(t) - (Len(t) - i) = i BY <1>1
  <2> QED BY <1>1, <2>2, <2>3
<1> QED BY <1>4

(* A recording starts at time 0 and goes on to its duration. *)
Recording(r) ==
  /\ r \in Seq(Nat)
  /\ r # <<>> => r[1] = 0 /\ \A i \in 1 .. Len(r) : r[i] <= r[Len(r)]

LEMMA LoadedRecording ==
  ASSUME NEW lines \in Seq(Line), Loadable(lines)
  PROVE  Recording(Load(lines)) /\ Load(lines) # <<>>
<1> DEFINE t == Times(lines)
           r == Load(lines)
<1>1. t \in Seq(Nat) BY TimesType
<1>2. t # <<>> /\ \A i \in 1 .. Len(t) - 1 : t[i] <= t[i + 1] BY DEF Loadable
<1>3. r = [i \in 1 .. Len(t) |-> t[i] - t[1]] BY <1>1, <1>2 DEF Load
<1> HIDE DEF t
<1>4. \A i \in 1 .. Len(t) : t[1] <= t[i] /\ t[i] <= t[Len(t)] BY <1>1, <1>2, SortedEnds
<1>5. Len(t) \in Nat \ {0} /\ \A i \in 1 .. Len(t) : t[i] \in Nat BY <1>1, <1>2
<1>6. \A i \in 1 .. Len(t) : t[i] - t[1] \in Nat BY <1>4, <1>5
<1> HIDE DEF r
<1>7. r \in Seq(Nat) /\ Len(r) = Len(t) BY <1>3, <1>5, <1>6
<1>8. r[1] = 0 /\ \A i \in 1 .. Len(r) : r[i] <= r[Len(r)]
  BY <1>3, <1>4, <1>5, <1>7
<1> QED BY <1>5, <1>7, <1>8 DEF Recording, r

LEMMA DurationType ==
  ASSUME Recording(records)
  PROVE  /\ Duration \in Nat /\ End \in Nat \ {0}
         /\ \A i \in 1 .. Len(records) : records[i] \in Nat /\ records[i] <= Duration
BY DEF Recording, Duration, End, Last

(* std::lower_bound finds a record, or the end. *)
LEMMA FirstFromBounds ==
  ASSUME Recording(records), NEW position \in Nat
  PROVE  FirstFrom(position) \in 1 .. End
<1>1. CASE position >= Duration BY <1>1, DurationType DEF FirstFrom, Recording
<1>2. CASE ~(position >= Duration)
  <2> DEFINE T == {i \in 1 .. Len(records) : records[i] >= position}
  <2>1. Len(records) \in T BY <1>2 DEF Recording, Duration, Last
  <2> HIDE DEF T
  <2>2. T \in SUBSET Nat /\ T # {} BY <2>1 DEF T
  <2>3. PICK m \in T : \A k \in T : m <= k BY <2>2, LeastElement
  <2> USE DEF T
  <2>4. m \in DOMAIN records /\ records[m] >= position BY DEF Recording
  <2>5. \A j \in 1 .. m - 1 : records[j] < position
    BY <2>3, DurationType DEF Recording
  <2>6. FirstFrom(position) \in DOMAIN records BY <1>2, <2>4, <2>5 DEF FirstFrom
  <2> QED BY <2>6, DurationType DEF Recording, End
<1> QED BY <1>1, <1>2

(* The timer is set for now or later, and not before the time of the       *)
(* record, but for less than a unit of the clock.                          *)
LEMMA ScheduleBounds ==
  ASSUME Recording(records), NEW e \in Nat, NEW i \in 1 .. Len(records), NEW from \in Nat,
         NEW factor \in Nat \ {0}
  PROVE  /\ Schedule(e, i, from, factor) \in Nat
         /\ ~fast => records[i] < from + Schedule(e, i, from, factor) * factor + factor
<1> DEFINE gap == AtLeastZero(records[i] - from)
           q == gap \div factor
           wait == CeilMs(AtLeastZero(q - e))
<1>1. records[i] \in Nat BY DurationType
<1>2. gap \in Nat /\ records[i] <= from + gap BY <1>1 DEF AtLeastZero
<1> HIDE DEF gap
<1>3. q \in Nat /\ q * factor + factor > gap BY <1>2, Quotient
<1> HIDE DEF q
<1>4. AtLeastZero(q - e) \in Nat /\ AtLeastZero(q - e) >= q - e BY <1>3 DEF AtLeastZero
<1>5. wait \in Nat /\ wait >= q - e BY <1>3, <1>4, CeilMsBounds
<1>6. CASE fast BY <1>6 DEF Schedule
<1>7. CASE ~fast
  <2>1. Schedule(e, i, from, factor) = e + wait BY <1>7 DEF Schedule, gap, q
  <2> HIDE DEF wait
  <2>2. e + wait \in Nat /\ e + wait >= q BY <1>3, <1>5
  <2> DEFINE s == e + wait
  <2> HIDE DEF s
  <2>3. s \in Nat /\ s >= q BY <2>2 DEF s
  <2>4. s * factor >= q * factor /\ s * factor \in Nat /\ q * factor \in Nat BY <1>3, <2>3
  <2>5. records[i] < from + s * factor + factor BY <1>1, <1>2, <1>3, <2>4
  <2> QED BY <2>1, <2>3, <2>5 DEF s
<1> QED BY <1>6, <1>7

-----------------------------------------------------------------------------
(* The invariant *)

ReplayTypeOK ==
  /\ process \in {"starting", "replaying", "exited"}
  /\ fast \in BOOLEAN /\ running \in BOOLEAN /\ paused \in BOOLEAN /\ finished \in BOOLEAN
  /\ speed \in Speeds
  /\ base \in Nat /\ elapsed \in Nat /\ media \in Nat /\ timer \in Nat \cup {NotSet}
  /\ next \in 1 .. End

(* A recording is loaded when the replay begins, which is when there is    *)
(* something to run; what is paused is running, with the timer off.        *)
Phase ==
  /\ process = "starting" => records = <<>> /\ next = 1 /\ played = <<>> /\ ~finished
  /\ process = "replaying" => records # <<>>
  /\ running => process = "replaying"
  /\ paused => running /\ timer = NotSet
  /\ Advancing => next < End /\ timer # NotSet
  /\ finished => ~running /\ next = End

(* The position is never beyond the end, where going on would lose it.     *)
Positioned == media = PositionNs /\ base <= Duration

(* The timer is not set for more than a unit before the time of the record *)
(* that it is for, whatever call has set it.                               *)
Timed == Advancing /\ ~fast => records[next] < base + timer * speed + speed

ReplayInv == Recording(records) /\ ReplayTypeOK /\ Phase /\ Positioned /\ Timed

LEMMA SpeedType == ReplayTypeOK => speed \in Nat \ {0}
BY ReplayAssumption DEF ReplayTypeOK

(* Nothing has been loaded at first. *)
LEMMA ReplayInitInv == ReplayInit => ReplayInv
<1> SUFFICES ASSUME ReplayInit PROVE ReplayInv OBVIOUS
<1> USE DEF ReplayInit
<1>1. Recording(records) BY DEF Recording
<1>2. Duration = 0 /\ End = 1 BY DEF Duration, End
<1>3. ReplayTypeOK
  <2>1. /\ running \in BOOLEAN /\ paused \in BOOLEAN /\ fast \in BOOLEAN
        /\ finished \in BOOLEAN
    OBVIOUS
  <2> QED BY <1>2, <2>1 DEF ReplayTypeOK
<1>4. Phase BY <1>2 DEF Phase, Advancing
<1>5. Positioned BY <1>2 DEF Positioned, PositionNs, Advancing
<1>6. Timed BY DEF Timed, Advancing
<1> QED BY <1>1, <1>3, <1>4, <1>5, <1>6 DEF ReplayInv

(* A position that the clock and the speed give. *)
LEMMA UpToBounds ==
  ASSUME NEW limit \in Nat, NEW n \in Nat
  PROVE  UpTo(limit, n) \in Nat /\ UpTo(limit, n) <= limit
BY DEF UpTo

(* Where the source starts. *)
LEMMA StartStep ==
  ASSUME Recording(records'), records' # <<>>, StartSource, speed \in Speeds, speed' = speed,
         fast' \in BOOLEAN, process' = "replaying", finished' = FALSE
  PROVE  ReplayInv'
<1>1. Duration' \in Nat /\ End' \in Nat /\ 1 < End'
  BY DEF Recording, Duration, End, Last
<1>2. speed \in Nat \ {0} BY ReplayAssumption
<1>3. records'[1] = 0 BY DEF Recording
<1>4. ReplayTypeOK'
  <2>1. next' \in 1 .. End' BY <1>1 DEF StartSource
  <2>2. /\ running' \in BOOLEAN /\ paused' \in BOOLEAN /\ fast' \in BOOLEAN
        /\ finished' \in BOOLEAN
    BY DEF StartSource
  <2> QED BY <2>1, <2>2 DEF ReplayTypeOK, StartSource
<1>5. Phase' BY <1>1 DEF Phase, StartSource, Advancing, NotSet
<1>6. Positioned' BY <1>1, <1>2 DEF Positioned, PositionNs, StartSource, UpTo
<1>7. Timed' BY <1>2, <1>3 DEF Timed, StartSource
<1> QED BY <1>4, <1>5, <1>6, <1>7 DEF ReplayInv

LEMMA LaunchStep ==
  ASSUME ReplayInv, NEW lines \in Recordings, Launch(lines)
  PROVE  ReplayInv'
<1>1. lines \in Seq(Line) BY ReplayAssumption
<1>2. CASE Loadable(lines) /\ process' = "replaying" /\ records' = Load(lines)
             /\ fast' \in (IF controlled THEN {FALSE} ELSE BOOLEAN) /\ StartSource
  <2>1. Recording(records') /\ records' # <<>> BY <1>1, <1>2, LoadedRecording
  <2>2. speed \in Speeds /\ speed' = speed /\ finished' = FALSE
    BY DEF Launch, ReplayInv, ReplayTypeOK, Phase
  <2> QED BY <1>2, <2>1, <2>2, StartStep
<1>3. CASE process' = "exited" /\ UNCHANGED <<records, next, fast, base, elapsed, timer,
                                              running, paused, played, media>>
  BY <1>3 DEF Launch, ReplayInv, Recording, ReplayTypeOK, Phase, Positioned, Timed,
     Advancing, PositionNs, Duration, End
<1> QED BY <1>2, <1>3 DEF Launch

LEMMA TickStep == ReplayInv /\ Tick => ReplayInv'
<1> SUFFICES ASSUME ReplayInv, Tick PROVE ReplayInv' OBVIOUS
<1> USE DEF Tick
<1>1. /\ Duration \in Nat /\ speed \in Nat \ {0} /\ base \in Nat /\ elapsed \in Nat
      /\ media \in Nat
  BY DurationType, SpeedType DEF ReplayInv, ReplayTypeOK
<1>2. Recording(records)' /\ Phase' /\ Timed'
  BY DEF ReplayInv, Recording, Phase, Timed, Advancing, End
<1>3. ReplayTypeOK' BY <1>1, UpToBounds DEF ReplayInv, ReplayTypeOK, End
<1>4. Positioned'
  <2>1. Duration' = Duration BY DEF Duration
  <2>2. media = UpTo(Duration, base + elapsed * speed)
    BY DEF ReplayInv, Positioned, PositionNs
  <2>3. PositionNs' = UpTo(Duration, base + (elapsed + 1) * speed)
    BY <2>1 DEF PositionNs, Advancing
  <2> DEFINE x == elapsed * speed
  <2>4. x \in Nat /\ (elapsed + 1) * speed = x + speed BY <1>1
  <2> HIDE DEF x
  <2>5. UpTo(Duration, UpTo(Duration, base + x) + speed) = UpTo(Duration, base + (x + speed))
    BY <1>1, <2>4 DEF UpTo
  <2>6. media' = PositionNs' BY <2>2, <2>3, <2>4, <2>5 DEF x
  <2> QED BY <2>1, <2>6 DEF Positioned, ReplayInv
<1> QED BY <1>2, <1>3, <1>4 DEF ReplayInv

(* A source that goes on from a true position with a newly set timer.      *)
LEMMA ScheduledStep ==
  ASSUME ReplayInv, UNCHANGED <<process, records, fast>>, process = "replaying",
         running', ~paused', running' \in BOOLEAN, paused' \in BOOLEAN,
         ~finished', finished' \in BOOLEAN,
         speed' \in Speeds, next' \in 1 .. Len(records),
         base' \in Nat, base' <= Duration, elapsed' \in Nat,
         timer' = Schedule(elapsed', next', base', speed'),
         media' = UpTo(Duration, base' + elapsed' * speed')
  PROVE  ReplayInv'
<1>1. /\ Recording(records) /\ speed' \in Nat \ {0}
      /\ process \in {"starting", "replaying", "exited"} /\ fast \in BOOLEAN
  BY ReplayAssumption DEF ReplayInv, ReplayTypeOK
<1>2. Duration \in Nat /\ End \in Nat /\ Duration' = Duration /\ End' = End
  BY <1>1, DurationType DEF Duration, End
<1>3. /\ timer' \in Nat
      /\ ~fast => records[next'] < base' + timer' * speed' + speed'
  BY <1>1, ScheduleBounds
<1>4. base' + elapsed' * speed' \in Nat
  <2>1. elapsed' * speed' \in Nat BY <1>1, Product
  <2> QED BY <2>1
<1>5. media' \in Nat BY <1>2, <1>4, UpToBounds
<1>6. next' \in 1 .. End' /\ next' < End' BY <1>2 DEF End
<1>7. ReplayTypeOK' BY <1>1, <1>3, <1>5, <1>6 DEF ReplayTypeOK
<1>8. Phase' BY <1>3, <1>6 DEF Phase, Advancing, NotSet, ReplayInv
<1>9. Positioned' BY <1>2 DEF Positioned, PositionNs, Advancing
<1>10. Timed' BY <1>3 DEF Timed
<1> QED BY <1>1, <1>7, <1>8, <1>9, <1>10 DEF ReplayInv

(* A source that is at rest or paused at a position. *)
LEMMA RestingStep ==
  ASSUME ReplayInv, UNCHANGED <<records, fast>>, ~running' \/ paused',
         running' \in BOOLEAN, paused' \in BOOLEAN,
         running' => process = "replaying", paused' => running',
         process' \in {process, "exited"}, running' => process' = process,
         process # "starting",
         finished' => ~running' /\ next' = End, finished' \in BOOLEAN,
         speed' \in Speeds, next' \in 1 .. End,
         base' \in Nat, base' <= Duration, elapsed' \in Nat,
         timer' = NotSet, media' = base'
  PROVE  ReplayInv'
<1>1. Recording(records) /\ process \in {"replaying", "exited"} /\ fast \in BOOLEAN
  BY DEF ReplayInv, ReplayTypeOK
<1>2. Duration \in Nat /\ End \in Nat /\ Duration' = Duration /\ End' = End
  BY <1>1, DurationType DEF Duration, End
<1>3. ReplayTypeOK' BY <1>1, <1>2 DEF ReplayTypeOK
<1>4. Phase' BY <1>1, <1>2 DEF Phase, Advancing, ReplayInv
<1>5. Positioned' BY <1>2 DEF Positioned, PositionNs, Advancing
<1>6. Timed' BY DEF Timed, Advancing
<1> QED BY <1>1, <1>3, <1>4, <1>5, <1>6 DEF ReplayInv

(* What the invariant says of the variables. *)
LEMMA ReplayFacts ==
  ASSUME ReplayInv
  PROVE  /\ Recording(records) /\ Duration \in Nat
         /\ Len(records) \in Nat /\ End = Len(records) + 1 /\ End \in Nat \ {0}
         /\ fast \in BOOLEAN /\ running \in BOOLEAN /\ paused \in BOOLEAN /\ finished \in BOOLEAN
         /\ speed \in Speeds /\ speed \in Nat \ {0} /\ next \in 1 .. End
         /\ base \in Nat /\ base <= Duration /\ elapsed \in Nat
         /\ PositionNs \in Nat /\ PositionNs <= Duration /\ media = PositionNs
         /\ Advancing => media = UpTo(Duration, base + elapsed * speed)
         /\ ~Advancing => media = base
<1>1. /\ Recording(records) /\ Duration \in Nat
      /\ Len(records) \in Nat /\ End = Len(records) + 1 /\ End \in Nat \ {0}
  BY DurationType DEF ReplayInv, End, Recording
<1>2. /\ fast \in BOOLEAN /\ running \in BOOLEAN /\ paused \in BOOLEAN /\ finished \in BOOLEAN
      /\ speed \in Speeds /\ speed \in Nat \ {0} /\ next \in 1 .. End
      /\ base \in Nat /\ base <= Duration /\ elapsed \in Nat
  BY SpeedType DEF ReplayInv, ReplayTypeOK, Positioned
<1>3. base + elapsed * speed \in Nat BY <1>2
<1>4. PositionNs \in Nat /\ PositionNs <= Duration
  BY <1>1, <1>2, <1>3, UpToBounds DEF PositionNs
<1>5. media = PositionNs BY DEF ReplayInv, Positioned
<1> QED BY <1>1, <1>2, <1>4, <1>5 DEF PositionNs

LEMMA EmitStep == ReplayInv /\ EmitNextBatch => ReplayInv'
<1> SUFFICES ASSUME ReplayInv, EmitNextBatch PROVE ReplayInv' OBVIOUS
<1>1. Advancing /\ process = "replaying" /\ next < End /\ ~finished
  BY DEF EmitNextBatch, ReplayInv, Phase, Advancing
<1>2. BatchEnd \in next + 1 .. End
  BY <1>1, ReplayFacts, ReplayAssumption DEF BatchEnd, UpTo
<1>3. CASE next' >= End
  <2>1. next' = End /\ next' \in 1 .. End BY <1>2, <1>3, ReplayFacts DEF EmitNextBatch
  <2>2. process' \in {process, "exited"} /\ finished' \in BOOLEAN
    BY <1>3, ReplayFacts DEF EmitNextBatch, ReplayFinished
  <2>3. /\ base' = Duration /\ elapsed' = 0 /\ timer' = NotSet /\ running' = FALSE
        /\ media' = base' /\ UNCHANGED <<records, fast, speed, paused>> /\ ~paused'
    BY <1>1, <1>3 DEF Advancing, EmitNextBatch
  <2>4. base' \in Nat /\ base' <= Duration /\ elapsed' \in Nat
    BY <2>3, ReplayFacts
  <2>5. speed' \in Speeds
    BY <2>3, ReplayFacts
  <2>6. running' \in BOOLEAN
    BY <2>3, ReplayFacts
  <2>7. paused' \in BOOLEAN BY <2>3, ReplayFacts
  <2>8. process # "starting" /\ running' => process = "replaying"
    BY <1>1
  <2>9. finished' => ~running' /\ next' = End BY <2>1, <2>3
  <2> QED BY <2>8, <2>9, <1>1, <2>1, <2>2, <2>3, <2>6, <2>7, <2>4, <2>5, RestingStep
<1>4. CASE ~(next' >= End)
  <2>1. next' \in 1 .. Len(records) BY <1>2, <1>4, ReplayFacts DEF EmitNextBatch
  <2> QED BY <1>1, <1>4, <2>1, ReplayFacts, ScheduledStep
          DEF EmitNextBatch, Advancing, NotFinished
<1> QED BY <1>3, <1>4

LEMMA PauseStep == ReplayInv /\ PauseReplay => ReplayInv'
<1> SUFFICES ASSUME ReplayInv, PauseReplay PROVE ReplayInv' OBVIOUS
<1> USE DEF PauseReplay, CanPause, Playing
<1>1. CASE paused
  BY <1>1 DEF sourceVars, ReplayInv, Recording, ReplayTypeOK, Phase, Positioned, Timed,
     Advancing, PositionNs, Duration, End
<1>2. CASE ~paused
  <2>1. ~finished BY DEF ReplayInv, Phase
  <2> QED BY <1>2, <2>1, ReplayFacts, RestingStep DEF PauseSource
<1> QED BY <1>1, <1>2

LEMMA PlayStep == ReplayInv /\ Play => ReplayInv'
<1> SUFFICES ASSUME ReplayInv, Play PROVE ReplayInv' OBVIOUS
<1> USE DEF Play, Playing
<1>1. CASE ~running
  <2>1. records' = records /\ records # <<>> BY DEF ReplayInv, Phase
  <2> QED BY <1>1, <2>1, ReplayFacts, StartStep
<1>2. CASE running /\ ~paused
  BY <1>2 DEF sourceVars, ReplayInv, Recording, ReplayTypeOK, Phase, Positioned, Timed,
     Advancing, PositionNs, Duration, End
<1>3. CASE running /\ paused
  <2>1. timer = NotSet /\ ~Advancing BY <1>3 DEF ReplayInv, Phase, Advancing
  <2>2. CASE next = End
    <3>1. /\ running' = FALSE /\ paused' = FALSE /\ finished' = FALSE /\ elapsed' = 0
          /\ timer' = NotSet /\ media' = base'
          /\ UNCHANGED <<process, records, fast, speed, next, base>>
      BY <1>3, <2>1, <2>2, ReplayFacts DEF ResumeSource
    <3> QED BY <3>1, ReplayFacts, RestingStep
  <2>3. CASE next # End
    <3>1. next \in 1 .. Len(records) BY <2>3, ReplayFacts
    <3>2. UpTo(Duration, base + 0 * speed) = base BY ReplayFacts DEF UpTo
    <3>3. /\ paused' = FALSE /\ finished' = FALSE /\ elapsed' = 0
          /\ timer' = Schedule(elapsed', next', base', speed') /\ media' = base'
          /\ UNCHANGED <<process, running, records, fast, speed, next, base>>
      BY <1>3, <2>1, <2>3, ReplayFacts DEF ResumeSource
    <3> QED BY <1>3, <3>1, <3>2, <3>3, ReplayFacts, ScheduledStep
  <2> QED BY <2>2, <2>3
<1> QED BY <1>1, <1>2, <1>3

LEMMA SeekStep ==
  ASSUME ReplayInv, NEW position \in Positions, Seek(position)
  PROVE  ReplayInv'
<1> USE DEF Seek, Playing
<1> DEFINE bounded == UpTo(Duration, position)
<1>1. bounded \in Nat /\ bounded <= Duration
  BY ReplayFacts, ReplayAssumption, UpToBounds
<1> HIDE DEF bounded
<1>2. FirstFrom(bounded) \in 1 .. End BY <1>1, ReplayFacts, FirstFromBounds
<1>3. CASE ~running
  BY <1>1, <1>2, <1>3, ReplayFacts, RestingStep DEF bounded
<1>4. CASE running
  <2>1. SeekSource(bounded) BY <1>4 DEF bounded
  <2>2. CASE Advancing /\ next' # End
    <3>1. next' \in 1 .. Len(records) BY <1>2, <2>1, <2>2, ReplayFacts DEF SeekSource
    <3>2. UpTo(Duration, bounded + 0 * speed) = bounded
      BY <1>1, ReplayFacts DEF UpTo
    <3> QED BY <1>1, <1>4, <2>1, <2>2, <3>1, <3>2, ReplayFacts, ScheduledStep
            DEF SeekSource, Advancing
  <2>3. CASE ~(Advancing /\ next' # End)
    BY <1>1, <1>2, <1>4, <2>1, <2>3, ReplayFacts, RestingStep DEF SeekSource, Advancing
  <2> QED BY <2>2, <2>3
<1> QED BY <1>3, <1>4

LEMMA SpeedStep ==
  ASSUME ReplayInv, NEW factor \in Speeds, SetSpeed(factor)
  PROVE  ReplayInv'
<1> USE DEF SetSpeed, Playing, SetSpeedSource
<1>1. CASE Advancing
  <2>1. next \in 1 .. Len(records) /\ ~finished
    BY <1>1, ReplayFacts DEF ReplayInv, Phase, Advancing
  <2>2. factor \in Nat BY ReplayAssumption
  <2>3. UpTo(Duration, PositionNs + 0 * factor) = PositionNs
    BY <2>2, ReplayFacts DEF UpTo
  <2> QED BY <1>1, <2>1, <2>3, ReplayFacts, ScheduledStep DEF Advancing
<1>2. CASE ~Advancing
  <2>1. base' = base BY <1>2 DEF PositionNs
  <2> QED BY <1>2, <2>1, ReplayAssumption
     DEF ReplayInv, Recording, ReplayTypeOK, Phase, Positioned, Timed,
     Advancing, PositionNs, Duration, End
<1> QED BY <1>1, <1>2

(* The invariant is inductive. *)
LEMMA ReplayStep == ReplayInv /\ [ReplayNext]_replayVars => ReplayInv'
<1>1. ReplayInv /\ UNCHANGED replayVars => ReplayInv'
  BY DEF replayVars, sourceVars, ReplayInv, Recording, ReplayTypeOK, Phase, Positioned, Timed,
     Advancing, PositionNs, Duration, End
<1> QED BY <1>1, LaunchStep, TickStep, EmitStep, PauseStep, PlayStep, SeekStep, SpeedStep
        DEF ReplayNext, SourceStep, Command

LEMMA ReplayInvariance == ReplaySpec => []ReplayInv
BY ReplayInitInv, ReplayStep, PTL DEF ReplaySpec

-----------------------------------------------------------------------------
(* The theorems *)

(* While records are played there is a next one and the timer is set, and  *)
(* the end is announced at the end only. *)
THEOREM AlwaysScheduled == ReplaySpec => []ScheduledOrAtRest
<1>1. ReplayInv => ScheduledOrAtRest BY DEF ReplayInv, Phase, ScheduledOrAtRest
<1> QED BY <1>1, ReplayInvariance, PTL

(* Base, clock and speed always give the position that the recording has   *)
(* come to. *)
THEOREM PositionStaysTrue == ReplaySpec => []PositionIsTrue
<1>1. ReplayInv => PositionIsTrue BY DEF ReplayInv, Positioned, PositionIsTrue
<1> QED BY <1>1, ReplayInvariance, PTL

LEMMA InTime ==
  ASSUME ReplayInv, EmitNextBatch, ~fast
  PROVE  records[next] < media + speed
<1>1. Advancing /\ next < End /\ timer \in Nat /\ elapsed >= timer
  BY DEF EmitNextBatch, ReplayInv, ReplayTypeOK, Phase, Advancing
<1>2. records[next] \in Nat /\ records[next] <= Duration
  BY <1>1, ReplayFacts, DurationType
<1>3. records[next] < base + timer * speed + speed BY <1>1 DEF ReplayInv, Timed
<1>4. timer * speed \in Nat /\ elapsed * speed \in Nat /\ timer * speed <= elapsed * speed
  BY <1>1, ReplayFacts
<1>5. media = UpTo(Duration, base + elapsed * speed) BY <1>1, ReplayFacts
<1> DEFINE x == elapsed * speed
           y == timer * speed
<1> HIDE DEF x, y
<1>6. x \in Nat /\ y \in Nat /\ y <= x /\ media = UpTo(Duration, base + x)
      /\ records[next] < base + y + speed
  BY <1>3, <1>4, <1>5 DEF x, y
<1>7. speed \in Nat \ {0} /\ base \in Nat /\ Duration \in Nat BY ReplayFacts
<1> QED BY <1>2, <1>6, <1>7 DEF UpTo

(* No record is played before its time. *)
THEOREM RecordsInTime == ReplaySpec => NeverEarly
<1>1. ReplayInv /\ [ReplayNext]_replayVars =>
        [EmitNextBatch /\ ~fast => records[next] < media + speed]_replayVars
  BY InTime
<1> QED BY <1>1, ReplayInvariance, PTL DEF ReplaySpec, NeverEarly

-----------------------------------------------------------------------------
(* The replay is a player *)

playerState == IF ~running THEN "resting" ELSE IF paused THEN "paused" ELSE "playing"

LEMMA PlayerInit == ReplayInit => Player!PInit
BY DEF ReplayInit, Player!PInit

LEMMA PlayerBegin ==
  ASSUME ReplayInv, ~running, Recording(records'), records' # <<>>,
         records \in {<<>>, records'}, StartSource
  PROVE  Player!Begin
<1>1. Len(records') \in Nat \ {0} BY DEF Recording
<1>2. Len(records) \in {0, Len(records')} OBVIOUS
<1> QED BY <1>1, <1>2 DEF Player!Begin, Player!MoveTo, StartSource

LEMMA PlayerPlay ==
  ASSUME ReplayInv, EmitNextBatch
  PROVE  \E count \in 1 .. Len(records) : Player!Play(count)
<1>1. Advancing /\ next < End
  BY DEF EmitNextBatch, ReplayInv, Phase, Advancing
<1>2. BatchEnd \in next + 1 .. End
  BY <1>1, ReplayFacts, ReplayAssumption DEF BatchEnd, UpTo
<1> DEFINE count == BatchEnd - next
<1>3. count \in 1 .. Len(records) /\ next + count = BatchEnd
  BY <1>2, ReplayFacts
<1>4. /\ next' = next + count /\ next + count <= Len(records) + 1
      /\ played' = played \o [i \in 1 .. count |-> next + i - 1]
  BY <1>2, <1>3, ReplayFacts DEF EmitNextBatch
<1>5. running /\ ~paused /\ paused' = paused /\ records' = records
  BY <1>1 DEF Advancing, EmitNextBatch
<1>6. next' > Len(records) => ~running'
  <2> SUFFICES ASSUME next' > Len(records) PROVE ~running' OBVIOUS
  <2>1. next' >= End BY <1>2, <1>4, <1>3, ReplayFacts
  <2> QED BY <2>1 DEF EmitNextBatch
<1>7. ~(next' > Len(records)) => running'
  <2> SUFFICES ASSUME ~(next' > Len(records)) PROVE running' OBVIOUS
  <2>1. ~(next' >= End) BY <1>2, ReplayFacts DEF EmitNextBatch
  <2>2. running' = running BY <2>1 DEF EmitNextBatch
  <2> QED BY <1>5, <2>2
<1> HIDE DEF count
<1>8. Player!Play(count)
  BY <1>3, <1>4, <1>5, <1>6, <1>7 DEF Player!Play, Player!StateAt
<1> QED BY <1>3, <1>8

LEMMA PlayerSeek ==
  ASSUME ReplayInv, NEW position \in Positions, Seek(position)
  PROVE  Player!Seek
<1> DEFINE bounded == UpTo(Duration, position)
<1>1. bounded \in Nat BY ReplayFacts, ReplayAssumption, UpToBounds
<1> HIDE DEF bounded
<1>2. FirstFrom(bounded) \in 1 .. Len(records) + 1 BY <1>1, ReplayFacts, FirstFromBounds
<1>3. next' = FirstFrom(bounded) /\ played' = <<>> /\ records' = records
  BY DEF Seek, SeekSource, bounded
<1>4. Len(records) > 0 BY ReplayFacts DEF Seek, Playing, ReplayInv, Phase, Recording
<1>5. /\ Advancing => ~paused' /\ (running' <=> next' # End)
      /\ ~Advancing => paused' /\ running'
  BY ReplayFacts DEF Seek, SeekSource, Advancing, ReplayInv, Phase
<1>6. playerState' = IF playerState = "playing" THEN Player!StateAt(next') ELSE "paused"
  BY <1>2, <1>3, <1>5, ReplayFacts DEF playerState, Advancing, Player!StateAt
<1> QED BY <1>2, <1>3, <1>4, <1>6 DEF Player!Seek, Player!MoveTo, playerState

(* Each step of the replay is one of the player, or shows it nothing.      *)
LEMMA PlayerStep == ReplayInv /\ [ReplayNext]_replayVars => [Player!PNext]_(Player!pVars)
<1> SUFFICES ASSUME ReplayInv, [ReplayNext]_replayVars
             PROVE  Player!PNext \/ UNCHANGED <<records, running, paused, next, played>>
  BY DEF Player!pVars
<1> USE DEF Player!PNext
<1>1. CASE \E lines \in Recordings : Launch(lines)
  <2> PICK lines \in Recordings : Launch(lines) BY <1>1
  <2>1. ~running /\ records = <<>> /\ lines \in Seq(Line)
    BY ReplayAssumption DEF Launch, ReplayInv, Phase
  <2> QED BY <2>1, LoadedRecording, PlayerBegin DEF Launch
<1>2. CASE EmitNextBatch BY <1>2, PlayerPlay
<1>3. CASE Play
  <2>1. CASE ~running
    BY <1>3, <2>1, PlayerBegin DEF Play, Playing, ReplayInv, Phase
  <2>2. CASE running /\ paused
    <3>1. UNCHANGED <<records, next, played>> /\ paused' = FALSE
      BY <1>3, <2>2 DEF Play, ResumeSource
    <3>2. next > Len(records) => ~running'
      <4> SUFFICES ASSUME next > Len(records) PROVE ~running' OBVIOUS
      <4>1. next = End BY ReplayFacts
      <4> QED BY <1>3, <2>2, <4>1 DEF Play, ResumeSource
    <3>3. ~(next > Len(records)) => running'
      <4> SUFFICES ASSUME ~(next > Len(records)) PROVE running' OBVIOUS
      <4>1. next # End BY ReplayFacts
      <4>2. running' = running BY <1>3, <2>2, <4>1 DEF Play, ResumeSource
      <4> QED BY <2>2, <4>2
    <3> QED BY <2>2, <3>1, <3>2, <3>3 DEF Player!Resume, Player!StateAt
  <2>3. CASE running /\ ~paused
    BY <1>3, <2>3 DEF Play, sourceVars
  <2> QED BY <2>1, <2>2, <2>3
<1>4. CASE PauseReplay
  BY <1>4 DEF PauseReplay, CanPause, PauseSource, sourceVars, Player!Pause
<1>5. CASE \E position \in Positions : Seek(position) BY <1>5, PlayerSeek
<1>6. CASE Tick \/ (\E factor \in Speeds : SetSpeed(factor)) \/ UNCHANGED replayVars
  BY <1>6 DEF Tick, SetSpeed, SetSpeedSource, replayVars, sourceVars
<1> QED BY <1>1, <1>2, <1>3, <1>4, <1>5, <1>6 DEF ReplayNext, SourceStep, Command

(* A replay plays its records in order, each once between two seeks, and   *)
(* none while it is paused or at rest. *)
THEOREM ReplayIsPlayer == ReplaySpec => PlayerSpec
BY PlayerInit, PlayerStep, ReplayInvariance, PTL DEF ReplaySpec, PlayerSpec, Player!PSpec

-----------------------------------------------------------------------------
(* The control: answers on their way                                       *)

Message == [result : {"none", "ok", "failed"}, state : States]

Answers(q) == {i \in 1 .. Len(q) : q[i].result # "none"}
Counted(message) == IF message.result = "none" THEN 0 ELSE 1

LEMMA StateIsOne == State \in States /\ State' \in States
BY DEF State, States

LEMMA AnswersFinite ==
  ASSUME NEW q \in Seq(Message)
  PROVE  IsFiniteSet(Answers(q)) /\ Cardinality(Answers(q)) \in Nat
<1>1. IsFiniteSet(1 .. Len(q))
  <2>1. 1 \in Int /\ Len(q) \in Int OBVIOUS
  <2> QED BY <2>1, FS_Interval
<1>2. Answers(q) \in SUBSET (1 .. Len(q)) BY DEF Answers
<1>3. IsFiniteSet(Answers(q)) BY <1>1, <1>2, FS_Subset
<1> QED BY <1>3, FS_CardinalityType

LEMMA AnswersNone == Answers(<<>>) = {} /\ Cardinality(Answers(<<>>)) = 0
<1>1. Answers(<<>>) = {} BY DEF Answers
<1> QED BY <1>1, FS_EmptySet

LEMMA AnswersAppend ==
  ASSUME NEW q \in Seq(Message), NEW m \in Message
  PROVE  /\ Append(q, m) \in Seq(Message)
         /\ Cardinality(Answers(Append(q, m))) = Cardinality(Answers(q)) + Counted(m)
<1> DEFINE more == Append(q, m)
           n == Len(q)
<1>1. /\ n \in Nat /\ more \in Seq(Message) /\ Len(more) = n + 1 /\ more[n + 1] = m
      /\ \A i \in 1 .. n : more[i] = q[i]
  OBVIOUS
<1> HIDE DEF more, n
<1>2. IsFiniteSet(Answers(q)) /\ Cardinality(Answers(q)) \in Nat BY AnswersFinite
<1>3. Answers(q) = {i \in 1 .. n : q[i].result # "none"} BY DEF Answers, n
<1>4. Answers(more) = {i \in 1 .. n + 1 : more[i].result # "none"} BY <1>1 DEF Answers
<1>5. \A i \in 1 .. n + 1 : i = n + 1 \/ i \in 1 .. n BY <1>1
<1>6. 1 .. n \subseteq 1 .. n + 1 /\ n + 1 \in 1 .. n + 1 /\ n + 1 \notin 1 .. n BY <1>1
<1>7. CASE m.result = "none"
  <2>1. Answers(more) = Answers(q) BY <1>1, <1>3, <1>4, <1>5, <1>6, <1>7
  <2> QED BY <1>1, <1>2, <1>7, <2>1 DEF Counted, more
<1>8. CASE m.result # "none"
  <2>1. Answers(more) = Answers(q) \cup {n + 1} BY <1>1, <1>3, <1>4, <1>5, <1>6, <1>8
  <2>2. n + 1 \notin Answers(q) BY <1>3, <1>6
  <2>3. Cardinality(Answers(q) \cup {n + 1}) = Cardinality(Answers(q)) + 1
    BY <1>2, <2>2, FS_AddElement
  <2> QED BY <1>1, <1>8, <2>1, <2>3 DEF Counted, more
<1> QED BY <1>7, <1>8

LEMMA AnswersTail ==
  ASSUME NEW q \in Seq(Message), q # <<>>
  PROVE  /\ Head(q) \in Message /\ Tail(q) \in Seq(Message)
         /\ Cardinality(Answers(q)) = Cardinality(Answers(Tail(q))) + Counted(Head(q))
<1> DEFINE rest == Tail(q)
           n == Len(q)
           A == Answers(q)
           B == Answers(rest)
<1>1. /\ n \in Nat /\ n >= 1 /\ rest \in Seq(Message) /\ Len(rest) = n - 1
      /\ Head(q) = q[1] /\ Head(q) \in Message
      /\ \A i \in 1 .. n - 1 : rest[i] = q[i + 1]
  OBVIOUS
<1> HIDE DEF rest, n
<1>2. IsFiniteSet(B) /\ Cardinality(B) \in Nat BY <1>1, AnswersFinite
<1>3. A = {i \in 1 .. n : q[i].result # "none"} BY DEF Answers, n
<1>4. B = {i \in 1 .. n - 1 : rest[i].result # "none"} BY <1>1 DEF Answers
<1>5. ASSUME NEW i \in 1 .. n - 1 PROVE i \in B <=> i + 1 \in A
  <2>1. i + 1 \in 1 .. n /\ rest[i] = q[i + 1] BY <1>1
  <2> QED BY <1>3, <1>4, <2>1
<1>6. 1 \in A <=> Counted(Head(q)) = 1
  <2>1. 1 \in 1 .. n BY <1>1
  <2> QED BY <1>1, <1>3, <2>1 DEF Counted
<1>7. A \subseteq 1 .. n /\ B \subseteq 1 .. n - 1 BY <1>3, <1>4
<1> DEFINE C == A \ {1}
           f == [i \in B |-> i + 1]
<1> HIDE DEF A, B
<1>8. f \in Bijection(B, C)
  <2>1. ASSUME NEW i \in B PROVE i + 1 \in C
    <3>1. i \in 1 .. n - 1 BY <1>7
    <3>2. i + 1 \in A /\ i + 1 # 1 BY <1>5, <3>1
    <3> QED BY <3>2
  <2>2. f \in [B -> C] BY <2>1
  <2>3. \A i, j \in B : f[i] = f[j] => i = j BY <1>1, <1>7
  <2>4. ASSUME NEW k \in C PROVE \E i \in B : f[i] = k
    <3> DEFINE i == k - 1
    <3>1. i \in 1 .. n - 1 /\ i + 1 = k BY <1>1, <1>7
    <3> HIDE DEF i
    <3>2. i \in B BY <1>5, <3>1
    <3> QED BY <3>1, <3>2
  <2> HIDE DEF f, C
  <2> QED BY <2>2, <2>3, <2>4 DEF Bijection, Injection, Surjection, IsInjective
<1>9. IsFiniteSet(C) /\ Cardinality(C) = Cardinality(B)
  <2> HIDE DEF f, C
  <2>1. ExistsBijection(B, C) BY <1>8 DEF ExistsBijection
  <2> QED BY <1>2, <2>1, FS_Bijection
<1>10. Cardinality(A) = Cardinality(B) + Counted(Head(q))
  <2>1. CASE 1 \in A
    <3>1. A = C \cup {1} /\ 1 \notin C BY <2>1
    <3>2. Cardinality(A) = Cardinality(C) + 1
      <4> HIDE DEF C
      <4> QED BY <1>9, <3>1, FS_AddElement
    <3> QED BY <1>6, <1>9, <2>1, <3>2
  <2>2. CASE 1 \notin A
    <3>1. A = C BY <2>2
    <3>2. Counted(Head(q)) = 0 BY <1>6, <2>2 DEF Counted
    <3>3. Cardinality(A) = Cardinality(B)
      <4> HIDE DEF C
      <4> QED BY <1>9, <3>1
    <3> QED BY <1>2, <3>2, <3>3
  <2> QED BY <2>1, <2>2
<1> QED BY <1>1, <1>10 DEF A, B, rest

-----------------------------------------------------------------------------
(* The control: the tally of a connection                                  *)

ControlLinks == {"off", "waiting", "pending", "accepted", "closing", "dead", "gone"}

ControlTypeOK ==
  /\ link \in [Clients -> ControlLinks]
  /\ requests \in [Clients -> Seq(Commands)]
  /\ replies \in [Clients -> Seq(Message)]
  /\ residue \in [Clients -> BOOLEAN]
  /\ asked \in [Clients -> Nat] /\ answered \in [Clients -> Nat]

(* Half a line of an earlier connection can only spoil the greeting.       *)
Tallied(state, q, r, half, a, n) ==
  /\ state \in {"pending", "accepted"} =>
       a = Len(q) + Cardinality(Answers(r)) + n
  /\ state = "pending" => r = <<>>
  /\ state = "accepted" /\ half => r # <<>> /\ Head(r).result = "none"

Tally(c) == Tallied(link[c], requests[c], replies[c], residue[c], asked[c], answered[c])

ControlInv == ControlTypeOK /\ \A c \in Clients : Tally(c)

LEMMA ControlTypes ==
  ASSUME ControlTypeOK, NEW c \in Clients
  PROVE  /\ link[c] \in ControlLinks
         /\ requests[c] \in Seq(Commands) /\ Len(requests[c]) \in Nat
         /\ replies[c] \in Seq(Message) /\ residue[c] \in BOOLEAN
         /\ asked[c] \in Nat /\ answered[c] \in Nat
<1> HIDE DEF Commands, Message
<1> QED BY DEF ControlTypeOK

LEMMA UntalliedState ==
  ASSUME NEW state, state \notin {"pending", "accepted"}, NEW q, NEW r, NEW half, NEW a, NEW n
  PROVE  Tallied(state, q, r, half, a, n)
BY DEF Tallied

(* One more message for an accepted client.                                *)
LEMMA TalliedTold ==
  ASSUME NEW q, NEW r \in Seq(Message), NEW half, NEW a, NEW n \in Nat, NEW m \in Message,
         Tallied("accepted", q, r, half, a, n), Len(q) \in Nat, NEW q2,
         Len(q) = Len(q2) + Counted(m), Len(q2) \in Nat
  PROVE  Tallied("accepted", q2, Append(r, m), half, a, n)
<1>1. /\ Append(r, m) \in Seq(Message) /\ Cardinality(Answers(r)) \in Nat
      /\ Cardinality(Answers(Append(r, m))) = Cardinality(Answers(r)) + Counted(m)
  BY AnswersAppend, AnswersFinite
<1>2. Counted(m) \in Nat BY DEF Counted
<1>3. a = Len(q2) + Cardinality(Answers(Append(r, m))) + n BY <1>1, <1>2 DEF Tallied
<1>4. r # <<>> => Append(r, m) # <<>> /\ Head(Append(r, m)) = Head(r) OBVIOUS
<1> QED BY <1>3, <1>4 DEF Tallied

(* A client reads a message.                                               *)
LEMMA TalliedRead ==
  ASSUME NEW q, NEW r \in Seq(Message), NEW half \in BOOLEAN, NEW a, NEW n \in Nat,
         Tallied("accepted", q, r, half, a, n), Len(q) \in Nat, r # <<>>
  PROVE  Tallied("accepted", q, Tail(r), FALSE, a,
                 IF half THEN n ELSE IF Head(r).result = "none" THEN n ELSE n + 1)
<1> DEFINE n2 == IF half THEN n ELSE IF Head(r).result = "none" THEN n ELSE n + 1
<1>1. /\ Tail(r) \in Seq(Message)
      /\ Cardinality(Answers(r)) = Cardinality(Answers(Tail(r))) + Counted(Head(r))
  BY AnswersTail
<1>2. Cardinality(Answers(Tail(r))) \in Nat BY <1>1, AnswersFinite
<1>3. n2 = n + Counted(Head(r)) /\ Counted(Head(r)) \in Nat
  BY DEF Tallied, Counted
<1> HIDE DEF n2
<1>4. a = Len(q) + Cardinality(Answers(Tail(r))) + n2 BY <1>1, <1>2, <1>3 DEF Tallied
<1>5. Tallied("accepted", q, Tail(r), FALSE, a, n2) BY <1>4 DEF Tallied
<1> QED BY <1>5 DEF n2

LEMMA ControlInitially == ControlInit => ControlInv
<1> SUFFICES ASSUME ControlInit PROVE ControlInv OBVIOUS
<1> HIDE DEF Commands, Message
<1>1. <<>> \in Seq(Commands) /\ <<>> \in Seq(Message) OBVIOUS
<1>2. link \in [Clients -> ControlLinks] BY DEF ControlInit, ControlLinks
<1>3. requests \in [Clients -> Seq(Commands)] BY <1>1 DEF ControlInit
<1>4. replies \in [Clients -> Seq(Message)] BY <1>1 DEF ControlInit
<1>5. residue \in [Clients -> BOOLEAN] BY DEF ControlInit
<1>6. asked \in [Clients -> Nat] /\ answered \in [Clients -> Nat] BY DEF ControlInit
<1>7. ASSUME NEW c \in Clients PROVE Tally(c)
  <2>1. link[c] = "off" BY DEF ControlInit
  <2> QED BY <2>1, UntalliedState DEF Tally
<1> QED BY <1>2, <1>3, <1>4, <1>5, <1>6, <1>7 DEF ControlInv, ControlTypeOK

LEMMA TallyOfOthers ==
  ASSUME ControlInv, NEW c \in Clients,
         link'[c] = link[c], requests'[c] = requests[c], replies'[c] = replies[c],
         residue'[c] = residue[c], asked'[c] = asked[c], answered'[c] = answered[c]
  PROVE  Tally(c)'
BY DEF ControlInv, Tally

LEMMA TimerControl == ControlInv /\ StatusTimer => ControlInv'
<1> SUFFICES ASSUME ControlInv, StatusTimer PROVE ControlInv' OBVIOUS
<1> HIDE DEF Commands, Message
<1> DEFINE m == [result |-> "none", state |-> State]
<1>1. m \in Message BY StateIsOne DEF Message
<1>2. m.result = "none" /\ Counted(m) = 0 BY DEF Counted
<1> HIDE DEF m
<1>3. ControlTypeOK /\ UNCHANGED <<requests, residue, asked, answered>>
  BY DEF ControlInv, StatusTimer
<1>4. ASSUME NEW c \in Clients
      PROVE  /\ replies'[c] = IF link[c] = "accepted" THEN Told(c, m) ELSE replies[c]
             /\ link'[c] = IF link[c] = "accepted" /\ Slow(c) THEN "closing" ELSE link[c]
  BY DEF StatusTimer, m
<1>5. ControlTypeOK'
  <2>1. \A c \in Clients : replies[c] \in Seq(Message) /\ link[c] \in ControlLinks
    BY <1>3, ControlTypes
  <2>2. \A c \in Clients : Append(replies[c], m) \in Seq(Message) BY <1>1, <2>1
  <2>3. \A c \in Clients : replies'[c] \in Seq(Message) BY <1>4, <2>1, <2>2 DEF Told
  <2>4. \A c \in Clients : link'[c] \in ControlLinks BY <1>4, <2>1 DEF ControlLinks
  <2>5. /\ replies' = [c \in Clients |-> replies'[c]] /\ link' = [c \in Clients |-> link'[c]]
    BY DEF StatusTimer
  <2>6. replies' \in [Clients -> Seq(Message)] /\ link' \in [Clients -> ControlLinks]
    BY <2>3, <2>4, <2>5
  <2> QED BY <1>3, <2>6 DEF ControlTypeOK
<1>6. ASSUME NEW c \in Clients PROVE Tally(c)'
  <2>1. Tally(c) BY DEF ControlInv
  <2>2. CASE link[c] = "accepted" /\ ~Slow(c)
    <3>1. link'[c] = "accepted" /\ replies'[c] = Append(replies[c], m)
      BY <1>4, <2>2 DEF Told
    <3>2. /\ requests[c] \in Seq(Commands) /\ Len(requests[c]) \in Nat
          /\ replies[c] \in Seq(Message) /\ answered[c] \in Nat
      BY <1>3, ControlTypes
    <3>3. Len(requests[c]) = Len(requests[c]) + Counted(m) BY <1>2, <3>2
    <3>4. Tallied("accepted", requests[c], Append(replies[c], m), residue[c], asked[c], answered[c])
      BY <1>1, <2>1, <2>2, <3>2, <3>3, TalliedTold DEF Tally
    <3> QED BY <1>3, <3>1, <3>4 DEF Tally
  <2>3. CASE link[c] = "accepted" /\ Slow(c)
    <3>1. link'[c] = "closing" BY <1>4, <2>3
    <3> QED BY <3>1, UntalliedState DEF Tally
  <2>4. CASE link[c] # "accepted"
    <3>1. link'[c] = link[c] /\ replies'[c] = replies[c] BY <1>4, <2>4
    <3> QED BY <1>3, <3>1, TallyOfOthers
  <2> QED BY <2>2, <2>3, <2>4
<1> QED BY <1>5, <1>6 DEF ControlInv

LEMMA LoggerEndsControl == ControlInv /\ LoggerEnds => ControlInv'
<1> SUFFICES ASSUME ControlInv, LoggerEnds PROVE ControlInv' OBVIOUS
<1> HIDE DEF Commands, Message
<1>1. ControlTypeOK /\ UNCHANGED <<replies, residue, asked, answered>>
  BY DEF ControlInv, LoggerEnds
<1>2. ASSUME NEW c \in Clients
      PROVE  link'[c] \in ControlLinks /\ link'[c] \notin {"pending", "accepted"}
  <2>1. link[c] \in ControlLinks BY <1>1, ControlTypes
  <2>2. link'[c] = CASE link[c] \in {"pending", "accepted", "closing"} -> "dead"
                     [] link[c] = "gone" -> "off"
                     [] OTHER -> link[c]
    BY DEF LoggerEnds
  <2> QED BY <2>1, <2>2 DEF ControlLinks
<1>3. ControlTypeOK'
  <2>1. link' = [c \in Clients |-> link'[c]] /\ requests' = [c \in Clients |-> <<>>]
    BY DEF LoggerEnds
  <2>2. <<>> \in Seq(Commands) OBVIOUS
  <2>3. requests' \in [Clients -> Seq(Commands)] BY <2>1, <2>2
  <2>4. link' \in [Clients -> ControlLinks] BY <1>2, <2>1
  <2> QED BY <1>1, <2>3, <2>4 DEF ControlTypeOK
<1>4. ASSUME NEW c \in Clients PROVE Tally(c)'
  BY <1>2, UntalliedState DEF Tally
<1> QED BY <1>3, <1>4 DEF ControlInv

(* The steps of the client and the connection, one client each.            *)
LEMMA OneClientControl ==
  ASSUME ControlInv, NEW c \in Clients, ControlTypeOK',
         \A d \in Clients \ {c} :
           /\ link'[d] = link[d] /\ requests'[d] = requests[d] /\ replies'[d] = replies[d]
           /\ residue'[d] = residue[d] /\ asked'[d] = asked[d] /\ answered'[d] = answered[d],
         Tally(c)'
  PROVE  ControlInv'
<1>1. ASSUME NEW d \in Clients PROVE Tally(d)'
  <2>1. CASE d = c BY <2>1
  <2>2. CASE d # c
    <3>1. d \in Clients \ {c} BY <2>2
    <3> QED BY <3>1, TallyOfOthers
  <2> QED BY <2>1, <2>2
<1> QED BY <1>1 DEF ControlInv

LEMMA AcceptControl == ASSUME NEW c \in Clients, ControlInv, Accept(c) PROVE ControlInv'
<1> HIDE DEF Commands, Message
<1> DEFINE m == [result |-> "none", state |-> State]
<1>1. m \in Message BY StateIsOne DEF Message
<1>2. m.result = "none" /\ Counted(m) = 0 BY DEF Counted
<1> HIDE DEF m
<1>3. /\ link[c] = "pending" /\ link' = [link EXCEPT ![c] = "accepted"]
      /\ replies' = [replies EXCEPT ![c] = <<m>>]
      /\ UNCHANGED <<requests, residue, asked, answered>>
  BY DEF Accept, m
<1>4. ControlTypeOK /\ Tally(c) BY DEF ControlInv
<1>5. link'[c] = "accepted" /\ replies'[c] = <<m>> BY <1>3, <1>4 DEF ControlTypeOK
<1>6. ControlTypeOK'
  <2>1. <<m>> \in Seq(Message) BY <1>1
  <2>2. replies' \in [Clients -> Seq(Message)] BY <1>3, <1>4, <2>1 DEF ControlTypeOK
  <2>3. link' \in [Clients -> ControlLinks] BY <1>3, <1>4 DEF ControlTypeOK, ControlLinks
  <2> QED BY <1>3, <1>4, <2>2, <2>3 DEF ControlTypeOK
<1>7. Tally(c)'
  <2>1. replies[c] = <<>> /\ asked[c] = Len(requests[c]) + Cardinality(Answers(<<>>)) + answered[c]
    BY <1>3, <1>4 DEF Tally, Tallied
  <2>2. Cardinality(Answers(<<m>>)) = 0
    <3>1. <<>> \in Seq(Message) /\ Append(<<>>, m) = <<m>> BY <1>1
    <3>2. Cardinality(Answers(Append(<<>>, m))) = Cardinality(Answers(<<>>)) + Counted(m)
      BY <1>1, <3>1, AnswersAppend
    <3> QED BY <1>2, <3>1, <3>2, AnswersNone
  <2>3. asked[c] = Len(requests[c]) + Cardinality(Answers(<<m>>)) + answered[c]
    BY <2>1, <2>2, AnswersNone
  <2>4. <<m>> # <<>> /\ Head(<<m>>).result = "none" BY <1>2
  <2>5. Tallied("accepted", requests[c], <<m>>, residue[c], asked[c], answered[c])
    BY <2>3, <2>4 DEF Tallied
  <2> QED BY <1>3, <1>5, <2>5 DEF Tally
<1>8. \A d \in Clients \ {c} : link'[d] = link[d] /\ replies'[d] = replies[d]
  BY <1>3, <1>4 DEF ControlTypeOK
<1> QED BY <1>3, <1>6, <1>7, <1>8, OneClientControl

LEMMA ReadClientControl ==
  ASSUME NEW c \in Clients, ControlInv, ReadClient(c) PROVE ControlInv'
<1> HIDE DEF Commands, Message
<1>1. /\ requests[c] # <<>> /\ requests' = [requests EXCEPT ![c] = Tail(@)]
      /\ UNCHANGED <<residue, asked, answered>>
  BY DEF ReadClient, Readable
<1>2. PICK result \in {"ok", "failed"} : Answer(c, result) BY DEF ReadClient
<1> DEFINE m == [result |-> result, state |-> State']
<1>3. m \in Message /\ m.result # "none" /\ Counted(m) = 1
  BY StateIsOne DEF Message, Counted
<1>4. \/ /\ link[c] = "accepted" /\ replies' = [replies EXCEPT ![c] = Told(c, m)]
         /\ link' = [link EXCEPT ![c] = IF Slow(c) THEN "closing" ELSE @]
      \/ link[c] # "accepted" /\ UNCHANGED <<replies, link>>
  BY <1>2 DEF Answer
<1> HIDE DEF m
<1>5. ControlTypeOK /\ Tally(c) BY DEF ControlInv
<1>6. /\ requests[c] \in Seq(Commands) /\ Len(requests[c]) \in Nat
      /\ replies[c] \in Seq(Message) /\ answered[c] \in Nat /\ link[c] \in ControlLinks
  BY <1>5, ControlTypes
<1>7. /\ requests'[c] = Tail(requests[c]) /\ Tail(requests[c]) \in Seq(Commands)
      /\ Len(Tail(requests[c])) \in Nat
      /\ Len(requests[c]) = Len(Tail(requests[c])) + 1
  BY <1>1, <1>5, <1>6 DEF ControlTypeOK
<1>8. ControlTypeOK'
  <2>1. Append(replies[c], m) \in Seq(Message) BY <1>3, <1>6
  <2>2. Told(c, m) \in Seq(Message) BY <1>6, <2>1 DEF Told
  <2>3. replies' \in [Clients -> Seq(Message)] BY <1>4, <1>5, <2>2 DEF ControlTypeOK
  <2>4. link' \in [Clients -> ControlLinks] BY <1>4, <1>5, <1>6 DEF ControlTypeOK, ControlLinks
  <2>5. requests' \in [Clients -> Seq(Commands)] BY <1>1, <1>5, <1>7 DEF ControlTypeOK
  <2> QED BY <1>1, <1>5, <2>3, <2>4, <2>5 DEF ControlTypeOK
<1>9. Tally(c)'
  <2>1. CASE link[c] = "accepted" /\ ~Slow(c)
    <3>1. link'[c] = "accepted" /\ replies'[c] = Append(replies[c], m)
      BY <1>4, <1>5, <2>1 DEF Told, ControlTypeOK
    <3>2. Len(requests[c]) = Len(Tail(requests[c])) + Counted(m) BY <1>3, <1>7
    <3>3. Tallied("accepted", Tail(requests[c]), Append(replies[c], m), residue[c],
                  asked[c], answered[c])
      BY <1>3, <1>5, <1>6, <1>7, <2>1, <3>2, TalliedTold DEF Tally
    <3> QED BY <1>1, <1>7, <3>1, <3>3 DEF Tally
  <2>2. CASE link[c] = "accepted" /\ Slow(c)
    <3>1. link'[c] = "closing" BY <1>4, <1>5, <2>2 DEF ControlTypeOK
    <3> QED BY <3>1, UntalliedState DEF Tally
  <2>3. CASE link[c] # "accepted"
    <3>1. link'[c] = link[c] /\ link[c] # "pending"
      BY <1>4, <2>3 DEF ReadClient, Readable
    <3> QED BY <2>3, <3>1, UntalliedState DEF Tally
  <2> QED BY <2>1, <2>2, <2>3
<1>10. \A d \in Clients \ {c} :
         link'[d] = link[d] /\ replies'[d] = replies[d] /\ requests'[d] = requests[d]
  BY <1>1, <1>4, <1>5 DEF ControlTypeOK
<1> QED BY <1>1, <1>8, <1>9, <1>10, OneClientControl

LEMMA SendControl ==
  ASSUME NEW c \in Clients, NEW command \in Commands, ControlInv, SendCommand(c, command)
  PROVE  ControlInv'
<1> HIDE DEF Commands, Message
<1> DEFINE q == IF link[c] = "dead" THEN requests[c] ELSE Append(requests[c], command)
<1>1. /\ requests' = [requests EXCEPT ![c] = q]
      /\ asked' = [asked EXCEPT ![c] = @ + 1]
      /\ UNCHANGED <<link, replies, residue, answered>>
  BY DEF SendCommand
<1>2. ControlTypeOK /\ Tally(c) BY DEF ControlInv
<1>3. /\ requests[c] \in Seq(Commands) /\ Len(requests[c]) \in Nat /\ asked[c] \in Nat
      /\ replies[c] \in Seq(Message) /\ answered[c] \in Nat
  BY <1>2, ControlTypes
<1>4. /\ q \in Seq(Commands)
      /\ link[c] \in {"pending", "accepted"} => Len(q) = Len(requests[c]) + 1
  BY <1>3
<1> HIDE DEF q
<1>5. requests'[c] = q /\ asked'[c] = asked[c] + 1 BY <1>1, <1>2 DEF ControlTypeOK
<1>6. ControlTypeOK'
  <2>1. requests' \in [Clients -> Seq(Commands)] BY <1>1, <1>2, <1>4 DEF ControlTypeOK
  <2>2. asked' \in [Clients -> Nat] BY <1>1, <1>2, <1>3 DEF ControlTypeOK
  <2> QED BY <1>1, <1>2, <2>1, <2>2 DEF ControlTypeOK
<1>7. Tallied(link[c], q, replies[c], residue[c], asked[c] + 1, answered[c])
  <2>1. Cardinality(Answers(replies[c])) \in Nat BY <1>3, AnswersFinite
  <2>2. ASSUME link[c] \in {"pending", "accepted"}
        PROVE  asked[c] + 1 = Len(q) + Cardinality(Answers(replies[c])) + answered[c]
    <3>1. asked[c] = Len(requests[c]) + Cardinality(Answers(replies[c])) + answered[c]
      BY <1>2, <2>2 DEF Tally, Tallied
    <3>2. Len(q) = Len(requests[c]) + 1 BY <1>4, <2>2
    <3> QED BY <1>3, <2>1, <3>1, <3>2
  <2>3. /\ link[c] = "pending" => replies[c] = <<>>
        /\ link[c] = "accepted" /\ residue[c] =>
             replies[c] # <<>> /\ Head(replies[c]).result = "none"
    BY <1>2 DEF Tally, Tallied
  <2> QED BY <2>2, <2>3 DEF Tallied
<1>8. Tally(c)' BY <1>1, <1>5, <1>7 DEF Tally
<1>9. \A d \in Clients \ {c} : requests'[d] = requests[d] /\ asked'[d] = asked[d]
  BY <1>1, <1>2 DEF ControlTypeOK
<1> QED BY <1>1, <1>6, <1>8, <1>9, OneClientControl

LEMMA ReadAvailableControl ==
  ASSUME NEW c \in Clients, ControlInv, ReadAvailable(c) PROVE ControlInv'
<1> HIDE DEF Commands, Message
<1> DEFINE n2 == IF residue[c] THEN answered[c]
                 ELSE IF Head(replies[c]).result = "none" THEN answered[c] ELSE answered[c] + 1
<1>1. ControlTypeOK /\ Tally(c) BY DEF ControlInv
<1>2. /\ requests[c] \in Seq(Commands) /\ Len(requests[c]) \in Nat
      /\ replies[c] \in Seq(Message) /\ answered[c] \in Nat /\ residue[c] \in BOOLEAN
  BY <1>1, ControlTypes
<1>3. /\ link[c] \in {"accepted", "closing", "dead"} /\ replies[c] # <<>>
      /\ replies' = [replies EXCEPT ![c] = Tail(@)]
      /\ residue' = [residue EXCEPT ![c] = FALSE]
      /\ UNCHANGED <<link, requests, asked>>
  BY DEF ReadAvailable
<1>4. answered' = [answered EXCEPT ![c] = n2]
  <2>1. answered = [answered EXCEPT ![c] = answered[c]] BY <1>1 DEF ControlTypeOK
  <2>2. CASE residue[c] BY <2>1, <2>2 DEF ReadAvailable
  <2>3. CASE ~residue[c] BY <2>3 DEF ReadAvailable
  <2> QED BY <2>2, <2>3
<1>5. n2 \in Nat BY <1>2
<1>6. Tail(replies[c]) \in Seq(Message) BY <1>2, <1>3, AnswersTail
<1>7. replies'[c] = Tail(replies[c]) /\ residue'[c] = FALSE /\ answered'[c] = n2
  BY <1>1, <1>3, <1>4 DEF ControlTypeOK
<1>8. ControlTypeOK'
  <2> HIDE DEF n2
  <2>1. replies' \in [Clients -> Seq(Message)] BY <1>1, <1>3, <1>6 DEF ControlTypeOK
  <2>2. residue' \in [Clients -> BOOLEAN] BY <1>1, <1>3 DEF ControlTypeOK
  <2>3. answered' \in [Clients -> Nat] BY <1>1, <1>4, <1>5 DEF ControlTypeOK
  <2> QED BY <1>1, <1>3, <2>1, <2>2, <2>3 DEF ControlTypeOK
<1>9. Tally(c)'
  <2>1. CASE link[c] = "accepted"
    <3>1. Tallied("accepted", requests[c], Tail(replies[c]), FALSE, asked[c], n2)
      BY <1>1, <1>2, <1>3, <2>1, TalliedRead DEF Tally
    <3> HIDE DEF n2
    <3> QED BY <1>3, <1>7, <2>1, <3>1 DEF Tally
  <2>2. CASE link[c] # "accepted"
    <3>1. link[c] \notin {"pending", "accepted"} /\ link'[c] = link[c] BY <1>3, <2>2
    <3> QED BY <3>1, UntalliedState DEF Tally
  <2> QED BY <2>1, <2>2
<1>10. \A d \in Clients \ {c} :
         replies'[d] = replies[d] /\ residue'[d] = residue[d] /\ answered'[d] = answered[d]
  <2> HIDE DEF n2
  <2> QED BY <1>1, <1>3, <1>4 DEF ControlTypeOK
<1> QED BY <1>3, <1>8, <1>9, <1>10, OneClientControl

(* Connecting, and everything that ends or starts without a connection.    *)
LEMMA LinkControl ==
  ASSUME NEW c \in Clients, ControlInv,
         NEW state \in ControlLinks, link' = [link EXCEPT ![c] = state],
         requests' = requests \/ requests' = [requests EXCEPT ![c] = <<>>],
         replies' = replies \/ replies' = [replies EXCEPT ![c] = <<>>],
         NEW half \in BOOLEAN, residue' = residue \/ residue' = [residue EXCEPT ![c] = half],
         \/ asked' = asked /\ answered' = answered
         \/ asked' = [asked EXCEPT ![c] = 0] /\ answered' = [answered EXCEPT ![c] = 0],
         Tallied(state, requests'[c], replies'[c], residue'[c], asked'[c], answered'[c])
  PROVE  ControlInv'
<1> HIDE DEF Commands, Message
<1>1. ControlTypeOK BY DEF ControlInv
<1>2. ControlTypeOK'
  <2>1. <<>> \in Seq(Commands) /\ <<>> \in Seq(Message) OBVIOUS
  <2>2. link' \in [Clients -> ControlLinks] BY <1>1 DEF ControlTypeOK
  <2>3. requests' \in [Clients -> Seq(Commands)] BY <1>1, <2>1 DEF ControlTypeOK
  <2>4. replies' \in [Clients -> Seq(Message)] BY <1>1, <2>1 DEF ControlTypeOK
  <2>5. residue' \in [Clients -> BOOLEAN] BY <1>1 DEF ControlTypeOK
  <2>6. asked' \in [Clients -> Nat] BY <1>1 DEF ControlTypeOK
  <2>7. answered' \in [Clients -> Nat] BY <1>1, SMTT(30) DEF ControlTypeOK
  <2> QED BY <2>2, <2>3, <2>4, <2>5, <2>6, <2>7 DEF ControlTypeOK
<1>3. link'[c] = state BY <1>1 DEF ControlTypeOK
<1>4. Tally(c)' BY <1>3 DEF Tally
<1>5. \A d \in Clients \ {c} :
           /\ link'[d] = link[d] /\ requests'[d] = requests[d] /\ replies'[d] = replies[d]
           /\ residue'[d] = residue[d] /\ asked'[d] = asked[d] /\ answered'[d] = answered[d]
  BY <1>1 DEF ControlTypeOK
<1> QED BY <1>2, <1>4, <1>5, OneClientControl

LEMMA ConnectControl == ASSUME NEW c \in Clients, ControlInv, Connect(c) PROVE ControlInv'
<1>1. ControlTypeOK BY DEF ControlInv
<1>2. /\ link' = [link EXCEPT ![c] = "pending"] /\ residue' = residue
      /\ requests' = [requests EXCEPT ![c] = <<>>] /\ replies' = [replies EXCEPT ![c] = <<>>]
      /\ asked' = [asked EXCEPT ![c] = 0] /\ answered' = [answered EXCEPT ![c] = 0]
  BY DEF Connect
<1>3. /\ requests'[c] = <<>> /\ replies'[c] = <<>> /\ asked'[c] = 0 /\ answered'[c] = 0
  BY <1>1, <1>2 DEF ControlTypeOK
<1>4. 0 = Len(<<>>) + Cardinality(Answers(<<>>)) + 0 BY AnswersNone
<1>5. Tallied("pending", <<>>, <<>>, residue'[c], 0, 0) BY <1>4 DEF Tallied
<1>6. "pending" \in ControlLinks /\ TRUE \in BOOLEAN BY DEF ControlLinks
<1> QED BY <1>2, <1>3, <1>5, <1>6, LinkControl

LEMMA EndControl ==
  ASSUME NEW c \in Clients, ControlInv,
         RemoveClient(c) \/ ClientStart(c) \/ NoticeClosed(c) \/ ClientStop(c)
  PROVE  ControlInv'
<1>1. ControlTypeOK BY DEF ControlInv
<1>2. residue[c] \in BOOLEAN BY <1>1, ControlTypes
<1>3. PICK state \in {"off", "waiting", "gone"} : link' = [link EXCEPT ![c] = state]
  BY DEF RemoveClient, ClientStart, NoticeClosed, ClientStop
<1>4. requests' = requests \/ requests' = [requests EXCEPT ![c] = <<>>]
  BY DEF RemoveClient, ClientStart, NoticeClosed, ClientStop
<1>5. replies' = replies \/ replies' = [replies EXCEPT ![c] = <<>>]
  BY DEF RemoveClient, ClientStart, NoticeClosed, ClientStop
<1>6. PICK half \in BOOLEAN : residue' = residue \/ residue' = [residue EXCEPT ![c] = half]
  <2>1. CASE RemoveClient(c) \/ ClientStart(c) BY <2>1 DEF RemoveClient, ClientStart
  <2>2. CASE NoticeClosed(c) BY <1>2, <2>2 DEF NoticeClosed
  <2>3. CASE ClientStop(c) BY <2>3 DEF ClientStop
  <2> QED BY <2>1, <2>2, <2>3
<1>7. asked' = asked /\ answered' = answered
  BY DEF RemoveClient, ClientStart, NoticeClosed, ClientStop
<1>8. state \in ControlLinks BY DEF ControlLinks
<1>9. Tallied(state, requests'[c], replies'[c], residue'[c], asked'[c], answered'[c])
  BY UntalliedState
<1> QED BY <1>3, <1>4, <1>5, <1>6, <1>7, <1>8, <1>9, LinkControl

LEMMA ControlInvStep == ControlInv /\ [ControlNext]_controlVars => ControlInv'
<1> SUFFICES ASSUME ControlInv, [ControlNext]_controlVars PROVE ControlInv' OBVIOUS
<1>1. CASE SourceSteps \/ Restart \/ UNCHANGED controlVars
  <2>1. UNCHANGED <<link, requests, replies, residue, asked, answered>>
    BY <1>1 DEF SourceSteps, Restart, controlVars, clientVars
  <2>2. ControlTypeOK' BY <2>1 DEF ControlInv, ControlTypeOK
  <2>3. \A c \in Clients : Tally(c)' BY <2>1 DEF ControlInv, Tally
  <2> QED BY <2>2, <2>3 DEF ControlInv
<1>2. CASE StatusTimer BY <1>2, TimerControl
<1>3. CASE LoggerEnds BY <1>3, LoggerEndsControl
<1>4. CASE \E c \in Clients : Accept(c) \/ ReadClient(c) \/ RemoveClient(c)
  BY <1>4, AcceptControl, ReadClientControl, EndControl
<1>5. CASE \E c \in Clients : ClientStep(c)
  <2>1. PICK c \in Clients : ClientStep(c) BY <1>5
  <2>2. CASE ClientStart(c) \/ NoticeClosed(c) \/ ClientStop(c) BY <2>2, EndControl
  <2>3. CASE Connect(c) BY <2>3, ConnectControl
  <2>4. CASE ReadAvailable(c) BY <2>4, ReadAvailableControl
  <2>5. CASE \E command \in Commands : SendCommand(c, command) BY <2>5, SendControl
  <2> QED BY <2>1, <2>2, <2>3, <2>4, <2>5 DEF ClientStep
<1> QED BY <1>1, <1>2, <1>3, <1>4, <1>5 DEF ControlNext

(* On one connection every command of a client has one answer: it is on    *)
(* its way to the server, its answer is on its way back, or the client has *)
(* got it.  Half a line left by a logger that died costs no answer, as the *)
(* server's greeting comes first.                                          *)
THEOREM CommandsAnsweredOnce == ControlSpec => []EachAnsweredOnce
<1>1. ControlInv => EachAnsweredOnce
  <2> SUFFICES ASSUME ControlInv, NEW c \in Clients, link[c] \in {"pending", "accepted"}
               PROVE  asked[c] = Len(requests[c]) + Count(c) + answered[c]
    BY DEF EachAnsweredOnce
  <2>1. DOMAIN replies[c] = 1 .. Len(replies[c])
    <3>1. replies[c] \in Seq(Message) BY ControlTypes DEF ControlInv
    <3> QED BY <3>1, LenProperties
  <2>2. Count(c) = Cardinality(Answers(replies[c])) BY <2>1 DEF Count, Answers
  <2> QED BY <2>2 DEF ControlInv, Tally, Tallied
<1> QED BY <1>1, ControlInitially, ControlInvStep, PTL DEF ControlSpec
=============================================================================

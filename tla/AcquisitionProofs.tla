------------------------- MODULE AcquisitionProofs -------------------------
(***************************************************************************)
(* Proofs about the health of the sources, the rate of the log and the     *)
(* packets of the VN300 under Acquisition, for any timeout, interval and   *)
(* configurations.                                                         *)
(*                                                                         *)
(* A serial port that is said to be open may have lost its plug.  What     *)
(* makes its health honest is that nothing is read from then on: the last  *)
(* reception is at least as old as the absence.                            *)
(*                                                                         *)
(* That no packet is lost is proved by induction over the buffer that the  *)
(* parser works through: skipping what is no packet, or taking one out,    *)
(* leaves no intact CRC without the packet it closes.                      *)
(***************************************************************************)
EXTENDS Acquisition, TLAPS, WellFoundedInduction, SequenceTheorems

(* Types of what the health is made of. *)
HealthTypeOK ==
  /\ received \in [Sources -> Nat] /\ shown \in [Sources -> BOOLEAN]
  /\ away \in Nat
  /\ port \in {"serial", "local"} /\ reconnect \in BOOLEAN

(* Without a connection nothing is there to be read; a serial port is not  *)
(* connected again.                                                        *)
LineInv ==
  /\ link # "on" => flight = <<>>
  /\ port = "serial" => ~reconnect
  /\ port = "serial" => IF link = "on" THEN away = 0 ELSE away <= received["vn300"]

Inv == HealthTypeOK /\ LineInv /\ HealthHonest

-----------------------------------------------------------------------------
(* Ages *)

(* Never is later than the time-out. *)
LEMMA NeverType == Never \in Nat /\ Timeout \in Nat /\ Timeout < Never
BY AcquisitionAssumption DEF Never

(* Growing older keeps the order of two ages. *)
LEMMA OlderType ==
  ASSUME NEW a \in Nat, NEW b \in Nat, b <= a
  PROVE  Older(a) \in Nat /\ Older(b) \in Nat /\ Older(b) <= Older(a)
<1> HIDE DEF Never
<1> QED BY NeverType DEF Older

-----------------------------------------------------------------------------
(* The invariant *)

(* At first nothing is shown to be healthy. *)
LEMMA InitInv == Init => Inv
<1> SUFFICES ASSUME Init PROVE Inv OBVIOUS
<1> HIDE DEF Never
<1> USE NeverType DEF Init, StreamInit
<1>1. HealthTypeOK BY DEF HealthTypeOK
<1>2. LineInv BY DEF LineInv
<1>3. HealthHonest BY DEF HealthHonest, Sources
<1> QED BY <1>1, <1>2, <1>3 DEF Inv

(* A frame of the bus makes the CAN source younger. *)
LEMMA CanFrameStep ==
  ASSUME Inv, NEW outcome, CanFrame(outcome)
  PROVE  Inv'
<1> USE NeverType DEF Inv, CanFrame, streamVars
<1>1. /\ received' \in [Sources -> Nat]
      /\ received'["can"] = 0 /\ received'["vn300"] = received["vn300"]
  BY DEF HealthTypeOK, Sources
<1>2. HealthTypeOK' BY <1>1 DEF HealthTypeOK
<1>3. LineInv' BY <1>1 DEF LineInv
<1>4. HealthHonest' BY <1>1 DEF HealthHonest, Sources
<1> QED BY <1>2, <1>3, <1>4

(* The VN300 is younger only when something was read, on a line that is    *)
(* there. *)
LEMMA ReadStep == ASSUME Inv, Vn300Read PROVE Inv'
<1>1. PICK k \in 1 .. Len(flight) :
        /\ flight' = SubSeq(flight, k + 1, Len(flight))
        /\ \E reading \in {Consume(buffer \o SubSeq(flight, 1, k))} :
             /\ ReadAvailable(k, reading)
             /\ received' = IF reading.out = <<>> THEN received
                            ELSE [received EXCEPT !["vn300"] = 0]
  BY DEF Vn300Read
<1>2. link = "on"
  <2>1. Len(<<>>) = 0 OBVIOUS
  <2>2. flight # <<>> BY <1>1, <2>1
  <2> QED BY <2>2 DEF Inv, LineInv
<1>3. /\ received' \in [Sources -> Nat]
      /\ received'["can"] = received["can"]
      /\ received'["vn300"] = received["vn300"] \/ received'["vn300"] = 0
  BY <1>1 DEF Inv, HealthTypeOK, Sources
<1>4. UNCHANGED <<port, link, reconnect, away, shown>>
  BY <1>1 DEF Vn300Read, ReadAvailable
<1>5. HealthTypeOK' BY <1>3, <1>4 DEF Inv, HealthTypeOK
<1>6. LineInv' BY <1>2, <1>4 DEF Inv, LineInv
<1>7. HealthHonest' BY <1>3, <1>4, NeverType DEF Inv, HealthTypeOK, HealthHonest, Sources
<1> QED BY <1>5, <1>6, <1>7 DEF Inv

(* A break of the line starts the absence from zero. *)
LEMMA LineStep == ASSUME Inv, Vn300Step PROVE Inv'
<1> USE DEF Inv, Vn300Step, healthVars
<1>1. HealthTypeOK' /\ LineInv'
  <2> USE DEF HealthTypeOK, LineInv, Sources
  <2>1. CASE \E packet \in Intact \cup Corrupt \cup Mutilated : Send(packet)
    BY <2>1 DEF Send
  <2>2. CASE LinkBreaks BY <2>2 DEF LinkBreaks
  <2>3. CASE SimulatorStarts BY <2>3 DEF SimulatorStarts
  <2>4. CASE ConnectToServer BY <2>4 DEF ConnectToServer
  <2> QED BY <2>1, <2>2, <2>3, <2>4
<1>2. HealthHonest' BY DEF HealthHonest
<1> QED BY <1>1, <1>2

(* The tick makes both older together, and shows what it finds. *)
LEMMA TickStep == ASSUME Inv, HealthTick PROVE Inv'
<1> HIDE DEF Never
<1> USE DEF Inv, HealthTick, streamVars
<1>1. /\ received["can"] \in Nat /\ received["vn300"] \in Nat /\ away \in Nat
      /\ UNCHANGED <<port, link, reconnect, flight>>
  BY DEF HealthTypeOK, Sources
<1>2. \A a \in Nat : Older(a) \in Nat BY NeverType DEF Older
<1>3. /\ received'["can"] = Older(received["can"])
      /\ received'["vn300"] = Older(received["vn300"])
  BY DEF Sources
<1>4. /\ shown'["can"] = (canUp /\ received'["can"] <= Timeout)
      /\ shown'["vn300"] = (Vn300Connected' /\ received'["vn300"] <= Timeout)
  BY <1>1 DEF Healthy, Vn300Connected
<1>5. HealthTypeOK'
  <2>1. received' \in [Sources -> Nat] BY <1>1, <1>2 DEF HealthTypeOK, Sources
  <2>2. shown' \in [Sources -> BOOLEAN]
    <3> DEFINE can == Healthy(canUp, received'["can"])
               vn300 == Healthy(Vn300Connected, received'["vn300"])
    <3>1. can \in BOOLEAN /\ vn300 \in BOOLEAN BY Zenon DEF Healthy
    <3>2. shown' = [can |-> can, vn300 |-> vn300] OBVIOUS
    <3> HIDE DEF can, vn300
    <3> QED BY <3>1, <3>2 DEF Sources
  <2>3. away' \in Nat BY <1>1, <1>2
  <2> QED BY <1>1, <2>1, <2>2, <2>3 DEF HealthTypeOK
<1>6. LineInv'
  <2>1. CASE link = "on" BY <1>1, <2>1 DEF LineInv
  <2>2. CASE link # "on"
    <3>1. port = "serial" => Older(away) <= Older(received["vn300"])
      BY <1>1, <2>2, OlderType DEF LineInv
    <3> QED BY <1>1, <1>3, <2>2, <3>1 DEF LineInv
  <2> QED BY <2>1, <2>2
<1>7. HealthHonest'
  <2>1. \A s \in Sources : shown'[s] => received'[s] <= Timeout BY <1>4 DEF Sources
  <2>2. ASSUME away' > Timeout, shown'["vn300"] PROVE FALSE
    <3>1. link' # "on" BY <1>1, <2>2, NeverType
    <3>2. port' = "serial" /\ received'["vn300"] <= Timeout
      BY <1>4, <2>2, <3>1 DEF Vn300Connected
    <3>3. away' <= received'["vn300"] BY <1>6, <3>1, <3>2 DEF LineInv
    <3> QED BY <1>1, <1>2, <1>3, <2>2, <3>2, <3>3, NeverType, <1>5 DEF HealthTypeOK
  <2> QED BY <2>1, <2>2 DEF HealthHonest
<1> QED BY <1>5, <1>6, <1>7

(* The end of the process forgets all of it. *)
LEMMA ResetStep == ASSUME Inv, ProcessReset PROVE Inv'
<1> HIDE DEF Never
<1> USE NeverType DEF Inv, ProcessReset, StreamReset
<1>1. HealthTypeOK' BY DEF HealthTypeOK
<1>2. LineInv' BY DEF HealthTypeOK, LineInv
<1>3. HealthHonest' BY DEF HealthHonest
<1> QED BY <1>1, <1>2, <1>3

(* The other steps touch none of it. *)
LEMMA RestStep ==
  ASSUME Inv, UNCHANGED <<received, shown, away, port, link, reconnect, flight>>
  PROVE  Inv'
BY DEF Inv, HealthTypeOK, LineInv, HealthHonest

(* The invariant is inductive. *)
LEMMA NextInv == Inv /\ [Next]_vars => Inv'
<1> SUFFICES ASSUME Inv, [Next]_vars PROVE Inv' OBVIOUS
<1> USE DEF streamVars, healthVars
<1>1. CASE \E outcome \in {"held", "recorded", "refused", "undecoded"} : CanFrame(outcome)
  BY <1>1, CanFrameStep
<1>2. CASE Vn300Read BY <1>2, ReadStep
<1>3. CASE Vn300Step BY <1>3, LineStep
<1>4. CASE HealthTick BY <1>4, TickStep
<1>5. CASE Fails \/ Poll BY <1>5, ResetStep DEF Fails, Poll
<1>6. CASE CanLost \/ Ready \/ Terminate \/ Restart
  BY <1>6, RestStep DEF CanLost, Ready, Terminate, Restart
<1>7. CASE UNCHANGED vars BY <1>7, RestStep DEF vars
<1> QED BY <1>1, <1>2, <1>3, <1>4, <1>5, <1>6, <1>7 DEF Next

-----------------------------------------------------------------------------
(* The dash is not told that a source is healthy when nothing of it was    *)
(* received, or nothing could be, for longer than the timeout: for every   *)
(* timeout, also beside a serial port that stays open without its plug     *)
(* (SourceHealthMonitor).                                                  *)
THEOREM HealthIsHonest == Spec => []HealthHonest
<1>1. Inv => HealthHonest BY DEF Inv
<1> QED BY <1>1, InitInv, NextInv, PTL DEF Spec
-----------------------------------------------------------------------------
(* The rate of the log *)

(* The schedule of the signal and its last record have the same age,       *)
(* unless the queue refused what was scheduled; the process begins without *)
(* either, and runs with a configuration that was loaded.                  *)
RateInv ==
  /\ logged \in Nat /\ record \in [age : Nat, refused : BOOLEAN]
  /\ logged <= record.age
  /\ ~record.refused => logged = record.age
  /\ config \in Configs
  /\ phase = "ready" => Loadable(config)

(* A signal is in a group of the configuration. *)
LEMMA GroupType ==
  ASSUME RateInv, phase = "ready" PROVE Group \in {"native", "off", "rate"}
<1>1. config.default \in config.groups BY DEF RateInv, Loadable
<1>2. ASSUME Signal \in DOMAIN config.signals
      PROVE  config.signals[Signal] \in config.groups
  BY <1>2 DEF RateInv, Loadable
<1>3. config.groups \subseteq {"native", "off", "rate"} BY ConfigsAssumption DEF RateInv
<1> QED BY <1>1, <1>2, <1>3 DEF Group

(* What a sample does to the schedule and to the record. *)
LEMMA SampleStep ==
  ASSUME RateInv, NEW outcome \in {"held", "recorded", "refused"}, LogSample(outcome),
         UNCHANGED <<config, phase>>
  PROVE  RateInv'
<1>1. CASE Group # "rate"
  <2>1. UNCHANGED <<logged, record>> BY <1>1 DEF LogSample
  <2> QED BY <2>1 DEF RateInv, Loadable
<1>2. CASE Group = "rate" /\ outcome = "held"
  <2>1. UNCHANGED <<logged, record>> BY <1>2 DEF LogSample
  <2> QED BY <2>1 DEF RateInv, Loadable
<1>3. CASE Group = "rate" /\ outcome = "recorded"
  <2>1. logged' = 0 /\ record' = [age |-> 0, refused |-> FALSE]
    BY <1>3 DEF LogSample
  <2> QED BY <2>1 DEF RateInv, Loadable
<1>4. CASE Group = "rate" /\ outcome = "refused"
  <2>1. logged' = 0 /\ record' = [record EXCEPT !.refused = TRUE]
    BY <1>4 DEF LogSample
  <2>2. /\ record' \in [age : Nat, refused : BOOLEAN]
        /\ record'.refused = TRUE /\ record'.age \in Nat
    BY <2>1 DEF RateInv
  <2> QED BY <2>1, <2>2 DEF RateInv, Loadable
<1> QED BY <1>1, <1>2, <1>3, <1>4

(* The invariant is inductive. *)
LEMMA RateInductive == (Init => RateInv) /\ (RateInv /\ [Next]_vars => RateInv')
<1> HIDE DEF Never
<1>1. Init => RateInv BY NeverType DEF Init, RateInv
<1>2. ASSUME RateInv, [Next]_vars PROVE RateInv'
  <2> USE DEF logVars, processVars, Loadable
  <2>1. ASSUME NEW outcome \in {"held", "recorded", "refused", "undecoded"}, CanFrame(outcome)
        PROVE  RateInv'
    <3>1. CASE outcome = "undecoded" BY <1>2, <2>1, <3>1 DEF CanFrame, RateInv
    <3>2. CASE outcome # "undecoded" BY <1>2, <2>1, <3>2, SampleStep DEF CanFrame
    <3> QED BY <3>1, <3>2
  <2>2. CASE CanLost \/ Vn300Read \/ Vn300Step \/ Terminate
    BY <1>2, <2>2 DEF CanLost, Vn300Read, Vn300Step, Terminate, RateInv
  <2>3. CASE HealthTick
    <3>1. /\ logged' = Older(logged) /\ record' = [record EXCEPT !.age = Older(@)]
          /\ UNCHANGED processVars
      BY <2>3 DEF HealthTick
    <3>2. Older(logged) \in Nat /\ Older(record.age) \in Nat /\ Older(logged) <= Older(record.age)
      BY <1>2, OlderType DEF RateInv
    <3> QED BY <1>2, <3>1, <3>2 DEF RateInv
  <2>4. CASE Ready BY <1>2, <2>4 DEF Ready, RateInv
  <2>5. CASE Fails \/ Poll
    <3>1. /\ logged' = Never /\ record' = [age |-> Never, refused |-> FALSE]
          /\ phase' # "ready" /\ UNCHANGED config
      BY <2>5 DEF Fails, Poll, ProcessReset
    <3> QED BY <1>2, <3>1, NeverType DEF RateInv
  <2>6. CASE Restart BY <1>2, <2>6 DEF Restart, RateInv
  <2>7. CASE UNCHANGED vars BY <1>2, <2>7 DEF vars, RateInv
  <2> QED BY <1>2, <2>1, <2>2, <2>3, <2>4, <2>5, <2>6, <2>7 DEF Next
<1> QED BY <1>1, <1>2

(* Two records of a signal in a rate group are never closer than its       *)
(* interval, and nothing is held back for longer unless the queue refused: *)
(* for every interval and configuration (DecodedLogPolicy::shouldLog).     *)
THEOREM LogKeepsRate == Spec => LoggedAtRate
<1> DEFINE Step == /\ Group = "rate" /\ CanFrame("recorded") => record.age >= Interval
                   /\ CanFrame("held") =>
                        Group = "off" \/ (Group = "rate" /\ (record.age < Interval \/ record.refused))
<1>1. ASSUME RateInv PROVE Step
  <2>1. ASSUME Group = "rate", CanFrame("recorded") PROVE record.age >= Interval
    <3>1. ShouldLog BY <2>1 DEF CanFrame, LogSample
    <3>2. logged >= Interval BY <2>1, <3>1 DEF ShouldLog
    <3> QED BY <1>1, <3>2, AcquisitionAssumption DEF RateInv
  <2>2. ASSUME CanFrame("held")
        PROVE  Group = "off" \/ (Group = "rate" /\ (record.age < Interval \/ record.refused))
    <3>1. phase = "ready" /\ ~ShouldLog BY <2>2 DEF CanFrame, LogSample
    <3>2. Group \in {"native", "off", "rate"} BY <1>1, <3>1, GroupType
    <3>3. Group # "native" /\ (Group = "rate" => ~(logged >= Interval)) BY <3>1 DEF ShouldLog
    <3> QED BY <1>1, <3>2, <3>3, AcquisitionAssumption DEF RateInv
  <2> QED BY <2>1, <2>2
<1>2. RateInv => [Step]_vars BY <1>1
<1> QED BY <1>2, RateInductive, PTL DEF Spec, LoggedAtRate
-----------------------------------------------------------------------------
(* Functions that are defined by recursion over a sequence *)

(* A set of natural numbers has a least element. *)
LEMMA LeastElement ==
  ASSUME NEW T \in SUBSET Nat, T # {}
  PROVE  \E m \in T : \A k \in T : m <= k
<1> DEFINE R == OpToRel(<, Nat)
<1>1. IsWellFoundedOn(R, Nat) BY NatLessThanWellFounded
<1>2. ASSUME NEW x \in T, NEW y \in T, y < x PROVE <<y, x>> \in R
  BY <1>2 DEF OpToRel
<1> HIDE DEF R
<1>3. PICK x \in T : \A y \in T : ~(<<y, x>> \in R) BY <1>1, WFMin
<1>4. \A y \in T : ~(y < x) BY <1>2, <1>3
<1> QED BY <1>4

(* Induction, for a set. *)
LEMMA SetInduction ==
  ASSUME NEW S \in SUBSET Nat, 0 \in S, \A n \in S : n + 1 \in S
  PROVE  S = Nat
<1> SUFFICES ASSUME Nat \ S # {} PROVE FALSE OBVIOUS
<1>1. PICK m \in Nat \ S : \A k \in Nat \ S : m <= k BY LeastElement
<1>2. m # 0 OBVIOUS
<1>3. m - 1 \in Nat /\ m - 1 \notin Nat \ S BY <1>1, <1>2
<1> QED BY <1>3

(* There is a function that stops where it is told to, and else goes on    *)
(* with a shorter sequence.                                                *)
Shortens(stop, next) ==
  \A b \in Seq(Symbols) : ~stop[b] => Len(next[b]) < Len(b)
Solves(f, stop, next, base, comb) ==
  \A b \in Seq(Symbols) : f[b] = IF stop[b] THEN base[b] ELSE comb[b][f[next[b]]]

LEMMA Recursion ==
  ASSUME NEW V,
         NEW stop \in [Seq(Symbols) -> BOOLEAN], NEW next \in [Seq(Symbols) -> Seq(Symbols)],
         NEW base \in [Seq(Symbols) -> V], NEW comb \in [Seq(Symbols) -> [V -> V]],
         Shortens(stop, next)
  PROVE  \E f \in [Seq(Symbols) -> V] : Solves(f, stop, next, base, comb)
<1> DEFINE S == Symbols
           Short(n) == {b \in Seq(S) : Len(b) <= n}
           Body(f, b) == IF stop[b] THEN base[b] ELSE comb[b][f[next[b]]]
           Sol(f, n) == f \in [Short(n) -> V] /\ \A b \in Short(n) : f[b] = Body(f, b)
           E == {n \in Nat : \E f : Sol(f, n)}
<1> HIDE DEF S
<1>0. \A b \in Seq(S) : ~stop[b] => Len(next[b]) < Len(b) BY DEF Shortens, S
<1>1. \A b \in Seq(S) : Len(b) \in Nat OBVIOUS
<1>2. \A b \in Seq(S) : next[b] \in Seq(S) /\ base[b] \in V BY DEF S
<1>3. \A b \in Seq(S), v \in V : comb[b][v] \in V BY DEF S
<1>4. E = Nat
  <2>1. 0 \in E
    <3> DEFINE f == [b \in Short(0) |-> base[b]]
    <3>1. \A b \in Short(0) : stop[b]
      <4> SUFFICES ASSUME NEW b \in Short(0), ~stop[b] PROVE FALSE OBVIOUS
      <4>1. b \in Seq(S) /\ Len(b) <= 0 OBVIOUS
      <4>2. Len(next[b]) < Len(b) BY <1>0, <4>1
      <4>3. Len(next[b]) \in Nat /\ Len(b) \in Nat BY <1>1, <1>2, <4>1
      <4> QED BY <4>1, <4>2, <4>3
    <3>2. Sol(f, 0) BY <1>2, <3>1
    <3> QED BY <3>2
  <2>2. ASSUME NEW n \in E PROVE n + 1 \in E
    <3>1. n \in Nat /\ \E f : Sol(f, n) OBVIOUS
    <3>2. PICK f : Sol(f, n) BY <3>1
    <3> DEFINE g == [b \in Short(n + 1) |-> IF Len(b) <= n THEN f[b] ELSE Body(f, b)]
    <3>3. ASSUME NEW b \in Short(n + 1)
          PROVE  g[b] \in V /\ g[b] = Body(g, b)
      <4>1. b \in Seq(S) /\ Len(b) \in Nat BY <1>1
      <4>2. g[b] = Body(f, b)
        <5>1. CASE Len(b) <= n
          <6>1. b \in Short(n) BY <5>1
          <6>2. g[b] = f[b] BY <5>1
          <6> QED BY <3>2, <6>1, <6>2
        <5>2. CASE ~(Len(b) <= n) BY <5>2
        <5> QED BY <5>1, <5>2
      <4>3. CASE stop[b]
        <5>1. g[b] = base[b] BY <4>2, <4>3
        <5> HIDE DEF g
        <5> QED BY <1>2, <4>1, <4>3, <5>1
      <4>4. CASE ~stop[b]
        <5> DEFINE c == next[b]
        <5>1. c \in Seq(S) /\ Len(c) \in Nat /\ Len(c) < Len(b) BY <1>0, <1>1, <1>2, <4>1, <4>4
        <5>2. Len(b) <= n + 1 OBVIOUS
        <5>3. Len(c) <= n BY <3>1, <4>1, <5>1, <5>2
        <5>4. c \in Short(n) /\ c \in Short(n + 1) BY <3>1, <5>1, <5>3
        <5>5. g[c] = f[c] /\ f[c] \in V BY <3>2, <5>3, <5>4
        <5>6. g[b] = comb[b][f[c]] BY <4>2, <4>4
        <5> HIDE DEF g, c
        <5>7. comb[b][f[c]] \in V BY <1>3, <4>1, <5>5
        <5> QED BY <4>4, <5>5, <5>6, <5>7 DEF c
      <4> QED BY <4>3, <4>4
    <3>4. g \in [Short(n + 1) -> V] BY <3>3
    <3> HIDE DEF g, Short, Body
    <3>5. Sol(g, n + 1) BY <3>3, <3>4
    <3>6. \E h : Sol(h, n + 1)
      <4> HIDE DEF Sol
      <4> QED BY <3>5
    <3>7. n + 1 \in Nat BY <3>1
    <3> HIDE DEF Sol
    <3> QED BY <3>6, <3>7
  <2> HIDE DEF E
  <2> QED BY <2>1, <2>2, SetInduction DEF E
<1> DEFINE F == [n \in Nat |-> CHOOSE f : Sol(f, n)]
<1>5. \A n \in Nat : Sol(F[n], n)
  <2> TAKE n \in Nat
  <2> HIDE DEF Sol
  <2>1. \E f : Sol(f, n) BY <1>4
  <2> QED BY <2>1
<1> HIDE DEF F, E
<1>6. ASSUME NEW n \in Nat, NEW b \in Seq(S), Len(b) <= n
      PROVE  F[n][b] \in V /\ F[n][b] = Body(F[n], b)
  <2>1. b \in Short(n) BY <1>6
  <2> HIDE DEF Short, Body
  <2> QED BY <1>5, <2>1
<1> DEFINE T == {n \in Nat : \A b \in Seq(S) : Len(b) <= n =>
                               \A m \in Nat : Len(b) <= m => F[m][b] = F[Len(b)][b]}
<1> HIDE DEF Sol
<1>7. T = Nat
  <2>1. ASSUME NEW n \in Nat, NEW b \in Seq(S), NEW m \in Nat, Len(b) <= m,
               \A c \in Seq(S) : Len(c) < Len(b) =>
                 \A k \in Nat : Len(c) <= k => F[k][c] = F[Len(c)][c]
        PROVE  F[m][b] = F[Len(b)][b]
    <3>1. Len(b) \in Nat /\ Len(b) <= Len(b) BY <1>1
    <3>2. F[m][b] = Body(F[m], b) BY <1>6, <2>1
    <3>3. F[Len(b)][b] = Body(F[Len(b)], b) BY <1>6, <3>1
    <3>4. CASE stop[b] BY <3>2, <3>3, <3>4
    <3>5. CASE ~stop[b]
      <4> DEFINE c == next[b]
      <4>1. c \in Seq(S) /\ Len(c) \in Nat /\ Len(c) < Len(b) BY <1>0, <1>1, <1>2, <3>5
      <4>2. Len(c) <= m /\ Len(c) <= Len(b) BY <2>1, <3>1, <4>1
      <4> HIDE DEF c
      <4>3. F[m][c] = F[Len(c)][c] /\ F[Len(b)][c] = F[Len(c)][c]
        BY <2>1, <3>1, <4>1, <4>2
      <4> QED BY <3>2, <3>3, <3>5, <4>3 DEF c
    <3> QED BY <3>4, <3>5
  <2>2. 0 \in T
    <3> SUFFICES ASSUME NEW b \in Seq(S), Len(b) <= 0, NEW m \in Nat, Len(b) <= m
                 PROVE  F[m][b] = F[Len(b)][b]
      OBVIOUS
    <3>1. \A c \in Seq(S) : ~(Len(c) < Len(b)) BY <1>1
    <3> QED BY <2>1, <3>1
  <2>3. ASSUME NEW n \in T PROVE n + 1 \in T
    <3> SUFFICES ASSUME NEW b \in Seq(S), Len(b) <= n + 1, NEW m \in Nat, Len(b) <= m
                 PROVE  F[m][b] = F[Len(b)][b]
      OBVIOUS
    <3>1. n \in Nat OBVIOUS
    <3>2. \A c \in Seq(S) : Len(c) < Len(b) =>
            \A k \in Nat : Len(c) <= k => F[k][c] = F[Len(c)][c]
      <4> TAKE c \in Seq(S)
      <4>1. Len(c) < Len(b) => Len(c) <= n BY <1>1, <3>1
      <4> QED BY <4>1
    <3> QED BY <2>1, <3>1, <3>2
  <2> HIDE DEF T
  <2> QED BY <2>2, <2>3, SetInduction DEF T
<1> DEFINE h == [b \in Seq(S) |-> F[Len(b)][b]]
<1>8. ASSUME NEW b \in Seq(S) PROVE h[b] \in V /\ h[b] = Body(h, b)
  <2>1. Len(b) \in Nat /\ Len(b) <= Len(b) BY <1>1
  <2>2. h[b] = F[Len(b)][b] OBVIOUS
  <2>3. h[b] \in V /\ h[b] = Body(F[Len(b)], b) BY <1>6, <2>1, <2>2
  <2>4. CASE stop[b] BY <2>3, <2>4
  <2>5. CASE ~stop[b]
    <3> DEFINE c == next[b]
    <3>1. c \in Seq(S) /\ Len(c) \in Nat /\ Len(c) < Len(b) BY <1>0, <1>1, <1>2, <2>5
    <3>2. Len(c) <= Len(b) BY <2>1, <3>1
    <3>3. h[c] = F[Len(c)][c] BY <3>1
    <3>4. F[Len(b)][c] = F[Len(c)][c]
      <4> HIDE DEF c
      <4>1. Len(c) \in T
        <5> HIDE DEF T
        <5> QED BY <1>7, <3>1
      <4>2. \A a \in Seq(S) : Len(a) <= Len(c) =>
              \A m \in Nat : Len(a) <= m => F[m][a] = F[Len(a)][a]
        BY <4>1
      <4>3. Len(c) <= Len(c) BY <3>1
      <4> QED BY <2>1, <3>1, <3>2, <4>2, <4>3
    <3> HIDE DEF h, c
    <3> QED BY <2>3, <2>5, <3>3, <3>4 DEF c
  <2> QED BY <2>3, <2>4, <2>5
<1>9. h \in [Seq(S) -> V] BY <1>8
<1> HIDE DEF h
<1> QED BY <1>8, <1>9 DEF Solves, S
-----------------------------------------------------------------------------
(* The parser *)

Payloads == Seq(Seq(Symbols))
Readings == [left : Seq(Symbols), out : Payloads]

LEMMA AlphabetIs ==
  /\ PayloadOf["plain"] = <<"x", "x">> /\ PayloadOf["trap"] = <<"fa", "long">>
  /\ CrcOf["plain"] = "crcPlain" /\ CrcOf["trap"] = "crcTrap"
  /\ \A kind \in Kinds : PayloadOf[kind] \in Seq(Symbols) /\ Len(PayloadOf[kind]) = 2
  /\ DOMAIN Completes = {"crcPlain", "crcTrap"}
  /\ \A crc \in DOMAIN Completes : Completes[crc] \in Payloads
  /\ \A kind \in Kinds : Completes[CrcOf[kind]] = <<PayloadOf[kind]>>
<1>1. /\ PayloadOf["plain"] = <<"x", "x">> /\ PayloadOf["trap"] = <<"fa", "long">>
      /\ CrcOf["plain"] = "crcPlain" /\ CrcOf["trap"] = "crcTrap"
  BY DEF PayloadOf, CrcOf
<1>2. <<"x", "x">> \in Seq(Symbols) /\ <<"fa", "long">> \in Seq(Symbols)
  BY DEF Symbols
<1>3. \A kind \in Kinds : PayloadOf[kind] \in Seq(Symbols) /\ Len(PayloadOf[kind]) = 2
  <2>1. Len(<<"x", "x">>) = 2 /\ Len(<<"fa", "long">>) = 2 OBVIOUS
  <2>2. ASSUME NEW kind \in Kinds
        PROVE  PayloadOf[kind] = <<"x", "x">> \/ PayloadOf[kind] = <<"fa", "long">>
    BY <1>1 DEF Kinds
  <2> QED BY <1>2, <2>1, <2>2
<1>4. /\ DOMAIN Completes = {"crcPlain", "crcTrap"}
      /\ Completes["crcPlain"] = <<PayloadOf["plain"]>>
      /\ Completes["crcTrap"] = <<PayloadOf["trap"]>>
  BY DEF Completes
<1>5. \A crc \in DOMAIN Completes : Completes[crc] \in Payloads
  <2>1. PayloadOf["plain"] \in Seq(Symbols) /\ PayloadOf["trap"] \in Seq(Symbols)
    BY <1>3 DEF Kinds
  <2>2. <<PayloadOf["plain"]>> \in Payloads /\ <<PayloadOf["trap"]>> \in Payloads
    BY <2>1 DEF Payloads
  <2> QED BY <1>4, <2>2
<1>6. \A kind \in Kinds : Completes[CrcOf[kind]] = <<PayloadOf[kind]>>
  BY <1>1, <1>4 DEF Kinds
<1> QED BY <1>1, <1>3, <1>4, <1>5, <1>6

(* The payload a symbol completes. *)
Ends(symbol) == IF symbol \in DOMAIN Completes THEN Completes[symbol] ELSE <<>>

LEMMA EndsType == \A symbol : Ends(symbol) \in Payloads
BY AlphabetIs DEF Ends, Payloads

LEMMA CompletedIs ==
  ASSUME NEW s \in Seq(Symbols)
  PROVE  /\ CompletedBy[s] \in Payloads
         /\ CompletedBy[s] = IF s = <<>> THEN <<>> ELSE Ends(s[1]) \o CompletedBy[Tail(s)]
<1> DEFINE G(f) == [b \in Seq(Symbols) |->
             IF b = <<>> THEN <<>>
             ELSE (IF b[1] \in DOMAIN Completes THEN Completes[b[1]] ELSE <<>>) \o f[Tail(b)]]
           stop == [b \in Seq(Symbols) |-> b = <<>>]
           next == [b \in Seq(Symbols) |-> IF b = <<>> THEN b ELSE Tail(b)]
           base == [b \in Seq(Symbols) |-> <<>>]
           comb == [b \in Seq(Symbols) |-> [v \in Payloads |-> Ends(b[1]) \o v]]
<1>1. \A b \in Seq(Symbols) : b # <<>> =>
        Tail(b) \in Seq(Symbols) /\ Len(Tail(b)) = Len(b) - 1 /\ Len(b) \in Nat
  OBVIOUS
<1>2. /\ stop \in [Seq(Symbols) -> BOOLEAN] /\ next \in [Seq(Symbols) -> Seq(Symbols)]
      /\ base \in [Seq(Symbols) -> Payloads] /\ comb \in [Seq(Symbols) -> [Payloads -> Payloads]]
  <2>1. stop \in [Seq(Symbols) -> BOOLEAN] OBVIOUS
  <2>2. next \in [Seq(Symbols) -> Seq(Symbols)] BY <1>1
  <2>3. base \in [Seq(Symbols) -> Payloads] BY DEF Payloads
  <2>4. \A b \in Seq(Symbols), v \in Payloads : Ends(b[1]) \o v \in Payloads
    <3> SUFFICES ASSUME NEW b \in Seq(Symbols), NEW v \in Payloads
                 PROVE  Ends(b[1]) \o v \in Payloads
      OBVIOUS
    <3>1. Ends(b[1]) \in Payloads BY EndsType
    <3> QED BY <3>1 DEF Payloads
  <2>5. comb \in [Seq(Symbols) -> [Payloads -> Payloads]] BY <2>4
  <2> QED BY <2>1, <2>2, <2>3, <2>5
<1>3. \A b \in Seq(Symbols) : ~stop[b] => Len(next[b]) < Len(b)
  <2> SUFFICES ASSUME NEW b \in Seq(Symbols), ~stop[b] PROVE Len(next[b]) < Len(b)
    OBVIOUS
  <2>1. b # <<>> OBVIOUS
  <2>2. next[b] = Tail(b) BY <2>1
  <2> HIDE DEF next, stop
  <2> QED BY <1>1, <2>1, <2>2
<1>4. \E f \in [Seq(Symbols) -> Payloads] : Solves(f, stop, next, base, comb)
  <2>1. stop \in [Seq(Symbols) -> BOOLEAN] BY <1>2
  <2>2. next \in [Seq(Symbols) -> Seq(Symbols)] BY <1>2
  <2>3. base \in [Seq(Symbols) -> Payloads] BY <1>2
  <2>4. comb \in [Seq(Symbols) -> [Payloads -> Payloads]] BY <1>2
  <2> HIDE DEF stop, next, base, comb
  <2>5. Shortens(stop, next) BY <1>3 DEF Shortens
  <2> QED BY ONLY <2>1, <2>2, <2>3, <2>4, <2>5, Recursion
<1>5. PICK f \in [Seq(Symbols) -> Payloads] :
        \A b \in Seq(Symbols) :
          f[b] = IF stop[b] THEN base[b] ELSE comb[b][f[next[b]]]
  BY <1>4 DEF Solves
<1>6. ASSUME NEW b \in Seq(Symbols)
      PROVE  f[b] = IF b = <<>> THEN <<>> ELSE Ends(b[1]) \o f[Tail(b)]
  <2>1. CASE b = <<>> BY <1>5, <2>1
  <2>2. CASE b # <<>>
    <3>1. Tail(b) \in Seq(Symbols) /\ f[Tail(b)] \in Payloads BY <1>1, <2>2
    <3>2. stop[b] = FALSE /\ next[b] = Tail(b) BY <2>2
    <3>3. f[b] = comb[b][f[Tail(b)]] BY <1>5, <3>2
    <3>4. comb[b][f[Tail(b)]] = Ends(b[1]) \o f[Tail(b)] BY <3>1
    <3> QED BY <2>2, <3>3, <3>4
  <2> QED BY <2>1, <2>2
<1>7. f = G(f) BY <1>6 DEF Ends
<1>8. \E g : g = G(g) BY <1>7
<1>9. CompletedBy = CHOOSE g : g = G(g) BY DEF CompletedBy
<1>10. CompletedBy = G(CompletedBy) BY <1>8, <1>9
<1> DEFINE c == CompletedBy
<1> HIDE DEF c
<1>11. \A b \in Seq(Symbols) : c[b] = IF b = <<>> THEN <<>> ELSE Ends(b[1]) \o c[Tail(b)]
  BY <1>10 DEF Ends, c
<1>12. c[s] \in Payloads
  <2> DEFINE T == {n \in Nat : \A b \in Seq(Symbols) : Len(b) = n => c[b] \in Payloads}
  <2>1. 0 \in T
    <3> SUFFICES ASSUME NEW b \in Seq(Symbols), Len(b) = 0 PROVE c[b] \in Payloads OBVIOUS
    <3>1. b = <<>> OBVIOUS
    <3>2. c[b] = <<>> BY <1>11, <3>1
    <3> QED BY <3>2 DEF Payloads
  <2>2. ASSUME NEW n \in T PROVE n + 1 \in T
    <3> SUFFICES ASSUME NEW b \in Seq(Symbols), Len(b) = n + 1 PROVE c[b] \in Payloads
      OBVIOUS
    <3>1. n \in Nat /\ b # <<>> OBVIOUS
    <3>2. Tail(b) \in Seq(Symbols) /\ Len(Tail(b)) = n BY <1>1, <3>1
    <3>3. c[Tail(b)] \in Payloads BY <3>2
    <3>4. Ends(b[1]) \in Payloads BY EndsType
    <3>5. c[b] = Ends(b[1]) \o c[Tail(b)] BY <1>11, <3>1
    <3> QED BY <3>3, <3>4, <3>5 DEF Payloads
  <2> HIDE DEF T
  <2>3. T = Nat BY <2>1, <2>2, SetInduction DEF T
  <2>4. Len(s) \in Nat OBVIOUS
  <2> QED BY <2>3, <2>4 DEF T
<1> QED BY <1>11, <1>12 DEF c
(* What is left of a sequence after its first k. *)
From(s, k) == SubSeq(s, k + 1, Len(s))

LEMMA FromIs ==
  ASSUME NEW T, NEW s \in Seq(T), NEW k \in 0 .. Len(s)
  PROVE  /\ From(s, k) \in Seq(T) /\ Len(From(s, k)) = Len(s) - k
         /\ \A i \in 1 .. Len(s) - k : From(s, k)[i] = s[i + k]
         /\ k < Len(s) => /\ From(s, k) # <<>> /\ From(s, k)[1] = s[k + 1]
                          /\ Tail(From(s, k)) = From(s, k + 1)
         /\ k = 0 => From(s, k) = s
<1> DEFINE d == SubSeq(s, k + 1, Len(s))
<1>1. /\ d \in Seq(T) /\ Len(d) = Len(s) - k /\ \A i \in 1 .. Len(s) - k : d[i] = s[i + k]
  <2>1. k + 1 \in Int /\ Len(s) \in Nat /\ k + 1 >= 1 OBVIOUS
  <2>2. k + 1 <= Len(s) + 1 OBVIOUS
  <2> QED BY <2>1, <2>2
<1>2. ASSUME k < Len(s)
      PROVE  d # <<>> /\ d[1] = s[k + 1] /\ Tail(d) = From(s, k + 1)
  <2>1. d # <<>> /\ d[1] = s[k + 1]
    <3> HIDE DEF d
    <3>1. Len(s) \in Nat /\ k \in Nat /\ 1 \in 1 .. Len(s) - k BY <1>2
    <3>2. Len(d) > 0 /\ d[1] = s[1 + k] /\ 1 + k = k + 1 BY <1>1, <1>2, <3>1
    <3> QED BY <1>1, <3>2
  <2> DEFINE e == SubSeq(s, (k + 1) + 1, Len(s))
  <2>2. /\ e \in Seq(T) /\ Len(e) = Len(s) - (k + 1)
        /\ \A i \in 1 .. Len(s) - (k + 1) : e[i] = s[i + (k + 1)]
    <3>1. Len(s) \in Nat /\ (k + 1) + 1 \in Int /\ (k + 1) + 1 <= Len(s) + 1 BY <1>2
    <3> QED BY <3>1
  <2>3. Tail(d) \in Seq(T) /\ Len(Tail(d)) = Len(d) - 1
        /\ \A i \in 1 .. Len(d) - 1 : Tail(d)[i] = d[i + 1]
    <3> HIDE DEF d
    <3> QED BY <1>1, <2>1
  <2> HIDE DEF d, e
  <2>4. Len(Tail(d)) = Len(e) BY <1>1, <2>2, <2>3
  <2>5. \A i \in 1 .. Len(e) : Tail(d)[i] = e[i]
    <3> TAKE i \in 1 .. Len(e)
    <3>1. i \in 1 .. Len(d) - 1 /\ i + 1 \in 1 .. Len(s) - k /\ i \in 1 .. Len(s) - (k + 1)
      BY <1>1, <2>2
    <3>2. Tail(d)[i] = d[i + 1] /\ d[i + 1] = s[(i + 1) + k] /\ e[i] = s[i + (k + 1)]
      BY <1>1, <2>2, <2>3, <3>1
    <3>3. (i + 1) + k = i + (k + 1) BY <3>1
    <3> QED BY <3>2, <3>3
  <2>6. Tail(d) = e BY <2>2, <2>3, <2>4, <2>5, SeqEqual
  <2> QED BY <2>1, <2>6 DEF e, From
<1>3. ASSUME k = 0 PROVE d = s
  <2> HIDE DEF d
  <2>1. Len(d) = Len(s) /\ \A i \in 1 .. Len(d) : d[i] = s[i] BY <1>1, <1>3
  <2> QED BY <1>1, <2>1, SeqEqual
<1> QED BY <1>1, <1>2, <1>3 DEF From

LEMMA AtLeastTwo == \A n \in Nat : n # 0 /\ n # 1 => n >= 2
OBVIOUS

(* What the parser finds at the front of its buffer. *)
LEMMA VerdictIs ==
  ASSUME NEW b \in Seq(Symbols)
  PROVE  /\ Verdict(b) \in {"incomplete", "invalid", "intact"}
         /\ Verdict(b) = "invalid" =>
              /\ b # <<>>
              /\ ~(b[1] = "fa" /\ Len(b) = 1)
              /\ ~(/\ Len(b) >= 2 /\ b[1] = "fa" /\ b[2] = "hd"
                   /\ Len(b) >= 5 => \E kind \in Kinds : /\ SubSeq(b, 3, 4) = PayloadOf[kind]
                                                         /\ b[5] = CrcOf[kind])
         /\ Verdict(b) = "intact" =>
              /\ PacketSize(b) = 5 /\ Len(b) >= 5 /\ b[1] = "fa" /\ b[2] = "hd"
              /\ \E kind \in Kinds : SubSeq(b, 3, 4) = PayloadOf[kind] /\ b[5] = CrcOf[kind]
<1>1. /\ DOMAIN Headers = {"hd", "long"} /\ Headers["hd"] = 2 /\ Headers["long"] = 4
  BY DEF Headers
<1>2. CASE b = <<>> \/ b = <<"fa">>
  <2>1. Verdict(b) = "incomplete" BY <1>2 DEF Verdict
  <2> QED BY <2>1
<1>3. CASE /\ ~(b = <<>> \/ b = <<"fa">>)
           /\ b[1] # "fa" \/ b[2] \notin DOMAIN Headers
  <2>1. Verdict(b) = "invalid" BY <1>3 DEF Verdict
  <2>2. ~(b[1] = "fa" /\ Len(b) = 1)
    <3> SUFFICES ASSUME b[1] = "fa", Len(b) = 1 PROVE FALSE OBVIOUS
    <3>1. b = <<"fa">> OBVIOUS
    <3> QED BY <1>3, <3>1
  <2> QED BY <1>1, <1>3, <2>1, <2>2
<1>4. CASE /\ ~(b = <<>> \/ b = <<"fa">>)
           /\ b[1] = "fa" /\ b[2] \in DOMAIN Headers
  <2>1. Len(b) # 1
    <3> SUFFICES ASSUME Len(b) = 1 PROVE FALSE OBVIOUS
    <3>1. b = <<"fa">> BY <1>4
    <3> QED BY <1>4, <3>1
  <2>2. Len(b) \in Nat /\ Len(b) >= 2
    <3>1. Len(b) \in Nat OBVIOUS
    <3>2. Len(b) # 0
      <4> SUFFICES ASSUME Len(b) = 0 PROVE FALSE OBVIOUS
      <4>1. b = <<>> OBVIOUS
      <4> QED BY <1>4, <4>1
    <3> QED BY ONLY <2>1, <3>1, <3>2, AtLeastTwo
  <2> DEFINE found == \E kind \in Kinds :
                        /\ SubSeq(b, 3, PacketSize(b) - 1) = PayloadOf[kind]
                        /\ b[PacketSize(b)] = CrcOf[kind]
  <2>3. Verdict(b) = IF Len(b) < PacketSize(b) THEN "incomplete"
                     ELSE IF found THEN "intact" ELSE "invalid"
    BY <1>4 DEF Verdict
  <2>4. CASE b[2] = "hd"
    <3>1. PacketSize(b) = 5 /\ PacketSize(b) - 1 = 4 BY <1>1, <2>4 DEF PacketSize
    <3>2. found <=> \E kind \in Kinds : SubSeq(b, 3, 4) = PayloadOf[kind] /\ b[5] = CrcOf[kind]
      BY <3>1
    <3> HIDE DEF found
    <3>3. CASE Len(b) < 5 BY <2>3, <3>1, <3>3
    <3>4. CASE ~(Len(b) < 5)
      <4>1. Verdict(b) = IF found THEN "intact" ELSE "invalid" BY <2>3, <3>1, <3>4
      <4>2. Len(b) >= 5 BY <2>2, <3>4
      <4> QED BY <1>4, <2>1, <2>4, <3>1, <3>2, <4>1, <4>2
    <3> QED BY <3>3, <3>4
  <2>5. CASE b[2] = "long"
    <3>1. PacketSize(b) = 7 /\ PacketSize(b) - 1 = 6 BY <1>1, <2>5 DEF PacketSize
    <3>2. ASSUME ~(Len(b) < 7) PROVE ~found
      <4>1. Len(SubSeq(b, 3, 6)) = 4 BY <2>2, <3>2
      <4>2. \A kind \in Kinds : SubSeq(b, 3, 6) # PayloadOf[kind] BY <4>1, AlphabetIs
      <4> QED BY <3>1, <4>2
    <3> HIDE DEF found
    <3>3. Verdict(b) \in {"incomplete", "invalid"} BY <2>3, <3>1, <3>2
    <3> QED BY <1>4, <2>1, <2>5, <3>3
  <2> QED BY <1>1, <1>4, <2>4, <2>5
<1> QED BY <1>2, <1>3, <1>4

LEMMA OutReplaced ==
  ASSUME NEW A, NEW B, NEW v \in [left : A, out : B], NEW e
  PROVE  [v EXCEPT !.out = e] = [left |-> v.left, out |-> e]
OBVIOUS

LEMMA ParseIs ==
  ASSUME NEW s \in Seq(Symbols)
  PROVE  /\ Parse[s] \in Readings
         /\ Verdict(s) = "incomplete" => Parse[s] = [left |-> s, out |-> <<>>]
         /\ Verdict(s) = "invalid" => Parse[s] = Parse[Tail(s)]
         /\ Verdict(s) = "intact" =>
              /\ Parse[s].left = Parse[From(s, 5)].left
              /\ Parse[s].out = <<SubSeq(s, 3, 4)>> \o Parse[From(s, 5)].out
<1> DEFINE G(f) == [b \in Seq(Symbols) |->
             IF Verdict(b) = "incomplete" THEN [left |-> b, out |-> <<>>]
             ELSE IF Verdict(b) = "invalid" THEN f[Tail(b)]
             ELSE [f[SubSeq(b, PacketSize(b) + 1, Len(b))] EXCEPT
                     !.out = <<SubSeq(b, 3, PacketSize(b) - 1)>> \o @]]
           stop == [b \in Seq(Symbols) |-> Verdict(b) = "incomplete"]
           next == [b \in Seq(Symbols) |->
                      IF Verdict(b) = "intact" THEN From(b, 5)
                      ELSE IF Verdict(b) = "invalid" THEN Tail(b) ELSE b]
           base == [b \in Seq(Symbols) |-> [left |-> b, out |-> <<>>]]
           comb == [b \in Seq(Symbols) |-> [v \in Readings |->
                      IF Verdict(b) = "intact"
                      THEN [left |-> v.left, out |-> <<SubSeq(b, 3, 4)>> \o v.out] ELSE v]]
<1>1. ASSUME NEW b \in Seq(Symbols)
      PROVE  /\ Verdict(b) \in {"incomplete", "invalid", "intact"}
             /\ Verdict(b) = "invalid" => Tail(b) \in Seq(Symbols) /\ Len(Tail(b)) < Len(b)
             /\ Verdict(b) = "intact" =>
                  /\ From(b, 5) \in Seq(Symbols) /\ Len(From(b, 5)) < Len(b)
                  /\ SubSeq(b, 3, 4) \in Seq(Symbols)
  <2>1. Verdict(b) \in {"incomplete", "invalid", "intact"} BY VerdictIs
  <2>2. ASSUME Verdict(b) = "invalid" PROVE Tail(b) \in Seq(Symbols) /\ Len(Tail(b)) < Len(b)
    <3>1. b # <<>> BY <2>2, VerdictIs
    <3> QED BY <3>1
  <2>3. ASSUME Verdict(b) = "intact"
        PROVE  /\ From(b, 5) \in Seq(Symbols) /\ Len(From(b, 5)) < Len(b)
               /\ SubSeq(b, 3, 4) \in Seq(Symbols)
    <3>1. Len(b) \in Nat /\ Len(b) >= 5 BY <2>3, VerdictIs
    <3>2. 5 \in 0 .. Len(b) BY <3>1
    <3>3. From(b, 5) \in Seq(Symbols) /\ Len(From(b, 5)) = Len(b) - 5 BY <3>2, FromIs
    <3>4. SubSeq(b, 3, 4) \in Seq(Symbols) BY <3>1
    <3> QED BY <3>1, <3>3, <3>4
  <2> QED BY <2>1, <2>2, <2>3
<1>2. /\ stop \in [Seq(Symbols) -> BOOLEAN] /\ next \in [Seq(Symbols) -> Seq(Symbols)]
      /\ base \in [Seq(Symbols) -> Readings] /\ comb \in [Seq(Symbols) -> [Readings -> Readings]]
  <2>1. stop \in [Seq(Symbols) -> BOOLEAN] OBVIOUS
  <2>2. next \in [Seq(Symbols) -> Seq(Symbols)] BY <1>1
  <2>3. base \in [Seq(Symbols) -> Readings] BY DEF Readings, Payloads
  <2>4. ASSUME NEW b \in Seq(Symbols), NEW v \in Readings, Verdict(b) = "intact"
        PROVE  [left |-> v.left, out |-> <<SubSeq(b, 3, 4)>> \o v.out] \in Readings
    <3>1. SubSeq(b, 3, 4) \in Seq(Symbols) BY <1>1, <2>4
    <3>2. v.left \in Seq(Symbols) /\ v.out \in Payloads BY DEF Readings
    <3>3. <<SubSeq(b, 3, 4)>> \o v.out \in Payloads BY <3>1, <3>2 DEF Payloads
    <3> QED BY <3>2, <3>3 DEF Readings
  <2>5. comb \in [Seq(Symbols) -> [Readings -> Readings]] BY <2>4
  <2> QED BY <2>1, <2>2, <2>3, <2>5
<1>3. \A b \in Seq(Symbols) : ~stop[b] => Len(next[b]) < Len(b)
  <2> SUFFICES ASSUME NEW b \in Seq(Symbols), ~stop[b] PROVE Len(next[b]) < Len(b)
    OBVIOUS
  <2>1. Verdict(b) = "invalid" \/ Verdict(b) = "intact" BY <1>1
  <2>2. CASE Verdict(b) = "invalid"
    <3>1. next[b] = Tail(b) BY <2>2
    <3> QED BY <1>1, <2>2, <3>1
  <2>3. CASE Verdict(b) = "intact"
    <3>1. next[b] = From(b, 5) BY <2>3
    <3> QED BY <1>1, <2>3, <3>1
  <2> QED BY <2>1, <2>2, <2>3
<1>4. \E f \in [Seq(Symbols) -> Readings] : Solves(f, stop, next, base, comb)
  <2>1. stop \in [Seq(Symbols) -> BOOLEAN] BY <1>2
  <2>2. next \in [Seq(Symbols) -> Seq(Symbols)] BY <1>2
  <2>3. base \in [Seq(Symbols) -> Readings] BY <1>2
  <2>4. comb \in [Seq(Symbols) -> [Readings -> Readings]] BY <1>2
  <2> HIDE DEF stop, next, base, comb
  <2>5. Shortens(stop, next) BY <1>3 DEF Shortens
  <2> QED BY ONLY <2>1, <2>2, <2>3, <2>4, <2>5, Recursion
<1>5. PICK f \in [Seq(Symbols) -> Readings] :
        \A b \in Seq(Symbols) :
          f[b] = IF stop[b] THEN base[b] ELSE comb[b][f[next[b]]]
  BY <1>4 DEF Solves
<1>6. ASSUME NEW b \in Seq(Symbols) PROVE f[b] = G(f)[b]
  <2>1. CASE Verdict(b) = "incomplete"
    <3>1. f[b] = [left |-> b, out |-> <<>>] BY <1>5, <2>1
    <3> QED BY <2>1, <3>1
  <2>2. CASE Verdict(b) = "invalid"
    <3>1. Tail(b) \in Seq(Symbols) /\ f[Tail(b)] \in Readings BY <1>1, <2>2
    <3>2. stop[b] = FALSE /\ next[b] = Tail(b) BY <2>2
    <3>3. f[b] = comb[b][f[Tail(b)]] BY <1>5, <3>2
    <3>4. comb[b][f[Tail(b)]] = f[Tail(b)] BY <2>2, <3>1
    <3> QED BY <2>2, <3>3, <3>4
  <2>3. CASE Verdict(b) = "intact"
    <3>1. From(b, 5) \in Seq(Symbols) /\ f[From(b, 5)] \in Readings BY <1>1, <2>3
    <3>2. stop[b] = FALSE /\ next[b] = From(b, 5) BY <2>3
    <3>3. f[b] = comb[b][f[From(b, 5)]] BY <1>5, <3>2
    <3>4. comb[b][f[From(b, 5)]]
            = [left |-> f[From(b, 5)].left, out |-> <<SubSeq(b, 3, 4)>> \o f[From(b, 5)].out]
      BY <2>3, <3>1
    <3>5. PacketSize(b) = 5 /\ PacketSize(b) - 1 = 4 BY <2>3, VerdictIs
    <3>6. G(f)[b] = [f[From(b, 5)] EXCEPT !.out = <<SubSeq(b, 3, 4)>> \o @]
      BY <2>3, <3>5 DEF From
    <3>7. ASSUME NEW v \in Readings, NEW p
          PROVE  [v EXCEPT !.out = p \o @] = [left |-> v.left, out |-> p \o v.out]
      <4> DEFINE e == p \o v.out
      <4>1. v \in [left : Seq(Symbols), out : Payloads] BY DEF Readings
      <4> HIDE DEF e
      <4>2. [v EXCEPT !.out = e] = [left |-> v.left, out |-> e] BY <4>1, OutReplaced
      <4> QED BY <4>2 DEF e
    <3>8. G(f)[b]
            = [left |-> f[From(b, 5)].left, out |-> <<SubSeq(b, 3, 4)>> \o f[From(b, 5)].out]
      <4> HIDE DEF G
      <4> QED BY <3>1, <3>6, <3>7
    <3> QED BY <3>3, <3>4, <3>8
  <2> QED BY <1>1, <2>1, <2>2, <2>3
<1>7. f = G(f) BY <1>6
<1>8. \E g : g = G(g) BY <1>7
<1>9. Parse = CHOOSE g : g = G(g) BY DEF Parse
<1>10. Parse = G(Parse) BY <1>8, <1>9
<1> DEFINE c == Parse
<1> HIDE DEF c
<1>11. c = G(c) BY <1>10 DEF c
<1>12. ASSUME NEW b \in Seq(Symbols)
       PROVE  /\ Verdict(b) = "incomplete" => c[b] = [left |-> b, out |-> <<>>]
              /\ Verdict(b) = "invalid" => c[b] = c[Tail(b)]
              /\ Verdict(b) = "intact" =>
                   c[b] = [c[From(b, 5)] EXCEPT !.out = <<SubSeq(b, 3, 4)>> \o @]
  <2>1. c[b] = G(c)[b] BY <1>11
  <2>2. ASSUME Verdict(b) = "incomplete" PROVE G(c)[b] = [left |-> b, out |-> <<>>] BY <2>2
  <2>3. ASSUME Verdict(b) = "invalid" PROVE G(c)[b] = c[Tail(b)] BY <2>3
  <2>4. ASSUME Verdict(b) = "intact"
        PROVE  G(c)[b] = [c[From(b, 5)] EXCEPT !.out = <<SubSeq(b, 3, 4)>> \o @]
    <3>1. PacketSize(b) = 5 /\ PacketSize(b) - 1 = 4 BY <2>4, VerdictIs
    <3> QED BY <2>4, <3>1 DEF From
  <2> HIDE DEF G
  <2> QED BY <2>1, <2>2, <2>3, <2>4
<1> HIDE DEF G
<1>13. ASSUME NEW v \in Readings, NEW p \in Payloads
       PROVE  /\ [v EXCEPT !.out = p \o @] = [left |-> v.left, out |-> p \o v.out]
              /\ [v EXCEPT !.out = p \o @] \in Readings
  <2>1. [v EXCEPT !.out = p \o @] = [left |-> v.left, out |-> p \o v.out]
    <3> DEFINE e == p \o v.out
    <3>1. v \in [left : Seq(Symbols), out : Payloads] BY DEF Readings
    <3> HIDE DEF e
    <3>2. [v EXCEPT !.out = e] = [left |-> v.left, out |-> e] BY <3>1, OutReplaced
    <3> QED BY <3>2 DEF e
  <2>2. v.left \in Seq(Symbols) /\ v.out \in Payloads BY DEF Readings
  <2>3. p \o v.out \in Payloads BY <2>2 DEF Payloads
  <2> QED BY <2>1, <2>2, <2>3 DEF Readings
<1>14. ASSUME NEW b \in Seq(Symbols), Verdict(b) = "intact" PROVE <<SubSeq(b, 3, 4)>> \in Payloads
  <2>1. SubSeq(b, 3, 4) \in Seq(Symbols) BY <1>1, <1>14
  <2> QED BY <2>1 DEF Payloads
<1>15. \A b \in Seq(Symbols) : c[b] \in Readings
  <2> DEFINE T == {n \in Nat : \A b \in Seq(Symbols) : Len(b) <= n => c[b] \in Readings}
  <2>1. ASSUME NEW b \in Seq(Symbols),
               \A d \in Seq(Symbols) : Len(d) < Len(b) => c[d] \in Readings
        PROVE  c[b] \in Readings
    <3>1. CASE Verdict(b) = "incomplete"
      <4>1. c[b] = [left |-> b, out |-> <<>>] BY <1>12, <3>1
      <4> QED BY <4>1 DEF Readings, Payloads
    <3>2. CASE Verdict(b) = "invalid" BY <1>1, <1>12, <2>1, <3>2
    <3>3. CASE Verdict(b) = "intact"
      <4>1. c[From(b, 5)] \in Readings BY <1>1, <2>1, <3>3
      <4>2. c[b] = [c[From(b, 5)] EXCEPT !.out = <<SubSeq(b, 3, 4)>> \o @] BY <1>12, <3>3
      <4> DEFINE v == c[From(b, 5)]
                 p == <<SubSeq(b, 3, 4)>>
      <4>3. p \in Payloads BY <1>14, <3>3
      <4>4. c[b] = [v EXCEPT !.out = p \o @] BY <4>2
      <4> HIDE DEF v, p
      <4>5. v \in Readings BY <4>1 DEF v
      <4> QED BY <1>13, <4>3, <4>4, <4>5, ZenonT(30)
    <3> QED BY <1>1, <3>1, <3>2, <3>3
  <2>2. 0 \in T
    <3> SUFFICES ASSUME NEW b \in Seq(Symbols), Len(b) <= 0 PROVE c[b] \in Readings OBVIOUS
    <3>1. \A d \in Seq(Symbols) : ~(Len(d) < Len(b)) OBVIOUS
    <3> QED BY <2>1, <3>1
  <2>3. ASSUME NEW n \in T PROVE n + 1 \in T
    <3> SUFFICES ASSUME NEW b \in Seq(Symbols), Len(b) <= n + 1 PROVE c[b] \in Readings
      OBVIOUS
    <3>1. n \in Nat OBVIOUS
    <3>2. \A d \in Seq(Symbols) : Len(d) < Len(b) => c[d] \in Readings
      <4> TAKE d \in Seq(Symbols)
      <4>1. Len(d) < Len(b) => Len(d) <= n BY <3>1
      <4> QED BY <4>1
    <3> QED BY <2>1, <3>2
  <2> HIDE DEF T
  <2>4. T = Nat BY <2>2, <2>3, SetInduction DEF T
  <2> TAKE b \in Seq(Symbols)
  <2>5. Len(b) \in T BY <2>4
  <2> QED BY <2>5 DEF T
<1>16. ASSUME Verdict(s) = "intact"
       PROVE  /\ c[s].left = c[From(s, 5)].left
              /\ c[s].out = <<SubSeq(s, 3, 4)>> \o c[From(s, 5)].out
  <2>1. c[From(s, 5)] \in Readings BY <1>1, <1>15, <1>16
  <2>2. c[s] = [c[From(s, 5)] EXCEPT !.out = <<SubSeq(s, 3, 4)>> \o @] BY <1>12, <1>16
  <2>3. c[s] = [left |-> c[From(s, 5)].left, out |-> <<SubSeq(s, 3, 4)>> \o c[From(s, 5)].out]
    BY <1>13, <1>14, <1>16, <2>1, <2>2
  <2> QED BY <2>3
<1> QED BY <1>12, <1>15, <1>16 DEF c
LEMMA Associative ==
  \A p, q, r \in Seq(Symbols) : p \o (q \o r) = (p \o q) \o r
BY ConcatAssociative

LEMMA PayloadsAssociative ==
  \A p, q, r \in Payloads : p \o (q \o r) = (p \o q) \o r
<1> SUFFICES ASSUME NEW p \in Payloads, NEW q \in Payloads, NEW r \in Payloads
             PROVE  p \o (q \o r) = (p \o q) \o r
  OBVIOUS
<1> DEFINE T == Seq(Symbols)
<1>1. p \in Seq(T) /\ q \in Seq(T) /\ r \in Seq(T) BY DEF Payloads
<1> HIDE DEF T
<1> QED BY ONLY <1>1, ConcatAssociative

(* The payloads completed by two runs of symbols, one after the other. *)
LEMMA CompletedInTurn ==
  \A a, b \in Seq(Symbols) : CompletedBy[a \o b] = CompletedBy[a] \o CompletedBy[b]
<1> DEFINE InTurn(a, b) == CompletedBy[a \o b] = CompletedBy[a] \o CompletedBy[b]
           T == {n \in Nat : \A a, b \in Seq(Symbols) : Len(a) = n => InTurn(a, b)}
<1>1. 0 \in T
  <2> SUFFICES ASSUME NEW a \in Seq(Symbols), NEW b \in Seq(Symbols), Len(a) = 0
               PROVE  CompletedBy[a \o b] = CompletedBy[a] \o CompletedBy[b]
    OBVIOUS
  <2>1. a = <<>> /\ a \o b = b OBVIOUS
  <2>2. CompletedBy[a] = <<>> /\ CompletedBy[b] \in Payloads BY <2>1, CompletedIs
  <2>3. <<>> \o CompletedBy[b] = CompletedBy[b] BY <2>2 DEF Payloads
  <2> QED BY <2>1, <2>2, <2>3
<1>2. ASSUME NEW n \in T PROVE n + 1 \in T
  <2> SUFFICES ASSUME NEW a \in Seq(Symbols), NEW b \in Seq(Symbols), Len(a) = n + 1
               PROVE  InTurn(a, b)
    <3>1. n \in Nat OBVIOUS
    <3> HIDE DEF InTurn
    <3> QED BY <3>1
  <2>1. n \in Nat /\ a # <<>> OBVIOUS
  <2>2. Tail(a) \in Seq(Symbols) /\ Len(Tail(a)) = n BY <2>1
  <2>3. a \o b \in Seq(Symbols) /\ a \o b # <<>> /\ (a \o b)[1] = a[1] BY <2>1
  <2>4. Tail(a \o b) = Tail(a) \o b
    <3>1. /\ Tail(a \o b) \in Seq(Symbols) /\ Tail(a) \o b \in Seq(Symbols)
          /\ Len(Tail(a \o b)) = Len(a) + Len(b) - 1 /\ Len(Tail(a) \o b) = Len(a) - 1 + Len(b)
      BY <2>1, <2>2, <2>3
    <3>2. \A i \in 1 .. Len(Tail(a \o b)) : Tail(a \o b)[i] = (Tail(a) \o b)[i]
      BY <2>1, <2>2, <2>3, <3>1
    <3> QED BY <3>1, <3>2, SeqEqual
  <2> DEFINE first == Ends(a[1])
             middle == CompletedBy[Tail(a)]
             last == CompletedBy[b]
  <2>5. first \in Payloads /\ middle \in Payloads /\ last \in Payloads
    BY <2>2, EndsType, CompletedIs
  <2>6. CompletedBy[a] = first \o middle BY <2>1, CompletedIs
  <2>7. CompletedBy[a \o b] = first \o CompletedBy[Tail(a) \o b]
    BY <2>3, <2>4, CompletedIs
  <2>8. CompletedBy[Tail(a) \o b] = middle \o last BY <2>2
  <2> HIDE DEF first, middle, last
  <2>9. first \o (middle \o last) = (first \o middle) \o last
    BY ONLY <2>5, PayloadsAssociative
  <2> QED BY <2>6, <2>7, <2>8, <2>9 DEF last
<1> HIDE DEF T
<1>3. T = Nat BY <1>1, <1>2, SetInduction DEF T
<1> SUFFICES ASSUME NEW a \in Seq(Symbols), NEW b \in Seq(Symbols)
             PROVE  CompletedBy[a \o b] = CompletedBy[a] \o CompletedBy[b]
  OBVIOUS
<1>4. Len(a) \in T BY <1>3
<1> QED BY <1>4 DEF T

LEMMA CompletedFrom ==
  ASSUME NEW s \in Seq(Symbols), NEW k \in Nat, k < Len(s)
  PROVE  CompletedBy[From(s, k)] = Ends(s[k + 1]) \o CompletedBy[From(s, k + 1)]
<1>1. k \in 0 .. Len(s) OBVIOUS
<1>2. /\ From(s, k) \in Seq(Symbols) /\ From(s, k) # <<>>
      /\ From(s, k)[1] = s[k + 1] /\ Tail(From(s, k)) = From(s, k + 1)
  BY <1>1, FromIs
<1> QED BY <1>2, CompletedIs

(* A CRC that is intact comes behind the rest of its packet. *)
Closed(w, i) ==
  /\ i > 4
  /\ w[i - 4] = "fa" /\ w[i - 3] = "hd"
  /\ \/ w[i] = "crcPlain" /\ w[i - 2] = "x" /\ w[i - 1] = "x"
     \/ w[i] = "crcTrap" /\ w[i - 2] = "fa" /\ w[i - 1] = "long"

WellFormed(w) == \A i \in 1 .. Len(w) : w[i] \in DOMAIN Completes => Closed(w, i)

LEMMA WellFormedConcat ==
  ASSUME NEW a \in Seq(Symbols), NEW b \in Seq(Symbols), WellFormed(a), WellFormed(b)
  PROVE  WellFormed(a \o b)
<1> SUFFICES ASSUME NEW i \in 1 .. Len(a \o b), (a \o b)[i] \in DOMAIN Completes
             PROVE  Closed(a \o b, i)
  BY DEF WellFormed
<1>1. /\ Len(a) \in Nat /\ Len(b) \in Nat /\ Len(a \o b) = Len(a) + Len(b) /\ i \in Nat
      /\ \A j \in 1 .. Len(a) + Len(b) :
           (a \o b)[j] = IF j <= Len(a) THEN a[j] ELSE b[j - Len(a)]
  OBVIOUS
<1>2. CASE i <= Len(a)
  <2>1. i \in 1 .. Len(a) /\ (a \o b)[i] = a[i] BY <1>1, <1>2
  <2>2. Closed(a, i) BY <2>1 DEF WellFormed
  <2>3. i > 4 BY <2>2 DEF Closed
  <2>4. \A j \in i - 4 .. i : (a \o b)[j] = a[j] BY <1>1, <1>2, <2>3
  <2>5. i - 4 \in i - 4 .. i /\ i - 3 \in i - 4 .. i /\ i - 2 \in i - 4 .. i /\ i - 1 \in i - 4 .. i
    BY <1>1
  <2> QED BY <2>1, <2>2, <2>4, <2>5 DEF Closed
<1>3. CASE ~(i <= Len(a))
  <2> DEFINE j == i - Len(a)
  <2>1. j \in 1 .. Len(b) /\ (a \o b)[i] = b[j] /\ i = Len(a) + j BY <1>1, <1>3
  <2> HIDE DEF j
  <2>2. Closed(b, j) BY <2>1 DEF WellFormed
  <2>3. j > 4 BY <2>2 DEF Closed
  <2>4. \A m \in 1 .. j : (a \o b)[Len(a) + m] = b[m]
    <3> TAKE m \in 1 .. j
    <3>1. Len(a) + m \in 1 .. Len(a) + Len(b) /\ ~(Len(a) + m <= Len(a)) BY <1>1, <2>1
    <3>2. Len(a) + m - Len(a) = m BY <1>1
    <3> QED BY <1>1, <3>1, <3>2
  <2>5. /\ j - 4 \in 1 .. j /\ j - 3 \in 1 .. j /\ j - 2 \in 1 .. j /\ j - 1 \in 1 .. j
        /\ i - 4 = Len(a) + (j - 4) /\ i - 3 = Len(a) + (j - 3)
        /\ i - 2 = Len(a) + (j - 2) /\ i - 1 = Len(a) + (j - 1) /\ i > 4
    BY <1>1, <2>1, <2>3
  <2> QED BY <2>1, <2>2, <2>4, <2>5 DEF Closed
<1> QED BY <1>2, <1>3

LEMMA WellFormedPrefix ==
  ASSUME NEW a \in Seq(Symbols), NEW b \in Seq(Symbols), WellFormed(a \o b)
  PROVE  WellFormed(a)
<1> SUFFICES ASSUME NEW i \in 1 .. Len(a), a[i] \in DOMAIN Completes
             PROVE  Closed(a, i)
  BY DEF WellFormed
<1>1. /\ Len(a) \in Nat /\ i \in 1 .. Len(a \o b) /\ i \in Nat
      /\ \A j \in 1 .. Len(a) : (a \o b)[j] = a[j]
  OBVIOUS
<1>2. Closed(a \o b, i) BY <1>1 DEF WellFormed
<1>3. i > 4 BY <1>2 DEF Closed
<1>4. i - 4 \in 1 .. Len(a) /\ i - 3 \in 1 .. Len(a) /\ i - 2 \in 1 .. Len(a) /\ i - 1 \in 1 .. Len(a)
  BY <1>1, <1>3
<1> QED BY <1>1, <1>2, <1>4 DEF Closed
(* The symbols that follow the first k of a in a and b. *)
LEMMA Shifted ==
  ASSUME NEW a \in Seq(Symbols), NEW b \in Seq(Symbols), NEW k \in 0 .. Len(a)
  PROVE  /\ From(a, k) \o b \in Seq(Symbols)
         /\ Len(From(a, k) \o b) = Len(a \o b) - k /\ Len(a \o b) = Len(a) + Len(b)
         /\ \A i \in 1 .. Len(a \o b) - k : (From(a, k) \o b)[i] = (a \o b)[i + k]
         /\ \A i \in 1 .. Len(a) : (a \o b)[i] = a[i]
<1> DEFINE d == From(a, k)
<1>1. /\ d \in Seq(Symbols) /\ Len(d) = Len(a) - k
      /\ \A i \in 1 .. Len(a) - k : d[i] = a[i + k]
  BY FromIs
<1> HIDE DEF d
<1>2. /\ Len(a) \in Nat /\ Len(b) \in Nat /\ k \in Nat
      /\ Len(a \o b) = Len(a) + Len(b) /\ d \o b \in Seq(Symbols)
      /\ Len(d \o b) = Len(d) + Len(b)
  <2>1. Len(a) \in Nat /\ Len(b) \in Nat /\ k \in Nat OBVIOUS
  <2>2. Len(a \o b) = Len(a) + Len(b) OBVIOUS
  <2>3. d \in Seq(Symbols) BY <1>1
  <2>4. d \o b \in Seq(Symbols) /\ Len(d \o b) = Len(d) + Len(b) BY <2>3
  <2> QED BY <2>1, <2>2, <2>4
<1>3. \A i \in 1 .. Len(a) : (a \o b)[i] = a[i] OBVIOUS
<1>4. ASSUME NEW i \in 1 .. Len(a \o b) - k PROVE (d \o b)[i] = (a \o b)[i + k]
  <2>1. i \in 1 .. Len(d) + Len(b) /\ i + k \in 1 .. Len(a) + Len(b) BY <1>1, <1>2
  <2>2. CASE i <= Len(d)
    <3>1. i \in 1 .. Len(a) - k /\ i + k \in 1 .. Len(a) BY <1>1, <1>2, <2>1, <2>2
    <3>2. (d \o b)[i] = d[i] BY <1>1, <1>2, <2>1, <2>2
    <3> QED BY <1>1, <1>3, <3>1, <3>2
  <2>3. CASE ~(i <= Len(d))
    <3>1. (d \o b)[i] = b[i - Len(d)] BY <1>1, <1>2, <2>1, <2>3
    <3>2. ~(i + k <= Len(a)) BY <1>1, <1>2, <2>1, <2>3
    <3>3. (a \o b)[i + k] = b[i + k - Len(a)] BY <1>2, <2>1, <3>2
    <3>4. i - Len(d) = i + k - Len(a) BY <1>1, <1>2, <2>1
    <3> QED BY <3>1, <3>3, <3>4
  <2> QED BY <2>2, <2>3
<1> QED BY <1>1, <1>2, <1>3, <1>4 DEF d

(* What the parser gives up begins no packet. *)
LEMMA SkipKeeps ==
  ASSUME NEW b \in Seq(Symbols), NEW rest \in Seq(Symbols),
         Verdict(b) = "invalid", WellFormed(b \o rest)
  PROVE  /\ WellFormed(Tail(b) \o rest)
         /\ CompletedBy[b] = CompletedBy[Tail(b)]
<1> DEFINE w == b \o rest
           v == From(b, 1) \o rest
<1>1. Len(b) \in Nat /\ b # <<>> /\ Len(b) >= 1
  <2>1. b # <<>> BY VerdictIs
  <2> QED BY <2>1
<1>2. Tail(b) = From(b, 1) /\ b = From(b, 0)
  <2>1. 0 \in 0 .. Len(b) /\ 0 < Len(b) BY <1>1
  <2>2. From(b, 0) = b /\ Tail(From(b, 0)) = From(b, 0 + 1) BY <2>1, FromIs
  <2> QED BY <2>2
<1>3. /\ v \in Seq(Symbols) /\ Len(v) = Len(w) - 1 /\ Len(w) = Len(b) + Len(rest)
      /\ \A i \in 1 .. Len(w) - 1 : v[i] = w[i + 1]
      /\ \A i \in 1 .. Len(b) : w[i] = b[i]
  <2>1. 1 \in 0 .. Len(b) BY <1>1
  <2> QED BY <2>1, Shifted
<1>4. Len(w) \in Nat /\ Len(w) >= Len(b) /\ Len(rest) \in Nat BY <1>1, <1>3
<1>5. WellFormed(w) OBVIOUS
<1>6. CompletedBy[b] = CompletedBy[Tail(b)]
  <2>1. 1 \in 1 .. Len(b) /\ 1 \in 1 .. Len(w) BY <1>1, <1>4
  <2>2. w[1] \notin DOMAIN Completes BY <1>5, <2>1 DEF WellFormed, Closed
  <2>3. Ends(b[1]) = <<>>
    <3> HIDE DEF w
    <3> QED BY <1>3, <2>1, <2>2 DEF Ends
  <2>4. CompletedBy[b] = Ends(b[1]) \o CompletedBy[Tail(b)] BY <1>1, CompletedIs
  <2>5. Tail(b) \in Seq(Symbols) BY <1>1
  <2>6. CompletedBy[Tail(b)] \in Payloads BY <2>5, CompletedIs
  <2> QED BY <2>3, <2>4, <2>6 DEF Payloads
<1>7. WellFormed(v)
  <2> SUFFICES ASSUME NEW i \in 1 .. Len(v), v[i] \in DOMAIN Completes
               PROVE  Closed(v, i)
    BY DEF WellFormed
  <2> HIDE DEF v, w
  <2>1. i + 1 \in 1 .. Len(w) /\ v[i] = w[i + 1] /\ i \in Nat BY <1>3, <1>4
  <2>2. Closed(w, i + 1) BY <1>5, <2>1 DEF WellFormed
  <2>3. i + 1 > 4 BY <2>2 DEF Closed
  <2>4. i # 4
    <3> SUFFICES ASSUME i = 4 PROVE FALSE OBVIOUS
    <3>1. Len(w) >= 5 BY <1>3, <1>4
    <3>2. /\ w[1] = "fa" /\ w[2] = "hd"
          /\ \/ w[5] = "crcPlain" /\ w[3] = "x" /\ w[4] = "x"
             \/ w[5] = "crcTrap" /\ w[3] = "fa" /\ w[4] = "long"
      <4>1. i + 1 - 4 = 1 /\ i + 1 - 3 = 2 /\ i + 1 - 2 = 3 /\ i + 1 - 1 = 4 /\ i + 1 = 5 OBVIOUS
      <4> QED BY <2>2, <4>1 DEF Closed
    <3>3. b[1] = "fa" /\ Len(b) >= 2
      <4>1. 1 \in 1 .. Len(b) BY <1>1
      <4>2. b[1] = "fa" BY <1>3, <3>2, <4>1
      <4>3. Len(b) # 1 BY <4>2, VerdictIs
      <4>4. Len(b) # 0 BY <1>1
      <4> QED BY <1>1, <4>2, <4>3, <4>4, AtLeastTwo
    <3>4. b[2] = "hd"
      <4>1. 2 \in 1 .. Len(b) BY <1>1, <3>3
      <4> QED BY <1>3, <3>2, <4>1
    <3>5. CASE Len(b) < 5 BY <1>1, <3>3, <3>4, <3>5, VerdictIs
    <3>6. CASE ~(Len(b) < 5)
      <4>1. 3 \in 1 .. Len(b) /\ 4 \in 1 .. Len(b) /\ 5 \in 1 .. Len(b) BY <1>1, <3>6
      <4>2. w[3] = b[3] /\ w[4] = b[4] /\ w[5] = b[5] BY <1>3, <4>1
      <4>3. SubSeq(b, 3, 4) = <<b[3], b[4]>>
        <5> DEFINE d == SubSeq(b, 3, 4)
                   e == <<b[3], b[4]>>
        <5>1. Len(d) = 2 /\ d[1] = b[3] /\ d[2] = b[4] /\ d \in Seq(Symbols)
          BY <1>1, <3>6
        <5>2. b[3] \in Symbols /\ b[4] \in Symbols BY <4>1
        <5>3. e \in Seq(Symbols) /\ Len(e) = 2 /\ e[1] = b[3] /\ e[2] = b[4] BY <5>2
        <5> HIDE DEF d, e
        <5>4. \A j \in 1 .. Len(d) : j = 1 \/ j = 2 BY <5>1
        <5>5. \A j \in 1 .. Len(d) : d[j] = e[j] BY <5>1, <5>3, <5>4
        <5>6. d = e BY <5>1, <5>3, <5>5, SeqEqual
        <5> QED BY <5>6 DEF d, e
      <4>4. \E kind \in Kinds : SubSeq(b, 3, 4) = PayloadOf[kind] /\ b[5] = CrcOf[kind]
        BY <3>2, <4>2, <4>3, AlphabetIs DEF Kinds
      <4> QED BY <3>3, <3>4, <4>4, VerdictIs
    <3> QED BY <3>5, <3>6
  <2>5. i > 4 BY <2>1, <2>3, <2>4
  <2>6. /\ v[i - 4] = w[i + 1 - 4] /\ v[i - 3] = w[i + 1 - 3]
        /\ v[i - 2] = w[i + 1 - 2] /\ v[i - 1] = w[i + 1 - 1]
    <3>1. /\ i - 4 \in 1 .. Len(w) - 1 /\ i - 3 \in 1 .. Len(w) - 1
          /\ i - 2 \in 1 .. Len(w) - 1 /\ i - 1 \in 1 .. Len(w) - 1
      BY <1>3, <1>4, <2>1, <2>5
    <3>2. /\ i - 4 + 1 = i + 1 - 4 /\ i - 3 + 1 = i + 1 - 3
          /\ i - 2 + 1 = i + 1 - 2 /\ i - 1 + 1 = i + 1 - 1
      BY <2>1
    <3> QED BY <1>3, <3>1, <3>2
  <2> QED BY <2>1, <2>2, <2>5, <2>6 DEF Closed
<1> QED BY <1>2, <1>6, <1>7

(* A packet that is found is one that was sent. *)
LEMMA PacketKeeps ==
  ASSUME NEW b \in Seq(Symbols), NEW rest \in Seq(Symbols),
         Verdict(b) = "intact", WellFormed(b \o rest)
  PROVE  /\ WellFormed(From(b, 5) \o rest)
         /\ CompletedBy[b] = <<SubSeq(b, 3, 4)>> \o CompletedBy[From(b, 5)]
<1> DEFINE w == b \o rest
           v == From(b, 5) \o rest
<1>1. Len(b) \in Nat /\ Len(b) >= 5 /\ b[1] = "fa" /\ b[2] = "hd" BY VerdictIs
<1>2. PICK kind \in Kinds : SubSeq(b, 3, 4) = PayloadOf[kind] /\ b[5] = CrcOf[kind]
  BY VerdictIs
<1>3. /\ b[3] = PayloadOf[kind][1] /\ b[4] = PayloadOf[kind][2]
  <2>1. SubSeq(b, 3, 4)[1] = b[3] /\ SubSeq(b, 3, 4)[2] = b[4] BY <1>1
  <2> QED BY <1>2, <2>1
<1>4. \/ b[3] = "x" /\ b[4] = "x" /\ b[5] = "crcPlain"
      \/ b[3] = "fa" /\ b[4] = "long" /\ b[5] = "crcTrap"
  <2>1. <<"x", "x">>[1] = "x" /\ <<"x", "x">>[2] = "x"
        /\ <<"fa", "long">>[1] = "fa" /\ <<"fa", "long">>[2] = "long"
    OBVIOUS
  <2>2. kind = "plain" \/ kind = "trap" BY DEF Kinds
  <2> QED BY <1>2, <1>3, <2>1, <2>2, AlphabetIs
<1>5. /\ v \in Seq(Symbols) /\ Len(v) = Len(w) - 5 /\ Len(w) = Len(b) + Len(rest)
      /\ \A i \in 1 .. Len(w) - 5 : v[i] = w[i + 5]
      /\ \A i \in 1 .. Len(b) : w[i] = b[i]
  <2>1. 5 \in 0 .. Len(b) BY <1>1
  <2> QED BY <2>1, Shifted
<1>6. Len(w) \in Nat /\ Len(w) >= Len(b) /\ Len(rest) \in Nat BY <1>1, <1>5
<1>7. WellFormed(w) OBVIOUS
<1>8. CompletedBy[b] = <<SubSeq(b, 3, 4)>> \o CompletedBy[From(b, 5)]
  <2> DEFINE c(k) == CompletedBy[From(b, k)]
  <2>1. \A k \in 0 .. 5 : From(b, k) \in Seq(Symbols)
    <3> SUFFICES ASSUME NEW k \in 0 .. 5 PROVE From(b, k) \in Seq(Symbols) OBVIOUS
    <3>1. k \in 0 .. Len(b) BY <1>1
    <3> QED BY <3>1, FromIs
  <2>2. \A k \in 0 .. 5 : c(k) \in Payloads BY <2>1, CompletedIs
  <2>3. ASSUME NEW k \in 0 .. 4, NEW n, n = k + 1 PROVE c(k) = Ends(b[n]) \o c(n)
    <3>1. k \in Nat /\ k < Len(b) BY <1>1
    <3> QED BY <2>3, <3>1, CompletedFrom
  <2>4. Ends(b[1]) = <<>> /\ Ends(b[2]) = <<>> /\ Ends(b[3]) = <<>> /\ Ends(b[4]) = <<>>
    BY <1>1, <1>4, AlphabetIs DEF Ends
  <2>5. Ends(b[5]) = <<SubSeq(b, 3, 4)>>
    <3>1. b[5] \in DOMAIN Completes BY <1>4, AlphabetIs
    <3> QED BY <1>2, <3>1, AlphabetIs DEF Ends
  <2> HIDE DEF c
  <2>6. \A p \in Payloads : <<>> \o p = p BY DEF Payloads
  <2>7. /\ c(0) = Ends(b[1]) \o c(1) /\ c(1) = Ends(b[2]) \o c(2) /\ c(2) = Ends(b[3]) \o c(3)
        /\ c(3) = Ends(b[4]) \o c(4) /\ c(4) = Ends(b[5]) \o c(5)
    <3>1. c(0) = Ends(b[1]) \o c(1) BY <2>3
    <3>2. c(1) = Ends(b[2]) \o c(2) BY <2>3
    <3>3. c(2) = Ends(b[3]) \o c(3) BY <2>3
    <3>4. c(3) = Ends(b[4]) \o c(4) BY <2>3
    <3>5. c(4) = Ends(b[5]) \o c(5) BY <2>3
    <3> QED BY <3>1, <3>2, <3>3, <3>4, <3>5
  <2>8. c(1) \in Payloads /\ c(2) \in Payloads /\ c(3) \in Payloads /\ c(4) \in Payloads
    BY <2>2
  <2>9. c(0) = <<SubSeq(b, 3, 4)>> \o c(5) BY ONLY <2>4, <2>5, <2>6, <2>7, <2>8
  <2>10. From(b, 0) = b
    <3>1. 0 \in 0 .. Len(b) BY <1>1
    <3> QED BY <3>1, FromIs
  <2> QED BY <2>9, <2>10 DEF c
<1>9. WellFormed(v)
  <2> SUFFICES ASSUME NEW i \in 1 .. Len(v), v[i] \in DOMAIN Completes
               PROVE  Closed(v, i)
    BY DEF WellFormed
  <2> HIDE DEF v, w
  <2>1. i + 5 \in 1 .. Len(w) /\ v[i] = w[i + 5] /\ i \in Nat BY <1>5, <1>6
  <2>2. Closed(w, i + 5) BY <1>7, <2>1 DEF WellFormed
  <2>3. w[1] = b[1] /\ w[2] = b[2] /\ w[3] = b[3] /\ w[4] = b[4] /\ w[5] = b[5]
    <3>1. /\ 1 \in 1 .. Len(b) /\ 2 \in 1 .. Len(b) /\ 3 \in 1 .. Len(b)
          /\ 4 \in 1 .. Len(b) /\ 5 \in 1 .. Len(b)
      BY <1>1
    <3> QED BY <1>5, <3>1
  <2>4. w[i + 1] = "fa" /\ w[i + 2] = "hd"
    <3>1. i + 5 - 4 = i + 1 /\ i + 5 - 3 = i + 2 BY <2>1
    <3> QED BY <2>2, <3>1, SMTT(30) DEF Closed
  <2>5. i # 1 /\ i # 2 /\ i # 3 /\ i # 4
    <3>1. ASSUME i = 1 PROVE FALSE
      <4>1. i + 2 = 3 BY <3>1
      <4> QED BY <1>4, <2>3, <2>4, <4>1
    <3>2. ASSUME i = 2 PROVE FALSE
      <4>1. i + 2 = 4 BY <3>2
      <4> QED BY <1>4, <2>3, <2>4, <4>1
    <3>3. ASSUME i = 3 PROVE FALSE
      <4>1. i + 2 = 5 BY <3>3
      <4> QED BY <1>4, <2>3, <2>4, <4>1
    <3>4. ASSUME i = 4 PROVE FALSE
      <4>1. i + 1 = 5 BY <3>4
      <4> QED BY <1>4, <2>3, <2>4, <4>1
    <3> QED BY <3>1, <3>2, <3>3, <3>4
  <2>6. i > 4 BY <2>1, <2>5
  <2>7. /\ v[i - 4] = w[i + 5 - 4] /\ v[i - 3] = w[i + 5 - 3]
        /\ v[i - 2] = w[i + 5 - 2] /\ v[i - 1] = w[i + 5 - 1]
    <3>1. ASSUME NEW n \in Nat, NEW j \in Nat, j + 5 \in 1 .. n, j > 4
          PROVE  /\ j - 4 \in 1 .. n - 5 /\ j - 3 \in 1 .. n - 5
                 /\ j - 2 \in 1 .. n - 5 /\ j - 1 \in 1 .. n - 5
      BY <3>1
    <3>3. /\ i - 4 \in 1 .. Len(w) - 5 /\ i - 3 \in 1 .. Len(w) - 5
          /\ i - 2 \in 1 .. Len(w) - 5 /\ i - 1 \in 1 .. Len(w) - 5
      BY <1>6, <2>1, <2>6, <3>1
    <3>2. /\ i - 4 + 5 = i + 5 - 4 /\ i - 3 + 5 = i + 5 - 3
          /\ i - 2 + 5 = i + 5 - 2 /\ i - 1 + 5 = i + 5 - 1
      BY <2>1
    <3> QED BY <1>5, <3>2, <3>3
  <2> QED BY <2>1, <2>2, <2>6, <2>7 DEF Closed
<1> QED BY <1>8, <1>9
(* What the parser finds and what it leaves are what it was given. *)
Kept(b, rest) ==
  /\ WellFormed(Parse[b].left \o rest)
  /\ CompletedBy[b] = Parse[b].out \o CompletedBy[Parse[b].left]

LEMMA ParseKeeps ==
  \A b, rest \in Seq(Symbols) : WellFormed(b \o rest) => Kept(b, rest)
<1> DEFINE T == {n \in Nat : \A b, rest \in Seq(Symbols) :
                   Len(b) <= n /\ WellFormed(b \o rest) => Kept(b, rest)}
<1>1. ASSUME NEW b \in Seq(Symbols), NEW rest \in Seq(Symbols), WellFormed(b \o rest),
             \A d \in Seq(Symbols) :
               Len(d) < Len(b) /\ WellFormed(d \o rest) => Kept(d, rest)
      PROVE  Kept(b, rest)
  <2>1. CASE Verdict(b) = "incomplete"
    <3>1. Parse[b] = [left |-> b, out |-> <<>>] BY <2>1, ParseIs
    <3>2. Parse[b].left = b /\ Parse[b].out = <<>> BY <3>1
    <3>3. CompletedBy[b] \in Payloads BY CompletedIs
    <3>4. <<>> \o CompletedBy[b] = CompletedBy[b] BY <3>3 DEF Payloads
    <3> QED BY <1>1, <3>2, <3>4 DEF Kept
  <2>2. CASE Verdict(b) = "invalid"
    <3>1. b # <<>> BY <2>2, VerdictIs
    <3>2. Tail(b) \in Seq(Symbols) /\ Len(Tail(b)) < Len(b) BY <3>1
    <3>3. WellFormed(Tail(b) \o rest) /\ CompletedBy[b] = CompletedBy[Tail(b)]
      BY <1>1, <2>2, SkipKeeps
    <3>4. Kept(Tail(b), rest) BY <1>1, <3>2, <3>3
    <3>5. Parse[b] = Parse[Tail(b)] BY <2>2, ParseIs
    <3> QED BY <3>3, <3>4, <3>5 DEF Kept
  <2>3. CASE Verdict(b) = "intact"
    <3> DEFINE d == From(b, 5)
               p == <<SubSeq(b, 3, 4)>>
    <3>1. Len(b) \in Nat /\ Len(b) >= 5 BY <2>3, VerdictIs
    <3>2. 5 \in 0 .. Len(b) BY <3>1
    <3>3. d \in Seq(Symbols) /\ Len(d) = Len(b) - 5 BY <3>2, FromIs
    <3>4. SubSeq(b, 3, 4) \in Seq(Symbols) BY <3>1
    <3>5. p \in Payloads BY <3>4 DEF Payloads
    <3>6. WellFormed(d \o rest) /\ CompletedBy[b] = p \o CompletedBy[d]
      BY <1>1, <2>3, PacketKeeps
    <3>7. Parse[b].left = Parse[d].left /\ Parse[b].out = p \o Parse[d].out
      BY <2>3, ParseIs
    <3> HIDE DEF d, p
    <3>8. Len(d) < Len(b) BY <3>1, <3>3
    <3>9. Kept(d, rest) BY <1>1, <3>3, <3>6, <3>8
    <3>10. Parse[d] \in Readings BY <3>3, ParseIs
    <3>11. Parse[d].left \in Seq(Symbols) /\ Parse[d].out \in Payloads BY <3>10 DEF Readings
    <3> DEFINE out == Parse[d].out
               last == CompletedBy[Parse[d].left]
    <3>12. out \in Payloads /\ last \in Payloads BY <3>11, CompletedIs
    <3>13. CompletedBy[d] = out \o last BY <3>9 DEF Kept
    <3>14. WellFormed(Parse[d].left \o rest) BY <3>9 DEF Kept
    <3>15. CompletedBy[Parse[b].left] = last BY <3>7
    <3>16. Parse[b].out = p \o out BY <3>7
    <3> HIDE DEF out, last
    <3>17. p \o (out \o last) = (p \o out) \o last
      BY ONLY <3>5, <3>12, PayloadsAssociative
    <3>18. CompletedBy[b] = Parse[b].out \o CompletedBy[Parse[b].left]
      BY <3>6, <3>13, <3>15, <3>16, <3>17
    <3> QED BY <3>7, <3>14, <3>18 DEF Kept
  <2> QED BY <2>1, <2>2, <2>3, VerdictIs
<1>2. 0 \in T
  <2> SUFFICES ASSUME NEW b \in Seq(Symbols), NEW rest \in Seq(Symbols),
                      Len(b) <= 0, WellFormed(b \o rest)
               PROVE  Kept(b, rest)
    OBVIOUS
  <2>1. \A d \in Seq(Symbols) : ~(Len(d) < Len(b)) OBVIOUS
  <2> QED BY <1>1, <2>1
<1>3. ASSUME NEW n \in T PROVE n + 1 \in T
  <2> SUFFICES ASSUME NEW b \in Seq(Symbols), NEW rest \in Seq(Symbols),
                      Len(b) <= n + 1, WellFormed(b \o rest)
               PROVE  Kept(b, rest)
    OBVIOUS
  <2>1. n \in Nat OBVIOUS
  <2>2. \A d \in Seq(Symbols) :
          Len(d) < Len(b) /\ WellFormed(d \o rest) => Kept(d, rest)
    <3> TAKE d \in Seq(Symbols)
    <3>1. Len(d) < Len(b) => Len(d) <= n BY <2>1
    <3> QED BY <3>1
  <2> QED BY <1>1, <2>2
<1> HIDE DEF T
<1>4. T = Nat BY <1>2, <1>3, SetInduction DEF T
<1> SUFFICES ASSUME NEW b \in Seq(Symbols), NEW rest \in Seq(Symbols), WellFormed(b \o rest)
             PROVE  Kept(b, rest)
  OBVIOUS
<1>5. Len(b) \in T /\ Len(b) <= Len(b) BY <1>4
<1> QED BY <1>5 DEF T

-----------------------------------------------------------------------------
(* The stream *)

(* Behind one another, what is in the buffer and what is on its way hold   *)
(* no intact CRC without the packet it closes: whatever was lost before    *)
(* it, the parser finds the packet.                                        *)
PacketInv ==
  /\ buffer \in Seq(Symbols) /\ flight \in Seq(Symbols)
  /\ WellFormed(buffer \o flight)
  /\ PacketsDelivered

LEMMA Joined ==
  \A p, q \in Seq(Symbols) :
    /\ p \o q \in Seq(Symbols) /\ Len(p \o q) = Len(p) + Len(q)
    /\ \A i \in 1 .. Len(p) + Len(q) :
         (p \o q)[i] = IF i <= Len(p) THEN p[i] ELSE q[i - Len(p)]
BY ConcatProperties

(* A packet that is made of two, two and one symbols. *)
MadeOf(packet, p, q, r) ==
  /\ packet \in Seq(Symbols) /\ Len(packet) = 5
  /\ packet[1] = p[1] /\ packet[2] = p[2]
  /\ packet[3] = q[1] /\ packet[4] = q[2] /\ packet[5] = r[1]

LEMMA PutTogether ==
  ASSUME NEW p \in Seq(Symbols), NEW q \in Seq(Symbols), NEW r \in Seq(Symbols)
  PROVE  Len(p) = 2 /\ Len(q) = 2 /\ Len(r) = 1 => MadeOf(p \o q \o r, p, q, r)
<1> DEFINE pq == p \o q
           pqr == pq \o r
<1>1. /\ pq \in Seq(Symbols) /\ Len(pq) = Len(p) + Len(q)
      /\ \A i \in 1 .. Len(p) + Len(q) :
           pq[i] = IF i <= Len(p) THEN p[i] ELSE q[i - Len(p)]
  BY Joined
<1> HIDE DEF pq
<1>2. /\ pqr \in Seq(Symbols) /\ Len(pqr) = Len(pq) + Len(r)
      /\ \A i \in 1 .. Len(pq) + Len(r) :
           pqr[i] = IF i <= Len(pq) THEN pq[i] ELSE r[i - Len(pq)]
  BY <1>1, Joined
<1> HIDE DEF pqr
<1>3. ASSUME Len(p) = 2, Len(q) = 2, Len(r) = 1
      PROVE  /\ pqr \in Seq(Symbols) /\ Len(pqr) = 5 /\ pqr[1] = p[1] /\ pqr[2] = p[2]
             /\ pqr[3] = q[1] /\ pqr[4] = q[2] /\ pqr[5] = r[1]
  <2>1. Len(pq) = 4 /\ \A i \in 1 .. 4 : pq[i] = IF i <= 2 THEN p[i] ELSE q[i - 2]
    BY ONLY <1>1, <1>3
  <2>2. Len(pqr) = 5 /\ \A i \in 1 .. 5 : pqr[i] = IF i <= 4 THEN pq[i] ELSE r[i - 4]
    BY ONLY <1>2, <1>3, <2>1
  <2>3. pq[1] = p[1] /\ pq[2] = p[2] /\ pq[3] = q[1] /\ pq[4] = q[2] BY ONLY <2>1
  <2>4. /\ pqr[1] = pq[1] /\ pqr[2] = pq[2] /\ pqr[3] = pq[3]
        /\ pqr[4] = pq[4] /\ pqr[5] = r[1]
    BY ONLY <2>2
  <2> QED BY ONLY <1>2, <2>2, <2>3, <2>4
<1> QED BY <1>3 DEF pqr, pq, MadeOf

(* Whole packets, corrupt ones and what is left of mutilated ones.         *)
LEMMA PacketsSent ==
  ASSUME NEW packet \in Intact \cup Corrupt \cup Mutilated
  PROVE  packet \in Seq(Symbols) /\ WellFormed(packet)
<1> DEFINE Noise == Symbols \ DOMAIN Completes
<1>1. ASSUME NEW s \in Seq(Noise) PROVE s \in Seq(Symbols) /\ WellFormed(s)
  <2>1. \A i \in 1 .. Len(s) : s[i] \in Noise OBVIOUS
  <2>2. s \in Seq(Symbols) BY <2>1
  <2> QED BY <2>1, <2>2 DEF WellFormed
<1>2. /\ "fa" \in Noise /\ "hd" \in Noise /\ "long" \in Noise
      /\ "x" \in Noise /\ "crcBad" \in Noise
  BY AlphabetIs DEF Symbols
<1>3. CASE packet \in Corrupt
  <2> HIDE DEF Noise
  <2>1. packet = <<"fa", "hd", "x", "x", "crcBad">> BY <1>3 DEF Corrupt
  <2>2. packet \in Seq(Noise) BY <1>2, <2>1
  <2> QED BY <1>1, <2>2
<1>4. CASE packet \in Mutilated
  <2> DEFINE t == <<"fa", "hd", "fa", "long", "crcBad">>
  <2> HIDE DEF Noise
  <2>1. t \in Seq(Noise) /\ Len(t) = 5 BY <1>2
  <2>2. PICK i \in {1, 3, 4} : packet = SubSeq(t, 1, i - 1) \o SubSeq(t, i + 1, Len(t))
    BY <1>4 DEF Mutilated, RemoveAt
  <2> HIDE DEF t
  <2>3. SubSeq(t, 1, i - 1) \in Seq(Noise) BY <2>1, SMTT(30)
  <2>4. SubSeq(t, i + 1, Len(t)) \in Seq(Noise)
    <3>1. i + 1 \in Int /\ Len(t) \in Int BY <2>1
    <3>2. \A j \in i + 1 .. Len(t) : t[j] \in Noise
      <4>1. ASSUME NEW S, NEW s \in Seq(S) PROVE \A j \in 1 .. Len(s) : s[j] \in S
        OBVIOUS
      <4>2. \A j \in 1 .. Len(t) : t[j] \in Noise BY <2>1, <4>1
      <4> QED BY <4>2
    <3> QED BY <3>1, <3>2, SubSeqProperties
  <2>5. packet \in Seq(Noise) BY <2>2, <2>3, <2>4
  <2> QED BY <1>1, <2>5
<1>5. CASE packet \in Intact
  <2>1. PICK kind \in Kinds : packet = <<"fa", "hd">> \o PayloadOf[kind] \o <<CrcOf[kind]>>
    BY <1>5 DEF Intact
  <2>2. \/ packet = <<"fa", "hd">> \o <<"x", "x">> \o <<"crcPlain">>
        \/ packet = <<"fa", "hd">> \o <<"fa", "long">> \o <<"crcTrap">>
    BY <2>1, AlphabetIs DEF Kinds
  <2>3. /\ packet \in Seq(Symbols) /\ Len(packet) = 5
        /\ packet[1] = "fa" /\ packet[2] = "hd"
        /\ \/ packet[3] = "x" /\ packet[4] = "x" /\ packet[5] = "crcPlain"
           \/ packet[3] = "fa" /\ packet[4] = "long" /\ packet[5] = "crcTrap"
    <3> DEFINE a == <<"fa", "hd">>
               c == <<"x", "x">>
               e == <<"fa", "long">>
               f == <<"crcPlain">>
               g == <<"crcTrap">>
    <3>1. /\ a \in Seq(Symbols) /\ Len(a) = 2 /\ a[1] = "fa" /\ a[2] = "hd"
          /\ c \in Seq(Symbols) /\ Len(c) = 2 /\ c[1] = "x" /\ c[2] = "x"
          /\ e \in Seq(Symbols) /\ Len(e) = 2 /\ e[1] = "fa" /\ e[2] = "long"
          /\ f \in Seq(Symbols) /\ Len(f) = 1 /\ f[1] = "crcPlain"
          /\ g \in Seq(Symbols) /\ Len(g) = 1 /\ g[1] = "crcTrap"
      BY DEF Symbols
    <3>3. packet = a \o c \o f \/ packet = a \o e \o g BY <2>2
    <3> HIDE DEF a, c, e, f, g
    <3>4. CASE packet = a \o c \o f
      <4>1. MadeOf(packet, a, c, f) BY <3>1, <3>4, PutTogether
      <4> QED BY <3>1, <4>1 DEF MadeOf
    <3>5. CASE packet = a \o e \o g
      <4>1. MadeOf(packet, a, e, g) BY <3>1, <3>5, PutTogether
      <4> QED BY <3>1, <4>1 DEF MadeOf
    <3> QED BY <3>3, <3>4, <3>5
  <2>4. WellFormed(packet)
    <3> SUFFICES ASSUME NEW i \in 1 .. Len(packet), packet[i] \in DOMAIN Completes
                 PROVE  Closed(packet, i)
      BY DEF WellFormed
    <3>1. i \in 1 .. 5 BY <2>3
    <3>2. i = 5 BY <2>3, <3>1, AlphabetIs
    <3>3. 5 - 4 = 1 /\ 5 - 3 = 2 /\ 5 - 2 = 3 /\ 5 - 1 = 4 /\ 5 > 4 OBVIOUS
    <3> QED BY <2>3, <3>2, <3>3 DEF Closed
  <2> QED BY <2>3, <2>4
<1> QED BY <1>3, <1>4, <1>5

LEMMA SendKeeps ==
  ASSUME PacketInv, NEW packet \in Intact \cup Corrupt \cup Mutilated, Send(packet)
  PROVE  PacketInv'
<1>1. packet \in Seq(Symbols) /\ WellFormed(packet) BY PacketsSent
<1>2. flight' = flight \o packet /\ buffer' = buffer /\ owed' = owed BY DEF Send
<1>3. flight' \in Seq(Symbols) BY <1>1, <1>2 DEF PacketInv
<1>4. buffer \o (flight \o packet) = (buffer \o flight) \o packet
  BY <1>1, Associative DEF PacketInv
<1>5. buffer \o flight \in Seq(Symbols) /\ WellFormed(buffer \o flight) BY DEF PacketInv
<1>6. WellFormed((buffer \o flight) \o packet) BY <1>1, <1>5, WellFormedConcat
<1>7. buffer' \o flight' = (buffer \o flight) \o packet BY <1>2, <1>4
<1>8. WellFormed(buffer \o flight)' <=> WellFormed((buffer \o flight) \o packet)
  BY <1>7 DEF WellFormed, Closed
<1>9. PacketsDelivered' BY <1>2 DEF PacketInv, PacketsDelivered
<1> QED BY <1>2, <1>3, <1>6, <1>8, <1>9 DEF PacketInv

LEMMA ReadKeeps == ASSUME PacketInv, Vn300Read PROVE PacketInv'
<1>1. PICK k \in 1 .. Len(flight) :
        /\ flight' = SubSeq(flight, k + 1, Len(flight))
        /\ \E reading \in {Consume(buffer \o SubSeq(flight, 1, k))} : ReadAvailable(k, reading)
  BY DEF Vn300Read
<1> DEFINE read == SubSeq(flight, 1, k)
           rest == From(flight, k)
           b == buffer \o read
           left == Parse[b].left
           out == Parse[b].out
<1>2. flight \in Seq(Symbols) /\ buffer \in Seq(Symbols) BY DEF PacketInv
<1>3. ReadAvailable(k, Parse[b]) BY <1>1 DEF Consume
<1>4. flight' = rest BY <1>1 DEF From
<1>5. k \in 0 .. Len(flight) /\ Len(flight) \in Nat /\ k \in Nat BY <1>1, <1>2
<1>6. /\ rest \in Seq(Symbols) /\ Len(rest) = Len(flight) - k
      /\ \A i \in 1 .. Len(flight) - k : rest[i] = flight[i + k]
  BY <1>2, <1>5, FromIs
<1>7. read \in Seq(Symbols) /\ Len(read) = k /\ \A i \in 1 .. k : read[i] = flight[i]
  BY <1>1, <1>2
<1> HIDE DEF rest, read
<1>8. read \o rest = flight
  <2>1. read \o rest \in Seq(Symbols) /\ Len(read \o rest) = Len(flight)
    <3>1. read \in Seq(Symbols) /\ rest \in Seq(Symbols) BY <1>6, <1>7
    <3>2. read \o rest \in Seq(Symbols) /\ Len(read \o rest) = Len(read) + Len(rest)
      BY ONLY <3>1
    <3>3. Len(read) = k /\ Len(rest) = Len(flight) - k BY <1>6, <1>7
    <3>4. ASSUME NEW m \in Nat, NEW n \in Nat PROVE m + (n - m) = n OBVIOUS
    <3> QED BY <1>5, <3>2, <3>3, <3>4
  <2>2. ASSUME NEW i \in 1 .. Len(flight) PROVE (read \o rest)[i] = flight[i]
    <3>1. CASE i <= k
      <4>1. (read \o rest)[i] = read[i] BY <1>5, <1>6, <1>7, <3>1
      <4> QED BY <1>5, <1>7, <3>1, <4>1
    <3>2. CASE ~(i <= k)
      <4>1. i - k \in 1 .. Len(flight) - k /\ i - k + k = i BY <1>5, <3>2
      <4>2. (read \o rest)[i] = rest[i - k] BY <1>5, <1>6, <1>7, <3>2
      <4> QED BY <1>6, <4>1, <4>2
    <3> QED BY <3>1, <3>2
  <2> QED BY <1>2, <2>1, <2>2, SeqEqual
<1>9. b \in Seq(Symbols) BY <1>2, <1>7
<1>10. b \o rest = buffer \o flight
  <2>1. read \in Seq(Symbols) /\ rest \in Seq(Symbols) BY <1>6, <1>7
  <2>2. buffer \o (read \o rest) = (buffer \o read) \o rest
    BY <1>2, <2>1, Associative
  <2> QED BY <1>8, <2>2
<1>11. WellFormed(b \o rest)
  <2> HIDE DEF b
  <2> QED BY <1>10 DEF PacketInv
<1>12. Kept(b, rest)
  <2> HIDE DEF b
  <2> QED BY <1>6, <1>9, <1>11, ParseKeeps
<1>13. left \in Seq(Symbols) /\ out \in Payloads
  <2> HIDE DEF b
  <2>1. Parse[b] \in Readings BY <1>9, ParseIs
  <2> QED BY <2>1 DEF Readings
<1>14. buffer' = left BY <1>3 DEF ReadAvailable
<1>15. buffer' \in Seq(Symbols) /\ flight' \in Seq(Symbols) BY <1>4, <1>6, <1>13, <1>14
<1>16. WellFormed(buffer \o flight)'
  <2>1. WellFormed(left \o rest) BY <1>12 DEF Kept
  <2>2. buffer' \o flight' = left \o rest BY <1>4, <1>14
  <2> HIDE DEF left
  <2> QED BY <2>1, <2>2 DEF WellFormed, Closed
<1>17. owed' = CompletedBy[left]
  <2> DEFINE due == owed \o CompletedBy[read]
             last == CompletedBy[left]
  <2>1. due = CompletedBy[b]
    <3>1. owed = CompletedBy[buffer] BY DEF PacketInv, PacketsDelivered
    <3> QED BY <1>2, <1>7, <3>1, CompletedInTurn
  <2>2. due = out \o last BY <1>12, <2>1 DEF Kept
  <2>3. last \in Payloads BY <1>13, CompletedIs
  <2>4. owed' = IF IsPrefix(out, due) THEN SubSeq(due, Len(out) + 1, Len(due)) ELSE <<<<>>>>
    BY <1>3 DEF ReadAvailable, read
  <2> HIDE DEF due, last, out, left, b
  <2>5. ASSUME NEW S, NEW p \in Seq(S), NEW q \in Seq(S)
        PROVE  IsPrefix(p, p \o q) /\ SubSeq(p \o q, Len(p) + 1, Len(p \o q)) = q
    <3>1. /\ p \o q \in Seq(S) /\ Len(p \o q) = Len(p) + Len(q)
          /\ Len(p) \in Nat /\ Len(q) \in Nat
          /\ \A i \in 1 .. Len(p) + Len(q) :
               (p \o q)[i] = IF i <= Len(p) THEN p[i] ELSE q[i - Len(p)]
      OBVIOUS
    <3> DEFINE pq == p \o q
    <3> HIDE DEF pq
    <3>2. SubSeq(p, 1, Len(p)) = SubSeq(pq, 1, Len(p))
      <4>1. SubSeq(p, 1, Len(p)) = p BY <3>1
      <4> DEFINE d == SubSeq(pq, 1, Len(p))
      <4>2. d \in Seq(S) /\ Len(d) = Len(p) /\ \A i \in 1 .. Len(p) : d[i] = pq[i]
        BY <3>1 DEF pq
      <4> HIDE DEF d
      <4>3. \A i \in 1 .. Len(d) : d[i] = p[i] BY <3>1, <4>2 DEF pq
      <4>4. d = p BY <4>2, <4>3, SeqEqual
      <4> QED BY <4>1, <4>4 DEF d
    <3>3. IsPrefix(p, pq) BY <3>1, <3>2 DEF IsPrefix, pq
    <3>4. SubSeq(pq, Len(p) + 1, Len(pq)) = q
      <4> DEFINE d == From(pq, Len(p))
      <4>1. Len(p) \in 0 .. Len(pq) /\ pq \in Seq(S) BY <3>1 DEF pq
      <4>2. /\ d \in Seq(S) /\ Len(d) = Len(pq) - Len(p)
            /\ \A i \in 1 .. Len(pq) - Len(p) : d[i] = pq[i + Len(p)]
        BY <4>1, FromIs
      <4> HIDE DEF d
      <4>3. Len(d) = Len(q) BY <3>1, <4>2 DEF pq
      <4>4. ASSUME NEW i \in 1 .. Len(d) PROVE d[i] = q[i]
        <5>1. i + Len(p) \in 1 .. Len(p) + Len(q) /\ ~(i + Len(p) <= Len(p))
              /\ i + Len(p) - Len(p) = i
          BY <3>1, <4>3
        <5>2. pq[i + Len(p)] = q[i] BY <3>1, <5>1 DEF pq
        <5>3. i \in 1 .. Len(pq) - Len(p) BY <4>2
        <5> QED BY <4>2, <5>2, <5>3
      <4>5. d = q BY <4>2, <4>3, <4>4, SeqEqual
      <4> QED BY <4>5 DEF d, From
    <3> QED BY <3>3, <3>4 DEF pq
  <2>6. out \in Seq(Seq(Symbols)) /\ last \in Seq(Seq(Symbols)) BY <1>13, <2>3 DEF Payloads
  <2>7. IsPrefix(out, out \o last) /\ SubSeq(out \o last, Len(out) + 1, Len(out \o last)) = last
    BY <2>5, <2>6
  <2>8. owed' = last BY <2>2, <2>4, <2>7
  <2> QED BY <2>8 DEF last
<1>18. PacketsDelivered'
  <2> HIDE DEF left
  <2> QED BY <1>14, <1>17 DEF PacketsDelivered
<1> QED BY <1>15, <1>16, <1>18 DEF PacketInv

LEMMA EmptyStream ==
  <<>> \in Seq(Symbols) /\ WellFormed(<<>> \o <<>>) /\ CompletedBy[<<>>] = <<>>
<1>1. <<>> \in Seq(Symbols) /\ <<>> \o <<>> = <<>> /\ Len(<<>>) = 0 OBVIOUS
<1>2. CompletedBy[<<>>] = <<>> BY <1>1, CompletedIs
<1> QED BY <1>1, <1>2 DEF WellFormed

LEMMA PacketInductive == (Init => PacketInv) /\ (PacketInv /\ [Next]_vars => PacketInv')
<1>1. Init => PacketInv
  BY EmptyStream DEF Init, StreamInit, PacketInv, PacketsDelivered
<1>2. ASSUME PacketInv, [Next]_vars PROVE PacketInv'
  <2>1. ASSUME UNCHANGED <<buffer, flight, owed>> PROVE PacketInv'
    BY <1>2, <2>1 DEF PacketInv, PacketsDelivered, WellFormed, Closed
  <2>2. CASE \/ \E outcome \in {"held", "recorded", "refused", "undecoded"} : CanFrame(outcome)
             \/ CanLost \/ HealthTick \/ Ready \/ Terminate \/ Restart \/ UNCHANGED vars
    BY <2>1, <2>2 DEF CanFrame, CanLost, HealthTick, Ready, Terminate, Restart, vars, streamVars
  <2>3. CASE Vn300Read BY <1>2, <2>3, ReadKeeps
  <2>4. CASE Vn300Step
    <3>1. CASE \E packet \in Intact \cup Corrupt \cup Mutilated : Send(packet)
      BY <1>2, <3>1, SendKeeps
    <3>2. CASE SimulatorStarts \/ ConnectToServer
      BY <2>1, <3>2 DEF SimulatorStarts, ConnectToServer
    <3>3. CASE LinkBreaks
      <4>1. buffer' = buffer /\ owed' = owed /\ flight' = <<>> BY <3>3 DEF LinkBreaks
      <4>2. buffer \in Seq(Symbols) /\ flight \in Seq(Symbols) /\ WellFormed(buffer \o flight)
        BY <1>2 DEF PacketInv
      <4>3. WellFormed(buffer) BY <4>2, WellFormedPrefix
      <4>4. buffer' \o flight' = buffer BY <4>1, <4>2
      <4>5. WellFormed(buffer \o flight)' BY <4>3, <4>4 DEF WellFormed, Closed
      <4>6. PacketsDelivered' BY <1>2, <4>1 DEF PacketInv, PacketsDelivered
      <4> QED BY <4>1, <4>2, <4>5, <4>6, EmptyStream DEF PacketInv
    <3> QED BY <2>4, <3>1, <3>2, <3>3 DEF Vn300Step
  <2>5. CASE Fails \/ Poll
    <3>1. buffer' = <<>> /\ flight' = <<>> /\ owed' = <<>>
      BY <2>5 DEF Fails, Poll, ProcessReset, StreamReset
    <3>2. WellFormed(buffer \o flight)' BY <3>1, EmptyStream DEF WellFormed, Closed
    <3> QED BY <3>1, <3>2, EmptyStream DEF PacketInv, PacketsDelivered
  <2> QED BY <1>2, <2>2, <2>3, <2>4, <2>5 DEF Next
<1> QED BY <1>1, <1>2

(* Of the packets that arrive in full none is lost and none is made up,    *)
(* however many there are, whatever is sent between them and however they  *)
(* are cut into reads (Vn300BinaryParser::consume).                        *)
THEOREM NoPacketIsLost == Spec => []PacketsDelivered
<1>1. PacketInv => PacketsDelivered BY DEF PacketInv
<1> QED BY <1>1, PacketInductive, PTL DEF Spec
=============================================================================

------------------------- MODULE LogRetentionProofs -------------------------
(***************************************************************************)
(* Proofs about LogRetention, for all limits and sizes.                    *)
(*                                                                         *)
(* The sweep and service_web act on what they saw earlier.  That is safe   *)
(* because a marker only ever appears for a session newer than all the     *)
(* files there are: a session seen without its marker stays without it.    *)
(***************************************************************************)
EXTENDS LogRetention, NaturalsInduction, WellFoundedInduction, FiniteSetTheorems, TLAPS

(* Every file belongs to a session that was started. *)
Bounded ==
  /\ session \in 0 .. MaxSessions
  /\ DOMAIN dir \subseteq Files
  /\ \A f \in DOMAIN dir : f[1] <= session

(* An open log has a marker and a measurement, and the process is up. *)
Owned ==
  open =>
    /\ session \in Sessions
    /\ <<session, "active">> \in DOMAIN dir
    /\ <<session, "mf4">> \in DOMAIN dir

(* No log is open before the process has started its session. *)
NoneYet ==
  /\ pc \in {"down", "startLog"} \/ booting => ~open
  /\ booting => pc \in SweepPC

(* What the sweep or service_web took for completed still is. *)
StaleIsSafe ==
  /\ \A r \in todo : r.stem \in 1 .. session
  /\ \A r \in todo : "active" \notin r.paths => <<r.stem, "active">> \notin DOMAIN dir
  /\ pc = "remove" =>
       /\ victim.stem \in 1 .. session
       /\ "active" \notin left
       /\ <<victim.stem, "active">> \notin DOMAIN dir
  /\ web # "idle" =>
       /\ webSession \in 1 .. session
       /\ <<webSession, "active">> \notin DOMAIN dir
  /\ web \in {"recheck", "unlink"} => webNames # <<>>
  /\ webNames \in {<<"mf4", "raw">>, <<"raw">>, <<>>}

Inv == Bounded /\ Owned /\ NoneYet /\ StaleIsSafe

(* The initial state. *)
LEMMA InitInv == Init => Inv
BY BoundsAssumption
   DEF Init, Inv, Bounded, Owned, NoneYet, StaleIsSafe, Files, Sessions, NoVictim

-----------------------------------------------------------------------------
(* How the steps change the directory *)

(* Removing a file leaves exactly the others. *)
LEMMA UnlinkDomain ==
  ASSUME NEW s, NEW k, Unlink(s, k)
  PROVE  DOMAIN dir' = DOMAIN dir \ {<<s, k>>}
BY DEF Unlink, Restrict

(* New files are all of the next session. *)
LEMMA WithFilesDomain ==
  ASSUME NEW kinds, dir' = WithFiles(kinds)
  PROVE  DOMAIN dir' = DOMAIN dir \cup ({session + 1} \X kinds)
BY DEF WithFiles

(* As long as no file is added and only the session, the sweep's and the   *)
(* web's variables stay, a smaller directory keeps the stale pictures safe. *)
LEMMA FewerFiles ==
  ASSUME Inv, DOMAIN dir' \subseteq DOMAIN dir,
         UNCHANGED <<pc, booting, open, session, todo, victim, webVars>>,
         left' \subseteq left,
         open => /\ <<session, "active">> \in DOMAIN dir'
                 /\ <<session, "mf4">> \in DOMAIN dir'
  PROVE  Inv'
BY DEF Inv, Bounded, Owned, NoneYet, StaleIsSafe, SweepPC, webVars

(* What is left of the names service_web goes through. *)
LEMMA NamesLeft ==
  ASSUME webNames \in {<<"mf4", "raw">>, <<"raw">>, <<>>}, webNames # <<>>
  PROVE  Tail(webNames) \in {<<"raw">>, <<>>} /\ webNames[1] \in {"mf4", "raw"}
<1>1. CASE webNames = <<"mf4", "raw">>
  BY <1>1
<1>2. CASE webNames = <<"raw">>
  BY <1>2
<1>3. QED
  BY <1>1, <1>2

-----------------------------------------------------------------------------
(* The step lemma: each action keeps Inv. *)
LEMMA StepInv == Inv /\ [Next]_vars => Inv'
<1> SUFFICES ASSUME Inv, [Next]_vars PROVE Inv'
  OBVIOUS
<1> USE BoundsAssumption
<1> USE DEF Inv, Bounded, Owned, NoneYet, StaleIsSafe, Files, Sessions, SweepPC, sweepVars, webVars,
         worldVars
<1>1. CASE Boot
  BY <1>1 DEF Boot
<1>2. CASE CleanupTimer
  BY <1>2 DEF CleanupTimer
<1>3. CASE Scan
  <2>1. \A r \in todo' : \E s \in Listed : r = Scanned(s)
    BY <1>3 DEF Scan
  <2>2. \A s \in Listed : s \in 1 .. session
    BY DEF Listed, FilesOf
  <2>3. \A r \in todo' : r.stem \in 1 .. session
    BY <2>1, <2>2 DEF Scanned
  <2>4. \A r \in todo' : "active" \notin r.paths => <<r.stem, "active">> \notin DOMAIN dir
    BY <2>1 DEF Scanned, Has, Kinds
  <2>5. QED
    BY <1>3, <2>3, <2>4 DEF Scan
<1>4. CASE NoDirectory
  BY <1>4 DEF NoDirectory, EndSweep, ForgetSweep
<1>5. CASE Skip
  BY <1>5 DEF Skip
<1>6. CASE Choose
  <2>1. PICK r \in todo : /\ Deletable(r)
                          /\ todo' = todo \ {r}
                          /\ victim' = r /\ left' = r.paths
    BY <1>6 DEF Choose
  <2>2. QED
    BY <1>6, <2>1 DEF Choose, Deletable
<1>7. CASE RemoveFile
  <2>1. DOMAIN dir' = DOMAIN dir \ {<<victim.stem, NextPath>>}
    BY <1>7, UnlinkDomain DEF RemoveFile
  <2>2. open => victim.stem # session
    BY <1>7 DEF RemoveFile
  <2>3. open => /\ <<session, "active">> \in DOMAIN dir'
                /\ <<session, "mf4">> \in DOMAIN dir'
    BY <2>1, <2>2
  <2>4. QED
    BY <1>7, <2>1, <2>3, FewerFiles DEF RemoveFile
<1>8. CASE RemoveFails
  BY <1>8 DEF RemoveFails
<1>9. CASE Account
  BY <1>9 DEF Account, Measure
<1>10. CASE Rescan
  BY <1>10 DEF Rescan
<1>11. CASE Verdict
  BY <1>11 DEF Verdict, EndSweep, ForgetSweep
<1>12. CASE StartLog
  <2>1. PICK kinds \in {Kinds, Kinds \ {"raw"}} : dir' = WithFiles(kinds)
    BY <1>12 DEF StartLog
  <2>2. kinds \subseteq Kinds /\ "active" \in kinds /\ "mf4" \in kinds
    BY DEF Kinds
  <2>3. DOMAIN dir' = DOMAIN dir \cup ({session + 1} \X kinds)
    BY <2>1, WithFilesDomain
  <2>4. session' = session + 1 /\ session' \in Sessions
    BY <1>12 DEF StartLog
  <2>5. QED
    BY <1>12, <2>2, <2>3, <2>4 DEF StartLog
<1>13. CASE StartLogFails
  <2>1. CASE UNCHANGED <<session, dir>>
    BY <1>13, <2>1 DEF StartLogFails
  <2>2. CASE ~UNCHANGED <<session, dir>>
    <3>1. PICK kinds \in SUBSET Kinds : dir' = WithFiles(kinds)
      BY <1>13, <2>2 DEF StartLogFails
    <3>2. DOMAIN dir' = DOMAIN dir \cup ({session + 1} \X kinds)
      BY <3>1, WithFilesDomain
    <3>3. session' = session + 1 /\ session' \in Sessions
      BY <1>13, <2>2 DEF StartLogFails
    <3>4. ~open
      BY <1>13 DEF StartLogFails
    <3>5. QED
      BY <1>13, <3>2, <3>3, <3>4 DEF StartLogFails
  <2>3. QED
    BY <2>1, <2>2
<1>14. CASE WriteLog
  BY <1>14 DEF WriteLog, Disturb
<1>15. CASE Quit
  BY <1>15 DEF Quit
<1>16. CASE CloseLog
  <2>1. DOMAIN dir' \subseteq DOMAIN dir
    BY <1>16, UnlinkDomain DEF CloseLog
  <2>2. QED
    BY <1>16, <2>1 DEF CloseLog
<1>17. CASE Crash
  BY <1>17 DEF Crash, ForgetSweep
<1>18. ASSUME NEW s \in Sessions, WebDelete(s) PROVE Inv'
  BY <1>18 DEF WebDelete, Has
<1>19. CASE WebStat
  <2>1. webNames' \in {<<"mf4", "raw">>, <<"raw">>, <<>>}
    BY <1>19, NamesLeft DEF WebStat, WebReturns
  <2>2. QED
    BY <1>19, <2>1 DEF WebStat, WebReturns
<1>20. CASE WebRecheck
  BY <1>20 DEF WebRecheck, WebReturns
<1>21. CASE WebUnlink
  <2>1. webNames' \in {<<"mf4", "raw">>, <<"raw">>, <<>>}
    BY <1>21, NamesLeft DEF WebUnlink, WebReturns
  <2>2. DOMAIN dir' \subseteq DOMAIN dir
    BY <1>21, UnlinkDomain DEF WebUnlink
  <2>3. open => <<session, "active">> \in DOMAIN dir' /\ <<session, "mf4">> \in DOMAIN dir'
    <3>1. webSession # session \/ ~open
      BY <1>21 DEF WebUnlink
    <3>2. dir' = dir \/ DOMAIN dir' = DOMAIN dir \ {<<webSession, webNames[1]>>}
      BY <1>21, UnlinkDomain DEF WebUnlink
    <3>3. QED
      BY <3>1, <3>2
  <2>4. QED
    BY <1>21, <2>1, <2>2, <2>3 DEF WebUnlink, WebReturns
<1>22. CASE OthersWrite
  BY <1>22 DEF OthersWrite
<1>23. CASE Age
  BY <1>23 DEF Age
<1>24. CASE UNCHANGED vars
  BY <1>24 DEF vars
<1>25. CASE Remeasure
  BY <1>25 DEF Remeasure, Measure
<1>26. QED
  BY <1>1, <1>2, <1>3, <1>4, <1>5, <1>6, <1>7, <1>8, <1>9, <1>10, <1>11, <1>12,
     <1>13, <1>14, <1>15, <1>16, <1>17, <1>18, <1>19, <1>20, <1>21, <1>22, <1>23,
     <1>24, <1>25
     DEF Next, LoggerStep, SweepStep, WebStep

(* Inv is an invariant. *)
LEMMA Inductive == Spec => []Inv
BY InitInv, StepInv, PTL DEF Spec

-----------------------------------------------------------------------------
(* The marker and the measurement of the session being written stay in     *)
(* place (CurrentSessionIntact), whatever limits are set and whoever       *)
(* deletes sessions at the same time.                                      *)
THEOREM CurrentSessionStays == Spec => []CurrentSessionIntact
<1>1. Inv => CurrentSessionIntact
  BY DEF Inv, Owned, CurrentSessionIntact, Has
<1>2. QED
  BY <1>1, Inductive, PTL

(* Every file that disappears from under a marker is the marker of the     *)
(* open session, taken away by close() (MarkedIsProtected).                *)
LEMMA StepProtects ==
  ASSUME Inv, [Next]_vars, NEW f \in DOMAIN dir, f \notin DOMAIN dir', Has(f[1], "active")
  PROVE  pc = "closeLog" /\ open /\ f = <<session, "active">>
<1> USE DEF Inv, Bounded, StaleIsSafe, Has, sweepVars, webVars, worldVars
<1>1. CASE RemoveFile
  <2>1. f = <<victim.stem, NextPath>>
    BY <1>1, UnlinkDomain DEF RemoveFile
  <2>2. f[1] = victim.stem
    BY <2>1
  <2>3. QED
    BY <1>1, <2>2 DEF RemoveFile
<1>2. CASE WebUnlink
  <2>1. f = <<webSession, webNames[1]>>
    BY <1>2, UnlinkDomain DEF WebUnlink
  <2>2. f[1] = webSession
    BY <2>1
  <2>3. QED
    BY <1>2, <2>2 DEF WebUnlink
<1>3. CASE CloseLog
  BY <1>3, UnlinkDomain, ZenonT(30) DEF CloseLog
<1>4. CASE StartLog
  <2>1. PICK kinds \in {Kinds, Kinds \ {"raw"}} : dir' = WithFiles(kinds)
    BY <1>4 DEF StartLog
  <2>2. QED
    BY <2>1, WithFilesDomain
<1>5. CASE StartLogFails
  <2>1. dir' = dir \/ \E kinds \in SUBSET Kinds : dir' = WithFiles(kinds)
    BY <1>5 DEF StartLogFails
  <2>2. QED
    BY <2>1, WithFilesDomain
<1>6. CASE WriteLog
  BY <1>6 DEF WriteLog
<1>7. ASSUME UNCHANGED dir PROVE FALSE
  BY <1>7
<1>8. QED
  <2>1. \/ RemoveFile \/ WebUnlink \/ CloseLog \/ StartLog \/ StartLogFails \/ WriteLog
        \/ UNCHANGED dir
    BY DEF Next, LoggerStep, SweepStep, WebStep, vars, Boot, CleanupTimer, Quit, Crash,
           OthersWrite, Age, Scan, NoDirectory, EndSweep, Skip, Choose, RemoveFails,
           Account, Rescan, Remeasure, Verdict, WebDelete, WebStat, WebRecheck
  <2>2. QED
    BY <2>1, <1>1, <1>2, <1>3, <1>4, <1>5, <1>6, <1>7

(* The protection of active and incomplete sessions: in every behaviour no *)
(* step deletes a file whose session has a marker, but for the marker that *)
(* close() removes (MarkedIsProtected).                                    *)
THEOREM MarkerProtects == Spec => MarkedIsProtected
<1>1. Inv /\ [Next]_vars =>
        [\A f \in DOMAIN dir : f \notin DOMAIN dir' /\ Has(f[1], "active") =>
            pc = "closeLog" /\ open /\ f = <<session, "active">>]_vars
  BY StepProtects
<1>2. QED
  BY <1>1, Inductive, PTL DEF Spec, MarkedIsProtected

-----------------------------------------------------------------------------
(* The sweep goes from the oldest session to the newest *)

InSweep == pc \in {"examine", "remove"}

LimitsExceeded ==
  \/ MaxTotal > 0 /\ managed > MaxTotal
  \/ available >= 0 /\ available < MinFree

(* The records still to be examined are of their own sessions, a record    *)
(* older than one that is too old is too old; what the scan saw is still   *)
(* all there is: files have gone since, but markers have not.              *)
Pictures ==
  InSweep =>
    /\ \A q, r \in todo : q.stem = r.stem => q = r
    /\ \A q, r \in todo : q.old /\ r.stem <= q.stem => r.old
    /\ \A r \in todo : \A k \in Kinds : <<r.stem, k>> \in DOMAIN dir => k \in r.paths
    /\ \A r \in todo : "active" \in r.paths => <<r.stem, "active">> \in DOMAIN dir

(* The victim is older than what is still to be examined, and its files    *)
(* that are left are those still to be removed.                            *)
VictimNext ==
  pc = "remove" =>
    /\ \A r \in todo : victim.stem < r.stem
    /\ \A k \in Kinds : <<victim.stem, k>> \in DOMAIN dir => k \in left

(* Sessions are passed over without need only while the directory is       *)
(* within the limits and nothing that follows is too old.                  *)
Spared ==
  /\ pc = "examine"
  /\ ~LimitsExceeded
  /\ \A r \in todo : ~r.old

Settled(s) ==
  \/ \E r \in todo : r.stem = s
  \/ pc = "remove" /\ s = victim.stem
  \/ <<s, "active">> \in DOMAIN dir
  \/ s \in failed
  \/ Spared

AllSettled == InSweep => \A f \in DOMAIN dir : Settled(f[1])

SweepInv == Inv /\ aged \in Nat /\ Pictures /\ VictimNext /\ AllSettled

(* While the sweep runs, nobody else makes a file or takes a marker away.  *)
LEMMA FewerInSweep ==
  ASSUME SweepInv, InSweep, UNCHANGED <<pc, todo, victim, left, failed, managed, available>>,
         DOMAIN dir' \subseteq DOMAIN dir,
         \A s : <<s, "active">> \in DOMAIN dir => <<s, "active">> \in DOMAIN dir'
  PROVE  Pictures' /\ VictimNext' /\ AllSettled'
BY DEF SweepInv, Pictures, VictimNext, AllSettled, Settled, Spared, LimitsExceeded, InSweep

(* What the scan records of a session. *)
LEMMA ScannedIs ==
  ASSUME NEW s
  PROVE  /\ Scanned(s).stem = s
         /\ Scanned(s).bytes = BytesOf(s)
         /\ Scanned(s).old <=> s <= aged
         /\ \A k \in Kinds : <<s, k>> \in DOMAIN dir <=> k \in Scanned(s).paths
<1>1. Scanned(s).stem = s /\ Scanned(s).bytes = BytesOf(s)
  BY DEF Scanned
<1>2. Scanned(s).old <=> s <= aged
  BY ZenonT(20) DEF Scanned
<1>3. Scanned(s).paths = {k \in Kinds : Has(s, k)}
  BY DEF Scanned
<1> QED BY <1>1, <1>2, <1>3 DEF Has

LEMMA SweepStepInv == SweepInv /\ [Next]_vars => SweepInv'
<1> SUFFICES ASSUME SweepInv, [Next]_vars PROVE Pictures' /\ VictimNext' /\ AllSettled'
  <2>1. SweepInv /\ [Next]_vars => aged' \in Nat
    BY DEF SweepInv, Next, LoggerStep, SweepStep, WebStep, vars, Boot, CleanupTimer, Quit, Crash,
           OthersWrite, Age, NoDirectory, EndSweep, StartLog, StartLogFails, CloseLog, Scan,
           Skip, Choose, RemoveFile, RemoveFails, Account, WriteLog, WebUnlink,
           Rescan, Remeasure, Verdict, WebDelete, WebStat, WebRecheck, worldVars
  <2> QED BY <2>1, StepInv DEF SweepInv
<1> USE DEF InSweep, sweepVars, webVars, worldVars
<1>0. Inv BY DEF SweepInv
<1>1. ASSUME ~InSweep' PROVE Pictures' /\ VictimNext' /\ AllSettled'
  BY <1>1 DEF Pictures, VictimNext, AllSettled
<1>2. ASSUME InSweep, UNCHANGED <<pc, todo, victim, left, failed, managed, available, dir>>
      PROVE  Pictures' /\ VictimNext' /\ AllSettled'
  BY <1>2, FewerInSweep
<1>3. CASE Scan
  <2>1. todo' = {Scanned(s) : s \in Listed} /\ dir' = dir /\ pc' = "examine"
    BY <1>3 DEF Scan
  <2>2. \A r \in todo' : r = Scanned(r.stem) /\ r.stem \in Listed
    BY <2>1, ScannedIs
  <2>3. Pictures'
    <3>1. \A r \in todo' : \A k \in Kinds : <<r.stem, k>> \in DOMAIN dir <=> k \in r.paths
      BY <2>2, ScannedIs
    <3>2. \A r \in todo' : r.old <=> r.stem <= aged
      BY <2>2, ScannedIs
    <3>3. \A r \in todo' : r.stem \in Nat /\ aged' = aged
      BY <1>3, <2>2 DEF Listed, Sessions, Scan
    <3>4. \A q, r \in todo' : q.stem = r.stem => q = r
      BY <2>2
    <3>5. "active" \in Kinds
      BY DEF Kinds
    <3>6. \A q, r \in todo' : q.old /\ r.stem <= q.stem => r.old
      <4>1. aged \in Int
        BY DEF SweepInv
      <4> QED BY <3>2, <3>3, <4>1
    <3> QED BY <2>1, <3>1, <3>4, <3>5, <3>6 DEF Pictures
  <2>4. \A f \in DOMAIN dir : f[1] \in Listed
    BY <1>0 DEF Inv, Bounded, Files, Listed, FilesOf
  <2>5. \A s \in Listed : \E r \in todo' : r.stem = s
    BY <2>1, ScannedIs
  <2> QED BY <2>1, <2>3, <2>4, <2>5 DEF VictimNext, AllSettled, Settled
<1>4. CASE Skip
  <2>1. PICK r \in todo : Oldest(r) /\ ~Deletable(r) /\ todo' = todo \ {r}
    BY <1>4 DEF Skip
  <2>2. pc = "examine" /\ UNCHANGED <<pc, dir, victim, left, managed, available, failed>>
    BY <1>4 DEF Skip
  <2>3. <<r.stem, "active">> \in DOMAIN dir \/ Spared'
    <3>1. CASE "active" \in r.paths
      BY <2>1, <2>2, <3>1 DEF SweepInv, Pictures
    <3>2. CASE "active" \notin r.paths
      <4>1. ~LimitsExceeded /\ ~r.old
        BY <2>1, <3>2 DEF Deletable, Exceeded, LimitsExceeded
      <4>2. \A q \in todo : ~q.old
        BY <2>1, <2>2, <4>1 DEF Oldest, SweepInv, Pictures
      <4> QED BY <2>1, <2>2, <4>1, <4>2 DEF Spared, LimitsExceeded
    <3> QED BY <3>1, <3>2
  <2>4. Spared => Spared'
    BY <2>1, <2>2 DEF Spared, LimitsExceeded
  <2>5. \A f \in DOMAIN dir : Settled(f[1])
    BY <2>2 DEF SweepInv, AllSettled
  <2>6. \A f \in DOMAIN dir : Settled(f[1])'
    <3>1. ASSUME NEW s, Settled(s) PROVE Settled(s)'
      <4>1. CASE \E q \in todo : q.stem = s
        <5>1. \/ \E q \in todo' : q.stem = s
              \/ <<s, "active">> \in DOMAIN dir
              \/ Spared'
          BY <2>1, <2>3, <4>1
        <5> QED BY <2>2, <5>1 DEF Settled
      <4>2. CASE ~\E q \in todo : q.stem = s
        BY <2>2, <2>4, <3>1, <4>2 DEF Settled
      <4> QED BY <4>1, <4>2
    <3> QED BY <2>5, <3>1
  <2> QED BY <2>1, <2>2, <2>6 DEF SweepInv, Pictures, VictimNext, AllSettled
<1>5. CASE Choose
  <2>1. PICK r \in todo : /\ Oldest(r) /\ Deletable(r) /\ todo' = todo \ {r}
                          /\ victim' = r /\ left' = r.paths
    BY <1>5 DEF Choose
  <2>2. pc = "examine" /\ pc' = "remove" /\ UNCHANGED <<dir, managed, available, failed>>
    BY <1>5 DEF Choose
  <2>3. ~Spared
    BY <2>1 DEF Spared, Deletable, Exceeded, LimitsExceeded
  <2>4. \A f \in DOMAIN dir : Settled(f[1])'
    <3> SUFFICES ASSUME NEW f \in DOMAIN dir PROVE Settled(f[1])' OBVIOUS
    <3>1. Settled(f[1]) BY <2>2 DEF SweepInv, AllSettled
    <3> QED BY <2>1, <2>2, <2>3, <3>1 DEF Settled
  <2>5. \A q \in todo' : r.stem < q.stem
    <3> SUFFICES ASSUME NEW q \in todo' PROVE r.stem < q.stem OBVIOUS
    <3>1. q \in todo /\ q # r BY <2>1
    <3>2. r.stem # q.stem BY <2>2, <3>1 DEF SweepInv, Pictures
    <3>3. r.stem <= q.stem BY <2>1, <3>1 DEF Oldest
    <3>4. r.stem \in Nat /\ q.stem \in Nat
      BY <1>0, <3>1, BoundsAssumption DEF Inv, StaleIsSafe, Bounded
    <3> QED BY <3>2, <3>3, <3>4
  <2>6. \A k \in Kinds : <<r.stem, k>> \in DOMAIN dir => k \in r.paths
    BY <2>2 DEF SweepInv, Pictures
  <2> QED BY <2>1, <2>2, <2>4, <2>5, <2>6 DEF SweepInv, Pictures, VictimNext, AllSettled
<1>6. CASE RemoveFile
  <2>1. DOMAIN dir' = DOMAIN dir \ {<<victim.stem, NextPath>>}
    BY <1>6, UnlinkDomain DEF RemoveFile
  <2>2. pc = "remove" /\ left' = left \ {NextPath}
        /\ UNCHANGED <<pc, todo, victim, managed, available, failed>>
    BY <1>6 DEF RemoveFile
  <2>3. <<victim.stem, "active">> \notin DOMAIN dir
    BY <1>0, <2>2 DEF Inv, StaleIsSafe
  <2>4. \A s : <<s, "active">> \in DOMAIN dir => <<s, "active">> \in DOMAIN dir'
    BY <2>1, <2>3
  <2>5. Pictures'
    BY <2>1, <2>2, <2>4 DEF SweepInv, Pictures
  <2>6. VictimNext'
    BY <2>1, <2>2 DEF SweepInv, VictimNext
  <2>7. AllSettled'
    BY <2>1, <2>2, <2>4 DEF SweepInv, AllSettled, Settled, Spared
  <2> QED BY <2>5, <2>6, <2>7
<1>7. CASE RemoveFails
  BY <1>7 DEF RemoveFails, SweepInv, Pictures, VictimNext, AllSettled, Settled, Spared
<1>8. CASE Account
  <2>1. pc = "remove" /\ left = {} /\ pc' = "examine" /\ UNCHANGED <<dir, todo, failed>>
    BY <1>8 DEF Account
  <2>2. \A f \in DOMAIN dir : f[1] # victim.stem
    <3>1. \A f \in DOMAIN dir : f = <<f[1], f[2]>> /\ f[2] \in Kinds
      BY <1>0 DEF Inv, Bounded, Files
    <3> QED BY <2>1, <3>1 DEF SweepInv, VictimNext
  <2>3. AllSettled'
    BY <2>1, <2>2 DEF SweepInv, AllSettled, Settled, Spared
  <2> QED BY <2>1, <2>3 DEF SweepInv, Pictures, VictimNext
<1>9. CASE WebUnlink
  <2>1. CASE dir' = dir
    <3>1. UNCHANGED <<pc, todo, victim, left, failed, managed, available>>
      BY <1>9 DEF WebUnlink
    <3> QED BY <1>1, <1>2, <2>1, <3>1
  <2>2. CASE dir' # dir
    <3>1. DOMAIN dir' = DOMAIN dir \ {<<webSession, webNames[1]>>}
      BY <1>9, <2>2, UnlinkDomain DEF WebUnlink
    <3>2. <<webSession, "active">> \notin DOMAIN dir
      BY <1>0, <1>9 DEF WebUnlink, Inv, StaleIsSafe
    <3>3. \A s : <<s, "active">> \in DOMAIN dir => <<s, "active">> \in DOMAIN dir'
      BY <3>1, <3>2
    <3>4. UNCHANGED <<pc, todo, victim, left, failed, managed, available>>
      BY <1>9 DEF WebUnlink
    <3> QED BY <1>1, <3>1, <3>3, <3>4, FewerInSweep
  <2> QED BY <2>1, <2>2
<1>10. CASE WriteLog
  <2>1. DOMAIN dir' = DOMAIN dir /\ UNCHANGED <<pc, todo, victim, left, failed, managed, available>>
    BY <1>10 DEF WriteLog
  <2> QED BY <1>1, <2>1, FewerInSweep
<1>11. QED
  <2>1. \/ Scan \/ Skip \/ Choose \/ RemoveFile \/ RemoveFails \/ Account \/ WebUnlink \/ WriteLog
        \/ ~InSweep'
        \/ InSweep /\ UNCHANGED <<pc, todo, victim, left, failed, managed, available, dir>>
    BY DEF Next, LoggerStep, SweepStep, WebStep, vars, Boot, CleanupTimer, Quit, Crash,
           OthersWrite, Age, NoDirectory, EndSweep, StartLog, StartLogFails, CloseLog,
           Rescan, Remeasure, Verdict, WebDelete, WebStat, WebRecheck
  <2> QED BY <2>1, <1>1, <1>2, <1>3, <1>4, <1>5, <1>6, <1>7, <1>8, <1>9, <1>10

LEMMA SweepInductive == Spec => []SweepInv
<1>1. Init => SweepInv
  BY InitInv DEF Init, SweepInv, Pictures, VictimNext, AllSettled, InSweep
<1> QED BY <1>1, SweepStepInv, PTL DEF Spec

(* Retention takes the oldest completed session first (OldestFirst):       *)
(* whatever happens to the directory between the scan and the removal, a   *)
(* session that is older than the one being deleted is gone, has its       *)
(* marker, or could not be removed by this sweep.                          *)
THEOREM OldestGoFirst == Spec => OldestFirst
<1>1. SweepInv /\ [Next]_vars =>
        [pc = "remove" /\ left # left' /\ dir # dir' =>
           \A s \in Listed : s < victim.stem => Has(s, "active") \/ s \in failed]_vars
  <2> SUFFICES ASSUME SweepInv, pc = "remove", NEW s \in Listed, s < victim.stem
               PROVE  Has(s, "active") \/ s \in failed
    OBVIOUS
  <2>1. PICK f \in DOMAIN dir : f[1] = s BY DEF Listed, FilesOf
  <2>2. Settled(s) BY <2>1 DEF SweepInv, AllSettled, InSweep
  <2>3. \A r \in todo : victim.stem < r.stem BY DEF SweepInv, VictimNext
  <2>4. s \in Nat /\ victim.stem \in Nat /\ \A r \in todo : r.stem \in Nat
    BY BoundsAssumption DEF SweepInv, Inv, StaleIsSafe, Bounded, Sessions, Listed
  <2> QED BY <2>2, <2>3, <2>4 DEF Settled, Spared, Has
<1> QED BY <1>1, SweepInductive, PTL DEF Spec, OldestFirst
-----------------------------------------------------------------------------
(* The sessions live as SessionJournal says *)

(* Without a marker coming or going, and with the log open or not as       *)
(* before, nothing is to be seen from outside.                             *)
LEMMA SameStatus ==
  ASSUME session' = session, open' <=> open,
         \A s : <<s, "active">> \in DOMAIN dir' <=> <<s, "active">> \in DOMAIN dir
  PROVE  UNCHANGED Journal!jvars
<1>1. \A s \in Sessions : Status(s)' = Status(s)
  BY DEF Status, Has
<1> QED BY <1>1 DEF Journal!jvars

(* One session moves on, the others stay as they are. *)
LEMMA OneMoves ==
  ASSUME NEW t \in Sessions, \A s \in Sessions \ {t} : Status(s)' = Status(s),
         \/ /\ Status(t) = "unused" /\ Status(t)' = "open"
            /\ \A s \in Sessions : Status(s) # "open"
         \/ Status(t) = "open" /\ Status(t)' = "sealed"
         \/ Status(t) \in {"unused", "open"} /\ Status(t)' = "abandoned"
  PROVE  Journal!JNext
<1> DEFINE before == [s \in Sessions |-> Status(s)]
           after == [s \in Sessions |-> Status(s)']
<1>1. \A s \in Sessions : before[s] = Status(s) OBVIOUS
<1>2. after = [before EXCEPT ![t] = Status(t)'] OBVIOUS
<1> HIDE DEF before
<1>3. CASE /\ Status(t) = "unused" /\ Status(t)' = "open"
           /\ \A s \in Sessions : Status(s) # "open"
  <2>1. Journal!Open(t) BY <1>1, <1>2, <1>3 DEF Journal!Open, before
  <2> QED BY <2>1 DEF Journal!JNext
<1>4. CASE Status(t) = "open" /\ Status(t)' = "sealed"
  <2>1. Journal!Seal(t) BY <1>1, <1>2, <1>4 DEF Journal!Seal, before
  <2> QED BY <2>1 DEF Journal!JNext
<1>5. CASE Status(t) \in {"unused", "open"} /\ Status(t)' = "abandoned"
  <2>1. Journal!Abandon(t) BY <1>1, <1>2, <1>5 DEF Journal!Abandon, before
  <2> QED BY <2>1 DEF Journal!JNext
<1> QED BY <1>3, <1>4, <1>5

LEMMA JournalStep ==
  ASSUME Inv, [Next]_vars
  PROVE  Journal!JNext \/ UNCHANGED Journal!jvars
<1> USE BoundsAssumption DEF sweepVars, webVars, worldVars
<1>0. session \in Nat /\ \A s \in Sessions : s \in Nat
  BY DEF Inv, Bounded, Sessions
<1>1. CASE RemoveFile
  <2>1. DOMAIN dir' = DOMAIN dir \ {<<victim.stem, NextPath>>} /\ UNCHANGED <<session, open>>
    BY <1>1, UnlinkDomain DEF RemoveFile
  <2>2. <<victim.stem, "active">> \notin DOMAIN dir
    BY <1>1 DEF RemoveFile, Inv, StaleIsSafe
  <2> QED BY <2>1, <2>2, SameStatus
<1>2. CASE WebUnlink
  <2>1. dir' = dir \/ DOMAIN dir' = DOMAIN dir \ {<<webSession, webNames[1]>>}
    BY <1>2, UnlinkDomain DEF WebUnlink
  <2>2. <<webSession, "active">> \notin DOMAIN dir /\ UNCHANGED <<session, open>>
    BY <1>2 DEF WebUnlink, Inv, StaleIsSafe
  <2> QED BY <2>1, <2>2, SameStatus
<1>3. CASE WriteLog
  <2>1. DOMAIN dir' = DOMAIN dir /\ UNCHANGED <<session, open>>
    BY <1>3 DEF WriteLog
  <2> QED BY <2>1, SameStatus
<1>4. CASE StartLog
  <2>1. PICK kinds \in {Kinds, Kinds \ {"raw"}} : dir' = WithFiles(kinds)
    BY <1>4 DEF StartLog
  <2>2. DOMAIN dir' = DOMAIN dir \cup ({session + 1} \X kinds) /\ "active" \in kinds
    BY <2>1, WithFilesDomain DEF Kinds
  <2>3. \E t \in Sessions : t = session + 1 /\ session' = t /\ open' /\ ~open
    BY <1>0, <1>4 DEF StartLog, Sessions, Inv, NoneYet
  <2> PICK t \in Sessions : t = session + 1 /\ session' = t /\ open' /\ ~open BY <2>3
  <2>4. \A s \in Sessions \ {t} : Has(s, "active")' = Has(s, "active")
    BY <2>2 DEF Has
  <2>5. \A s \in Sessions \ {t} : Status(s)' = Status(s)
    BY <1>0, <2>3, <2>4 DEF Status
  <2>6. Status(t) = "unused" /\ \A s \in Sessions : Status(s) # "open"
    BY <1>0, <2>3 DEF Status
  <2>7. Has(t, "active")'
    BY <2>2 DEF Has
  <2>8. Status(t)' = "open"
    BY <1>0, <2>3, <2>7 DEF Status
  <2> QED BY <2>3, <2>5, <2>6, <2>8, OneMoves
<1>5. CASE StartLogFails
  <2>1. CASE UNCHANGED <<session, dir>>
    BY <1>5, <2>1, SameStatus DEF StartLogFails
  <2>2. CASE ~UNCHANGED <<session, dir>>
    <3>1. PICK kinds \in SUBSET Kinds : "active" \in kinds /\ dir' = WithFiles(kinds)
      BY <1>5, <2>2 DEF StartLogFails
    <3>2. DOMAIN dir' = DOMAIN dir \cup ({session + 1} \X kinds)
      BY <3>1, WithFilesDomain
    <3>3. \E t \in Sessions : t = session + 1 /\ session' = t /\ ~open' /\ ~open
      BY <1>0, <1>5, <2>2 DEF StartLogFails, Sessions, Inv, NoneYet
    <3> PICK t \in Sessions : t = session + 1 /\ session' = t /\ ~open' /\ ~open BY <3>3
    <3>4. \A s \in Sessions \ {t} : Has(s, "active")' = Has(s, "active")
      BY <3>2 DEF Has
    <3>5. \A s \in Sessions \ {t} : Status(s)' = Status(s)
      BY <1>0, <3>3, <3>4 DEF Status
    <3>6. Status(t) = "unused"
      BY <1>0, <3>3 DEF Status
    <3>7. Has(t, "active")'
      BY <3>1, <3>2 DEF Has
    <3>8. Status(t)' = "abandoned"
      BY <1>0, <3>3, <3>7 DEF Status
    <3> QED BY <3>3, <3>5, <3>6, <3>8, OneMoves
  <2> QED BY <2>1, <2>2
<1>6. CASE CloseLog
  <2>1. CASE ~open
    BY <1>6, <2>1, SameStatus DEF CloseLog
  <2>2. CASE open
    <3>1. session \in Sessions /\ Has(session, "active") /\ session' = session /\ ~open'
      BY <1>6, <2>2 DEF CloseLog, Inv, Owned, Has
    <3>2. Status(session) = "open"
      BY <1>0, <2>2, <3>1 DEF Status
    <3>3. dir' = dir \/ DOMAIN dir' = DOMAIN dir \ {<<session, "active">>}
      BY <1>6, UnlinkDomain DEF CloseLog
    <3>4. \A s \in Sessions \ {session} : Has(s, "active")' = Has(s, "active")
      BY <3>3 DEF Has
    <3>5. \A s \in Sessions \ {session} : Status(s)' = Status(s)
      BY <1>0, <3>1, <3>4 DEF Status
    <3>6. Status(session)' \in {"sealed", "abandoned"}
      BY <1>0, <3>1 DEF Status
    <3> QED BY <3>1, <3>2, <3>5, <3>6, OneMoves
  <2> QED BY <2>1, <2>2
<1>7. CASE Crash
  <2>1. CASE ~open
    BY <1>7, <2>1, SameStatus DEF Crash
  <2>2. CASE open
    <3>1. session \in Sessions /\ Has(session, "active") /\ session' = session /\ ~open'
          /\ dir' = dir
      BY <1>7, <2>2 DEF Crash, Inv, Owned, Has
    <3>2. Status(session) = "open" /\ Status(session)' = "abandoned"
      BY <1>0, <2>2, <3>1 DEF Status, Has
    <3>3. \A s \in Sessions \ {session} : Status(s)' = Status(s)
      BY <1>0, <3>1 DEF Status, Has
    <3> QED BY <3>1, <3>2, <3>3, OneMoves
  <2> QED BY <2>1, <2>2
<1>8. ASSUME UNCHANGED <<session, open, dir>> PROVE UNCHANGED Journal!jvars
  BY <1>8, SameStatus
<1>9. QED
  <2>1. \/ RemoveFile \/ WebUnlink \/ WriteLog \/ StartLog \/ StartLogFails \/ CloseLog \/ Crash
        \/ UNCHANGED <<session, open, dir>>
    BY DEF Next, LoggerStep, SweepStep, WebStep, vars, Boot, CleanupTimer, Quit,
           OthersWrite, Age, Scan, NoDirectory, EndSweep, Skip, Choose, RemoveFails,
           Account, Rescan, Remeasure, Verdict, WebDelete, WebStat, WebRecheck
  <2> QED BY <2>1, <1>1, <1>2, <1>3, <1>4, <1>5, <1>6, <1>7, <1>8

(* The directory implements the abstract journal (ImplementsJournal): in   *)
(* particular no session that a crash or a failed start left incomplete is *)
(* ever taken for completed, and no completed one is opened again.         *)
THEOREM SessionsLiveOnce == Spec => ImplementsJournal
<1>1. Init => Journal!JInit
  <2> SUFFICES ASSUME Init PROVE Journal!JInit OBVIOUS
  <2>1. \A s \in Sessions : Status(s) = "unused"
    BY BoundsAssumption DEF Init, Status, Sessions
  <2> QED BY <2>1 DEF Journal!JInit
<1>2. Inv /\ [Next]_vars => [Journal!JNext]_(Journal!jvars)
  BY JournalStep
<1> QED BY <1>1, <1>2, Inductive, PTL DEF Spec, ImplementsJournal, Journal!JSpec
-----------------------------------------------------------------------------
(* Sums over sets of files *)

(* A set of numbers has a least element. *)
LEMMA LeastElement ==
  ASSUME NEW T \in SUBSET Nat, T # {}
  PROVE  \E m \in T : \A k \in T : m <= k
<1> DEFINE R == OpToRel(<, Nat)
<1>1. IsWellFoundedOn(R, Nat) BY NatLessThanWellFounded
<1>2. ASSUME NEW x \in T, NEW y \in T, y < x PROVE <<y, x>> \in R
  BY <1>2 DEF OpToRel
<1> HIDE DEF R
<1>3. PICK x \in T : \A y \in T : ~(<<y, x>> \in R) BY <1>1, WFMin
<1>4. \A y \in T : ~(y < x) BY <1>2, <1>3
<1> QED BY <1>4

(* Induction, for a set. *)
LEMMA SetInduction ==
  ASSUME NEW S \in SUBSET Nat, 0 \in S, \A n \in S : n + 1 \in S
  PROVE  S = Nat
<1> SUFFICES ASSUME Nat \ S # {} PROVE FALSE OBVIOUS
<1>1. PICK m \in Nat \ S : \A k \in Nat \ S : m <= k BY LeastElement
<1>2. m # 0 OBVIOUS
<1>3. m - 1 \in Nat /\ m - 1 \notin Nat \ S BY <1>1, <1>2
<1> QED BY <1>3

(* The element that a sum takes first. *)
Chosen(s) == CHOOSE x \in s : TRUE

(* The definition of a sum, as a function that is given on some sets. *)
Iterated(g, f, D) ==
  g = [s \in D |-> IF s = {} THEN 0 ELSE f[Chosen(s)] + g[s \ {Chosen(s)}]]

(* SumFunctionOnSet is such a function. *)
LEMMA SumIs ==
  \A f, S : SumFunctionOnSet(f, S) = (CHOOSE g : Iterated(g, f, SUBSET S))[S]
BY DEF SumFunctionOnSet, FoldFunctionOnSet, MapThenFoldSet, Iterated, Chosen

(* The subsets of at most n elements. *)
Small(S, n) == {s \in SUBSET S : Cardinality(s) <= n}

(* It is an element. *)
LEMMA ChosenIn == \A s : s # {} => Chosen(s) \in s
BY DEF Chosen

(* One element less. *)
LEMMA OneLess ==
  ASSUME NEW S, IsFiniteSet(S), NEW n \in Nat, NEW s \in Small(S, n + 1), NEW x \in s
  PROVE  s \ {x} \in Small(S, n)
<1>1. IsFiniteSet(s) /\ s \in SUBSET S BY FS_Subset DEF Small
<1>2. Cardinality(s \ {x}) = Cardinality(s) - 1 /\ Cardinality(s) \in Nat
  BY <1>1, FS_RemoveElement, FS_CardinalityType
<1> QED BY <1>1, <1>2 DEF Small

(* The small subsets grow from the empty set to all of them. *)
LEMMA SmallSets ==
  ASSUME NEW S, IsFiniteSet(S)
  PROVE  /\ Small(S, 0) = {{}}
         /\ \A n \in Nat : Small(S, n) \subseteq Small(S, n + 1)
         /\ Cardinality(S) \in Nat
         /\ Small(S, Cardinality(S)) = SUBSET S
<1>1. \A s \in SUBSET S : IsFiniteSet(s) /\ Cardinality(s) \in Nat /\ Cardinality(s) <= Cardinality(S)
  BY FS_Subset, FS_CardinalityType
<1>2. \A s \in SUBSET S : Cardinality(s) <= 0 <=> s = {}
  BY <1>1, FS_EmptySet
<1> QED BY <1>1, <1>2, FS_CardinalityType DEF Small

(* The definition has a solution, built up by the size of the subsets. *)
LEMMA IteratedExists ==
  ASSUME NEW f, NEW S, IsFiniteSet(S)
  PROVE  \E g : Iterated(g, f, SUBSET S)
<1> DEFINE N == {n \in Nat : \E g : Iterated(g, f, Small(S, n))}
<1>1. 0 \in N
  <2>1. Iterated([s \in Small(S, 0) |-> 0], f, Small(S, 0))
    BY SmallSets DEF Iterated
  <2> QED BY <2>1
<1>2. ASSUME NEW n \in N PROVE n + 1 \in N
  <2>1. n \in Nat OBVIOUS
  <2>2. PICK g : Iterated(g, f, Small(S, n)) OBVIOUS
  <2> DEFINE h == [s \in Small(S, n + 1) |->
                     IF s = {} THEN 0 ELSE f[Chosen(s)] + g[s \ {Chosen(s)}]]
  <2>3. \A s \in Small(S, n) : h[s] = g[s]
    BY <2>1, <2>2, SmallSets DEF Iterated
  <2>4. \A s \in Small(S, n + 1) : s # {} => s \ {Chosen(s)} \in Small(S, n)
    BY <2>1, OneLess, ChosenIn
  <2>5. h = [s \in Small(S, n + 1) |->
                     IF s = {} THEN 0 ELSE f[Chosen(s)] + h[s \ {Chosen(s)}]]
    <3> HIDE DEF h
    <3>1. \A s \in Small(S, n + 1) : s # {} => g[s \ {Chosen(s)}] = h[s \ {Chosen(s)}]
      BY <2>3, <2>4
    <3> QED BY <3>1 DEF h
  <2>6. Iterated(h, f, Small(S, n + 1)) BY <2>5 DEF Iterated
  <2> HIDE DEF h
  <2> QED BY <2>1, <2>6
<1>3. N = Nat
  <2>0. N \in SUBSET Nat OBVIOUS
  <2> HIDE DEF N
  <2> QED BY <2>0, <1>1, <1>2, SetInduction
<1>4. Cardinality(S) \in N BY <1>3, SmallSets
<1>5. PICK g : Iterated(g, f, Small(S, Cardinality(S))) BY <1>4
<1>6. Small(S, Cardinality(S)) = SUBSET S BY SmallSets
<1>7. Iterated(g, f, SUBSET S) BY <1>5, <1>6
<1> HIDE DEF N
<1> QED BY <1>7

(* The sum is the value of a function that the definition determines. *)
LEMMA SumGiven ==
  ASSUME NEW f, NEW S, IsFiniteSet(S)
  PROVE  \E g : Iterated(g, f, SUBSET S) /\ SumFunctionOnSet(f, S) = g[S]
BY SumIs, IteratedExists

(* Two sums agree where the summed values do. *)
LEMMA IteratedAgree ==
  ASSUME NEW f, NEW e, NEW S, NEW T, NEW g, NEW h, NEW U \in SUBSET (S \cap T), IsFiniteSet(U),
         Iterated(g, f, SUBSET S), Iterated(h, e, SUBSET T), \A x \in U : f[x] = e[x]
  PROVE  g[U] = h[U]
<1> DEFINE N == {n \in Nat : \A s \in Small(U, n) : g[s] = h[s]}
<1>1. 0 \in N
  BY SmallSets DEF Iterated
<1>2. ASSUME NEW n \in N PROVE n + 1 \in N
  <2> SUFFICES ASSUME NEW s \in Small(U, n + 1) PROVE g[s] = h[s] OBVIOUS
  <2>1. CASE s = {} BY <2>1 DEF Iterated
  <2>2. CASE s # {}
    <3>1. Chosen(s) \in s /\ s \in SUBSET U BY <2>2, ChosenIn DEF Small
    <3>2. s \ {Chosen(s)} \in Small(U, n) BY <3>1, OneLess
    <3>3. g[s \ {Chosen(s)}] = h[s \ {Chosen(s)}] /\ f[Chosen(s)] = e[Chosen(s)] BY <3>1, <3>2
    <3>4. g[s] = f[Chosen(s)] + g[s \ {Chosen(s)}]
      BY <2>2, <3>1 DEF Iterated
    <3>5. h[s] = e[Chosen(s)] + h[s \ {Chosen(s)}]
      BY <2>2, <3>1 DEF Iterated
    <3> QED BY <3>3, <3>4, <3>5
  <2> QED BY <2>1, <2>2
<1>3. N = Nat
  <2>0. N \in SUBSET Nat OBVIOUS
  <2> HIDE DEF N
  <2> QED BY <2>0, <1>1, <1>2, SetInduction
<1>4. Cardinality(U) \in N /\ U \in Small(U, Cardinality(U)) BY <1>3, SmallSets
<1> QED BY <1>4

(* Any element may be the one that is added last. *)
LEMMA IteratedSplit ==
  ASSUME NEW f, NEW S, NEW g, IsFiniteSet(S),
         Iterated(g, f, SUBSET S), \A x \in S : f[x] \in Int
  PROVE  /\ g[S] \in Int
         /\ \A x \in S : g[S] = f[x] + g[S \ {x}]
<1> DEFINE N == {n \in Nat : \A s \in Small(S, n) :
                    g[s] \in Int /\ \A x \in s : g[s] = f[x] + g[s \ {x}]}
<1>1. 0 \in N
  <2>1. g[{}] = 0 BY DEF Iterated
  <2>2. \A s \in Small(S, 0) : s = {} BY SmallSets
  <2>3. \A s \in Small(S, 0) : g[s] \in Int /\ \A x \in s : g[s] = f[x] + g[s \ {x}]
    <3> SUFFICES ASSUME NEW s \in Small(S, 0)
                 PROVE  g[s] \in Int /\ \A x \in s : g[s] = f[x] + g[s \ {x}]
      OBVIOUS
    <3>1. s = {} BY <2>2
    <3>2. g[s] = 0 BY <2>1, <3>1
    <3> HIDE DEF N
    <3> QED BY <3>1, <3>2
  <2> QED BY <2>3
<1>2. ASSUME NEW n \in N PROVE n + 1 \in N
  <2> SUFFICES ASSUME NEW s \in Small(S, n + 1)
               PROVE  g[s] \in Int /\ \A x \in s : g[s] = f[x] + g[s \ {x}]
    OBVIOUS
  <2>1. CASE s = {} BY <2>1 DEF Iterated
  <2>2. CASE s # {}
    <3> DEFINE c == Chosen(s)
    <3>1. c \in s /\ s \in SUBSET S BY <2>2, ChosenIn DEF Small
    <3>2. \A x \in s : s \ {x} \in Small(S, n) BY OneLess
    <3>3. g[s] = f[c] + g[s \ {c}] BY <2>2, <3>1 DEF Iterated
    <3>4. \A x \in s : f[x] \in Int /\ g[s \ {x}] \in Int BY <3>1, <3>2
    <3> HIDE DEF c
    <3>5. ASSUME NEW x \in s, x # c PROVE g[s] = f[x] + g[s \ {x}]
      <4>1. g[s \ {c}] = f[x] + g[(s \ {c}) \ {x}] BY <3>1, <3>2, <3>5
      <4>2. g[s \ {x}] = f[c] + g[(s \ {x}) \ {c}] BY <3>1, <3>2, <3>5
      <4>3. (s \ {x}) \ {c} = (s \ {c}) \ {x} OBVIOUS
      <4>4. (s \ {c}) \ {x} \in Small(S, n)
        <5>1. IsFiniteSet(s) BY <3>1, FS_Subset
        <5>2. (s \ {c}) \subseteq s /\ IsFiniteSet(s \ {c}) BY <5>1, FS_Subset
        <5>3. Cardinality((s \ {c}) \ {x}) <= Cardinality(s \ {c})
               /\ Cardinality((s \ {c}) \ {x}) \in Nat /\ Cardinality(s \ {c}) \in Nat
          BY <5>2, FS_Subset, FS_CardinalityType
        <5> QED BY <3>1, <3>2, <5>3 DEF Small
      <4>5. g[(s \ {c}) \ {x}] \in Int BY <4>4
      <4> DEFINE w == g[(s \ {c}) \ {x}]
      <4>6. g[s \ {x}] = f[c] + w BY <4>2, <4>3
      <4> HIDE DEF w
      <4>7. w \in Int /\ g[s \ {c}] = f[x] + w BY <4>1, <4>5 DEF w
      <4> QED BY <3>1, <3>3, <3>4, <4>6, <4>7
    <3>6. g[s] \in Int BY <3>1, <3>3, <3>4
    <3>7. \A x \in s : g[s] = f[x] + g[s \ {x}]
      <4> SUFFICES ASSUME NEW x \in s PROVE g[s] = f[x] + g[s \ {x}] OBVIOUS
      <4>1. CASE x = c BY <3>3, <4>1
      <4>2. CASE x # c BY <3>5, <4>2
      <4> QED BY <4>1, <4>2
    <3> QED BY <3>6, <3>7
  <2> QED BY <2>1, <2>2
<1>3. N = Nat
  <2>0. N \in SUBSET Nat OBVIOUS
  <2> HIDE DEF N
  <2> QED BY <2>0, <1>1, <1>2, SetInduction
<1>4. Cardinality(S) \in N /\ S \in Small(S, Cardinality(S)) BY <1>3, SmallSets
<1> QED BY <1>4

(* Nothing sums to nothing. *)
LEMMA SumOfNone == \A f : SumFunctionOnSet(f, {}) = 0
<1> SUFFICES ASSUME NEW f PROVE SumFunctionOnSet(f, {}) = 0 OBVIOUS
<1>1. PICK g : Iterated(g, f, SUBSET {}) /\ SumFunctionOnSet(f, {}) = g[{}]
  BY SumGiven, FS_EmptySet
<1> QED BY <1>1 DEF Iterated

(* Only the values that are summed matter. *)
LEMMA SumAgree ==
  ASSUME NEW f, NEW e, NEW S, IsFiniteSet(S), \A x \in S : f[x] = e[x]
  PROVE  SumFunctionOnSet(f, S) = SumFunctionOnSet(e, S)
<1>1. PICK g : Iterated(g, f, SUBSET S) /\ SumFunctionOnSet(f, S) = g[S] BY SumGiven
<1>2. PICK h : Iterated(h, e, SUBSET S) /\ SumFunctionOnSet(e, S) = h[S] BY SumGiven
<1> QED BY <1>1, <1>2, IteratedAgree

(* Any element may be split off. *)
LEMMA SumSplit ==
  ASSUME NEW f, NEW S, IsFiniteSet(S), \A x \in S : f[x] \in Int
  PROVE  /\ SumFunctionOnSet(f, S) \in Int
         /\ \A x \in S : SumFunctionOnSet(f, S) = f[x] + SumFunctionOnSet(f, S \ {x})
<1>1. PICK g : Iterated(g, f, SUBSET S) /\ SumFunctionOnSet(f, S) = g[S] BY SumGiven
<1>2. ASSUME NEW x \in S PROVE SumFunctionOnSet(f, S \ {x}) = g[S \ {x}]
  <2> DEFINE T == S \ {x}
  <2>1. IsFiniteSet(T) /\ T \in SUBSET (S \cap T) BY FS_Subset
  <2> HIDE DEF T
  <2>2. PICK h : Iterated(h, f, SUBSET T) /\ SumFunctionOnSet(f, T) = h[T]
    BY <2>1, SumGiven
  <2>3. g[T] = h[T] BY <1>1, <2>1, <2>2, IteratedAgree
  <2> QED BY <2>2, <2>3 DEF T
<1>3. /\ g[S] \in Int
      /\ \A x \in S : g[S] = f[x] + g[S \ {x}]
  <2>1. Iterated(g, f, SUBSET S) BY <1>1
  <2> QED BY ONLY IsFiniteSet(S), <2>1, \A x \in S : f[x] \in Int, IteratedSplit
<1>4. ASSUME NEW x \in S
      PROVE  SumFunctionOnSet(f, S) = f[x] + SumFunctionOnSet(f, S \ {x})
  BY <1>1, <1>2, <1>3
<1> QED BY <1>1, <1>3, <1>4

(* Zeros may be left out. *)
LEMMA SumWithoutZeros ==
  ASSUME NEW f, NEW S, IsFiniteSet(S), \A x \in S : f[x] \in Int,
         NEW Z \in SUBSET S, \A x \in Z : f[x] = 0
  PROVE  SumFunctionOnSet(f, S) = SumFunctionOnSet(f, S \ Z)
<1> DEFINE sum(s) == SumFunctionOnSet(f, s)
           N == {n \in Nat : \A z \in Small(Z, n) : sum(S) = sum(S \ z)}
<1>0. IsFiniteSet(Z) BY FS_Subset
<1>1. 0 \in N
  <2>1. \A z \in Small(Z, 0) : z = {} BY <1>0, SmallSets
  <2>2. S \ {} = S OBVIOUS
  <2>3. \A z \in Small(Z, 0) : sum(S) = sum(S \ z) BY <2>1, <2>2
  <2> QED BY <2>3
<1>2. ASSUME NEW n \in N PROVE n + 1 \in N
  <2> SUFFICES ASSUME NEW z \in Small(Z, n + 1) PROVE sum(S) = sum(S \ z) OBVIOUS
  <2>1. CASE z = {}
    <3>1. S \ z = S BY <2>1
    <3> QED BY <3>1
  <2>2. CASE z # {}
    <3> DEFINE c == Chosen(z)
    <3>1. c \in z /\ z \in SUBSET Z BY <2>2, ChosenIn DEF Small
    <3>2. z \ {c} \in Small(Z, n) BY <1>0, <3>1, OneLess
    <3> HIDE DEF c
    <3> DEFINE W == S \ (z \ {c})
    <3>3. sum(S) = sum(W) BY <3>2
    <3>4. c \in W /\ IsFiniteSet(W) /\ W \in SUBSET S /\ W \ {c} = S \ z
      BY <3>1, FS_Subset
    <3> HIDE DEF W
    <3>5. \A x \in W : f[x] \in Int BY <3>4
    <3>6. sum(W) = f[c] + sum(W \ {c}) BY <3>4, <3>5, SumSplit
    <3>7. sum(W \ {c}) \in Int
      <4>1. IsFiniteSet(W \ {c}) /\ \A x \in W \ {c} : f[x] \in Int BY <3>4, <3>5, FS_Subset
      <4> DEFINE V == W \ {c}
      <4> HIDE DEF V
      <4>2. IsFiniteSet(V) /\ \A x \in V : f[x] \in Int BY <4>1 DEF V
      <4>3. sum(V) \in Int BY <4>2, SumSplit
      <4> QED BY <4>3 DEF V
    <3>8. f[c] = 0 BY <3>1
    <3>9. sum(W) = sum(W \ {c}) BY <3>6, <3>7, <3>8
    <3> QED BY <3>3, <3>4, <3>9
  <2> QED BY <2>1, <2>2
<1>3. N = Nat
  <2>0. N \in SUBSET Nat OBVIOUS
  <2> HIDE DEF N
  <2> QED BY <2>0, <1>1, <1>2, SetInduction
<1>4. Cardinality(Z) \in N /\ Z \in Small(Z, Cardinality(Z)) BY <1>0, <1>3, SmallSets
<1> QED BY <1>4

-----------------------------------------------------------------------------
(* The bytes of the directory *)

(* Sizes are numbers, and the file system is not over-full. *)
SizesOK ==
  /\ \A f \in DOMAIN dir : dir[f] \in Nat
  /\ other \in Nat
  /\ Free >= 0

(* There are finitely many files. *)
LEMMA FilesFinite == IsFiniteSet(Files) /\ (Inv => IsFiniteSet(DOMAIN dir))
<1>1. IsFiniteSet(Sessions)
  BY BoundsAssumption, FS_Interval DEF Sessions
<1>2. IsFiniteSet(Kinds)
  <2>1. IsFiniteSet({}) BY FS_EmptySet
  <2>2. IsFiniteSet({} \cup {"active"}) BY <2>1, FS_AddElement
  <2>3. IsFiniteSet(({} \cup {"active"}) \cup {"raw"}) BY <2>2, FS_AddElement
  <2>4. IsFiniteSet((({} \cup {"active"}) \cup {"raw"}) \cup {"mf4"}) BY <2>3, FS_AddElement
  <2>5. Kinds = (({} \cup {"active"}) \cup {"raw"}) \cup {"mf4"} BY DEF Kinds
  <2> QED BY <2>4, <2>5
<1>3. IsFiniteSet(Files)
  BY <1>1, <1>2, FS_Product DEF Files
<1> QED BY <1>3, FS_Subset DEF Inv, Bounded

(* The bytes of some of the files are a number, and so is the total. *)
LEMMA BytesAreNumbers ==
  ASSUME Inv, \A f \in DOMAIN dir : dir[f] \in Nat
  PROVE  /\ TotalBytes \in Int
         /\ \A s : BytesOf(s) \in Int
<1>1. IsFiniteSet(DOMAIN dir) /\ \A f \in DOMAIN dir : dir[f] \in Int
  BY FilesFinite
<1>2. TotalBytes \in Int
  BY <1>1, SumSplit DEF TotalBytes, SumFunction
<1>3. ASSUME NEW s PROVE BytesOf(s) \in Int
  <2>1. FilesOf(s) \subseteq DOMAIN dir BY DEF FilesOf
  <2>2. IsFiniteSet(FilesOf(s)) /\ \A f \in FilesOf(s) : dir[f] \in Int
    BY <1>1, <2>1, FS_Subset
  <2> QED BY <2>2, SumSplit DEF BytesOf
<1> QED BY <1>2, <1>3

(* A file that goes takes its bytes from its session and from the total.   *)
LEMMA UnlinkBytes ==
  ASSUME Inv, \A f \in DOMAIN dir : dir[f] \in Nat,
         NEW s, NEW k, <<s, k>> \in DOMAIN dir, Unlink(s, k)
  PROVE  /\ \A f \in DOMAIN dir' : dir'[f] \in Nat
         /\ TotalBytes' = TotalBytes - dir[<<s, k>>]
         /\ BytesOf(s)' = BytesOf(s) - dir[<<s, k>>]
         /\ \A t : t # s => BytesOf(t)' = BytesOf(t)
<1> DEFINE file == <<s, k>>
<1>0. file[1] = s OBVIOUS
<1> HIDE DEF file
<1>1. DOMAIN dir' = DOMAIN dir \ {file} /\ file \in DOMAIN dir
  BY UnlinkDomain DEF file
<1>2. \A f \in DOMAIN dir' : dir'[f] = dir[f]
  BY DEF Unlink, Restrict
<1>3. IsFiniteSet(DOMAIN dir) /\ \A f \in DOMAIN dir : dir[f] \in Int
  BY FilesFinite
<1>4. \A f \in DOMAIN dir' : dir'[f] \in Nat
  BY <1>1, <1>2
(* What goes for any set of files. *)
<1>5. ASSUME NEW A \in SUBSET DOMAIN dir
      PROVE  /\ SumFunctionOnSet(dir, A) \in Int
             /\ SumFunctionOnSet(dir', A \ {file}) \in Int
             /\ file \in A => SumFunctionOnSet(dir', A \ {file})
                                = SumFunctionOnSet(dir, A) - dir[file]
  <2> DEFINE B == A \ {file}
  <2>1. IsFiniteSet(A) /\ IsFiniteSet(B) /\ \A f \in A : dir[f] \in Int
    BY <1>3, FS_Subset
  <2>2. \A f \in B : dir'[f] = dir[f] /\ dir[f] \in Int
    BY <1>1, <1>2, <1>3
  <2>3. file \in A => SumFunctionOnSet(dir, A) = dir[file] + SumFunctionOnSet(dir, B)
    BY <2>1, SumSplit
  <2> HIDE DEF B
  <2>4. SumFunctionOnSet(dir', B) = SumFunctionOnSet(dir, B)
    BY <2>1, <2>2, SumAgree
  <2>5. SumFunctionOnSet(dir, B) \in Int /\ SumFunctionOnSet(dir, A) \in Int
    BY <2>1, <2>2, SumSplit
  <2>6. dir[file] \in Int BY <1>1, <1>3
  <2> QED BY <2>3, <2>4, <2>5, <2>6 DEF B
<1>6. TotalBytes' = TotalBytes - dir[file]
  BY <1>1, <1>5 DEF TotalBytes, SumFunction
<1>7. BytesOf(s)' = BytesOf(s) - dir[file]
  <2>1. file \in FilesOf(s) /\ FilesOf(s) \in SUBSET DOMAIN dir BY <1>0, <1>1 DEF FilesOf
  <2>2. FilesOf(s)' = FilesOf(s) \ {file} BY <1>1 DEF FilesOf
  <2> QED BY <1>5, <2>1, <2>2 DEF BytesOf
<1>8. ASSUME NEW t, t # s PROVE BytesOf(t)' = BytesOf(t)
  <2>1. FilesOf(t)' = FilesOf(t) BY <1>0, <1>1, <1>8 DEF FilesOf
  <2>2. IsFiniteSet(FilesOf(t)) BY <1>3, FS_Subset DEF FilesOf
  <2>3. \A f \in FilesOf(t) : dir'[f] = dir[f] BY <1>2, <2>1 DEF FilesOf
  <2>4. SumFunctionOnSet(dir', FilesOf(t)) = SumFunctionOnSet(dir, FilesOf(t))
    BY <2>2, <2>3, SumAgree
  <2> QED BY <2>1, <2>4 DEF BytesOf
<1> QED BY <1>4, <1>6, <1>7, <1>8 DEF file

(* New files are empty. *)
LEMMA NewFilesBytes ==
  ASSUME Inv, \A f \in DOMAIN dir : dir[f] \in Nat,
         NEW kinds \in SUBSET Kinds, session < MaxSessions, dir' = WithFiles(kinds), Inv'
  PROVE  /\ \A f \in DOMAIN dir' : dir'[f] \in Nat
         /\ TotalBytes' = TotalBytes
<1> DEFINE new == {session + 1} \X kinds
<1>1. DOMAIN dir' = DOMAIN dir \cup new BY WithFilesDomain
<1>2. DOMAIN dir \cap new = {}
  <2>1. \A f \in DOMAIN dir : f[1] <= session /\ f[1] \in Int
    BY BoundsAssumption DEF Inv, Bounded, Files, Sessions
  <2>2. \A f \in new : f[1] = session + 1 OBVIOUS
  <2>3. session \in Int BY DEF Inv, Bounded
  <2> HIDE DEF new
  <2> QED BY <2>1, <2>2, <2>3
<1>3. \A f \in new : dir'[f] = 0 BY <1>1 DEF WithFiles
<1>4. \A f \in DOMAIN dir : dir'[f] = dir[f] BY <1>1, <1>2 DEF WithFiles
<1> HIDE DEF new
<1>5. \A f \in DOMAIN dir' : dir'[f] \in Nat BY <1>1, <1>3, <1>4
<1>6. IsFiniteSet(DOMAIN dir) BY FilesFinite
<1>7. IsFiniteSet(DOMAIN dir') BY FilesFinite, FS_Subset DEF Inv, Bounded
<1>8. \A f \in DOMAIN dir' : dir'[f] \in Int BY <1>5
<1>9. SumFunctionOnSet(dir', DOMAIN dir') = SumFunctionOnSet(dir', DOMAIN dir' \ new)
  <2>1. new \in SUBSET DOMAIN dir' BY <1>1
  <2> QED BY <1>3, <1>7, <1>8, <2>1, SumWithoutZeros
<1>10. DOMAIN dir' \ new = DOMAIN dir BY <1>1, <1>2
<1>11. SumFunctionOnSet(dir', DOMAIN dir) = SumFunctionOnSet(dir, DOMAIN dir)
  BY <1>4, <1>6, SumAgree
<1> QED BY <1>5, <1>9, <1>10, <1>11 DEF TotalBytes, SumFunction

(* A file that grows by one byte. *)
LEMMA GrownBytes ==
  ASSUME Inv, \A f \in DOMAIN dir : dir[f] \in Nat,
         NEW file \in DOMAIN dir, dir' = [dir EXCEPT ![file] = @ + 1]
  PROVE  /\ \A f \in DOMAIN dir' : dir'[f] \in Nat
         /\ TotalBytes' = TotalBytes + 1
<1> DEFINE D == DOMAIN dir
           B == D \ {file}
<1>1. DOMAIN dir' = D /\ dir'[file] = dir[file] + 1 /\ \A f \in B : dir'[f] = dir[f]
  OBVIOUS
<1>2. IsFiniteSet(D) /\ IsFiniteSet(B) BY FilesFinite, FS_Subset
<1>3. /\ \A f \in D : dir[f] \in Int
      /\ \A f \in D : dir'[f] \in Nat
      /\ \A f \in D : dir'[f] \in Int
  BY <1>1
<1>4. file \in D /\ \A f \in B : dir[f] \in Int BY <1>3
<1>5. SumFunctionOnSet(dir, D) = dir[file] + SumFunctionOnSet(dir, B) BY <1>2, <1>3, SumSplit
<1>6. SumFunctionOnSet(dir', D) = dir'[file] + SumFunctionOnSet(dir', B) 
  <2> DEFINE d == dir'
  <2>1. \A f \in D : d[f] \in Int BY <1>3
  <2> HIDE DEF d
  <2>2. SumFunctionOnSet(d, D) = d[file] + SumFunctionOnSet(d, B) BY <1>2, <2>1, SumSplit
  <2> QED BY <2>2 DEF d
<1> HIDE DEF B
<1>7. SumFunctionOnSet(dir', B) = SumFunctionOnSet(dir, B) BY <1>1, <1>2, SumAgree, ZenonT(30)
<1>8. SumFunctionOnSet(dir, B) \in Int BY <1>2, <1>4, SumSplit
<1>9. SumFunctionOnSet(dir', D) = SumFunctionOnSet(dir, D) + 1
  BY <1>1, <1>3, <1>5, <1>6, <1>7, <1>8
<1> QED BY <1>1, <1>3, <1>9 DEF TotalBytes, SumFunction
(* Every step keeps the sizes. *)
LEMMA SizesStep ==
  ASSUME Inv, SizesOK, [Next]_vars
  PROVE  SizesOK'
<1> USE DEF sweepVars, webVars, worldVars
<1>0. /\ TotalBytes \in Int /\ other \in Nat /\ DiskBytes \in Nat /\ Free >= 0
      /\ \A f \in DOMAIN dir : dir[f] \in Nat
  BY BytesAreNumbers, BoundsAssumption DEF SizesOK
<1>1. ASSUME UNCHANGED <<dir, other>> PROVE SizesOK'
  BY <1>1 DEF SizesOK, Free, TotalBytes
<1>2. ASSUME UNCHANGED other, NEW s, NEW k, <<s, k>> \in DOMAIN dir, Unlink(s, k)
      PROVE  SizesOK'
  <2>1. (\A f \in DOMAIN dir' : dir'[f] \in Nat) /\ TotalBytes' = TotalBytes - dir[<<s, k>>]
    BY <1>0, <1>2, UnlinkBytes
  <2>2. dir[<<s, k>>] \in Nat
    BY <1>0, <1>2
  <2>3. Free' >= 0
    BY <1>0, <1>2, <2>1, <2>2 DEF Free
  <2> QED BY <1>0, <1>2, <2>1, <2>3 DEF SizesOK
<1>3. ASSUME UNCHANGED other, session < MaxSessions, NEW kinds \in SUBSET Kinds,
             dir' = WithFiles(kinds)
      PROVE  SizesOK'
  <2>1. (\A f \in DOMAIN dir' : dir'[f] \in Nat) /\ TotalBytes' = TotalBytes
    BY <1>0, <1>3, StepInv, NewFilesBytes
  <2>2. Free' >= 0
    BY <1>0, <1>3, <2>1 DEF Free
  <2> QED BY <1>0, <1>3, <2>1, <2>2 DEF SizesOK
<1>4. CASE RemoveFile
  BY <1>2, <1>4 DEF RemoveFile, Has
<1>5. CASE WebUnlink
  BY <1>1, <1>2, <1>5 DEF WebUnlink, Has
<1>6. CASE CloseLog
  <2>1. CASE UNCHANGED dir
    BY <1>1, <1>6, <2>1 DEF CloseLog
  <2>2. CASE open /\ Unlink(session, "active")
    BY <1>2, <1>6, <2>2 DEF CloseLog, Inv, Owned
  <2> QED BY <1>6, <2>1, <2>2 DEF CloseLog
<1>7. CASE StartLog
  <2>1. PICK kinds \in {Kinds, Kinds \ {"raw"}} : dir' = WithFiles(kinds)
    BY <1>7 DEF StartLog
  <2>2. kinds \in SUBSET Kinds /\ session < MaxSessions /\ UNCHANGED other
    BY <1>7 DEF StartLog
  <2> QED BY <1>3, <2>1, <2>2
<1>8. CASE StartLogFails
  BY <1>1, <1>3, <1>8 DEF StartLogFails
<1>9. CASE WriteLog
  <2>1. PICK kind \in Kinds \ {"active"} :
          /\ <<session, kind>> \in DOMAIN dir
          /\ dir' = [dir EXCEPT ![<<session, kind>>] = @ + 1]
    BY <1>9 DEF WriteLog, Has
  <2> DEFINE file == <<session, kind>>
  <2>2. file \in DOMAIN dir /\ dir' = [dir EXCEPT ![file] = @ + 1] BY <2>1
  <2> HIDE DEF file
  <2>3. (\A f \in DOMAIN dir' : dir'[f] \in Nat) /\ TotalBytes' = TotalBytes + 1
    BY <1>0, <2>2, GrownBytes
  <2>4. other' = other /\ Free > 0
    BY <1>9 DEF WriteLog
  <2>5. Free' >= 0
    BY <1>0, <2>3, <2>4 DEF Free
  <2> QED BY <1>0, <2>3, <2>4, <2>5 DEF SizesOK
<1>10. CASE OthersWrite
  <2>1. dir' = dir /\ ((other' = other + 1 /\ Free > 0) \/ (other > 0 /\ other' = other - 1))
    BY <1>10 DEF OthersWrite
  <2>2. TotalBytes' = TotalBytes
    BY <2>1 DEF TotalBytes
  <2>3. Free' >= 0 /\ other' \in Nat
    BY <1>0, <2>1, <2>2 DEF Free
  <2> QED BY <1>0, <2>1, <2>3 DEF SizesOK
<1>11. QED
  <2>1. \/ RemoveFile \/ WebUnlink \/ CloseLog \/ StartLog \/ StartLogFails \/ WriteLog
        \/ OthersWrite \/ UNCHANGED <<dir, other>>
    BY DEF Next, LoggerStep, SweepStep, WebStep, vars, Boot, CleanupTimer, Quit, Crash,
           Age, Scan, NoDirectory, EndSweep, Skip, Choose, RemoveFails,
           Account, Rescan, Remeasure, Verdict, WebDelete, WebStat, WebRecheck
  <2> QED BY <2>1, <1>1, <1>4, <1>5, <1>6, <1>7, <1>8, <1>9, <1>10

-----------------------------------------------------------------------------
(* The sweep's books *)

(* The marker protects every session there still is. *)
AllMarked == \A f \in DOMAIN dir : <<f[1], "active">> \in DOMAIN dir

(* In a sweep that nobody has disturbed the books agree with the directory *)
(* and the disk: managed is the total, or the total and the bytes of the   *)
(* victim that are gone already.  Once everything has been examined, the   *)
(* directory is within the limits or nothing deletable is left.            *)
Books ==
  pc \in {"examine", "remove", "measure", "verdict"} /\ ~disturbed =>
    /\ ~deleteError /\ failed = {}
    /\ pc # "remove" => managed = TotalBytes
    /\ pc = "remove" =>
         /\ victim.bytes \in Int
         /\ managed = TotalBytes - BytesOf(victim.stem) + victim.bytes
    /\ pc \in {"examine", "verdict"} => available = Free
    /\ InSweep => \A r \in todo : r.bytes = BytesOf(r.stem)
    /\ pc \in {"measure", "verdict"} => ~OverLimit \/ AllMarked

PolicyInv == SweepInv /\ SizesOK /\ Books

(* Nobody else's step leaves the sweep undisturbed and changes its books. *)
LEMMA BooksStep == PolicyInv /\ [Next]_vars => Books'
<1> SUFFICES ASSUME PolicyInv, [Next]_vars PROVE Books'
  OBVIOUS
<1> USE DEF sweepVars, webVars, worldVars
<1>0. /\ Inv /\ SweepInv /\ TotalBytes \in Int /\ \A s : BytesOf(s) \in Int
      /\ \A f \in DOMAIN dir : dir[f] \in Nat
      /\ other \in Nat /\ DiskBytes \in Nat /\ MinFree \in Nat
      /\ Free \in Int /\ Free >= 0
  BY BytesAreNumbers, BoundsAssumption, LimitsAssumption DEF PolicyInv, SweepInv, SizesOK, Free
<1>1. ASSUME disturbed' PROVE Books'
  BY <1>1 DEF Books
<1>2. ASSUME pc' \notin {"examine", "remove", "measure", "verdict"} PROVE Books'
  BY <1>2 DEF Books
<1>3. ASSUME UNCHANGED <<dir, other>>
      PROVE  /\ UNCHANGED <<TotalBytes, Free, OverLimit, AllMarked>>
             /\ \A s : BytesOf(s)' = BytesOf(s)
  BY <1>3 DEF TotalBytes, Free, OverLimit, AllMarked, BytesOf, FilesOf
<1>4. ASSUME UNCHANGED <<pc, sweepVars, dir, other, disturbed>> PROVE Books'
  BY <1>3, <1>4 DEF PolicyInv, Books, InSweep
<1>5. CASE Scan
  <2>1. /\ pc' = "examine" /\ UNCHANGED <<dir, other>> /\ failed' = {} /\ ~deleteError'
        /\ managed' = TotalBytes /\ (disturbed' \/ available' = Free)
        /\ todo' = {Scanned(s) : s \in Listed}
    BY <1>5 DEF Scan
  <2>2. \A r \in todo' : r.bytes = BytesOf(r.stem)
    BY <2>1, ScannedIs
  <2> QED BY <1>3, <2>1, <2>2 DEF Books, InSweep
<1>6. CASE Skip
  <2>1. /\ pc = "examine" /\ UNCHANGED <<pc, dir, other, failed, deleteError, managed, available, disturbed>>
        /\ todo' \subseteq todo
    BY <1>6 DEF Skip
  <2> QED BY <1>3, <2>1 DEF PolicyInv, Books, InSweep
<1>7. CASE Choose
  <2>1. /\ pc = "examine" /\ pc' = "remove" /\ todo' \subseteq todo /\ victim' \in todo
        /\ UNCHANGED <<dir, other, failed, deleteError, managed, available, disturbed>>
    BY <1>7 DEF Choose
  <2>2. CASE ~disturbed
    <3>1. ~deleteError /\ failed = {} /\ managed = TotalBytes
          /\ \A r \in todo : r.bytes = BytesOf(r.stem)
      BY <2>1, <2>2 DEF PolicyInv, Books, InSweep
    <3>2. victim'.bytes = BytesOf(victim'.stem) /\ BytesOf(victim'.stem) \in Int
      BY <1>0, <2>1, <3>1
    <3>3. BytesOf(victim.stem)' = BytesOf(victim'.stem)
      BY <2>1 DEF BytesOf, FilesOf
    <3>4. managed' = TotalBytes' - BytesOf(victim.stem)' + victim'.bytes
      BY <1>0, <1>3, <2>1, <3>1, <3>2, <3>3
    <3> QED BY <1>3, <2>1, <3>1, <3>2, <3>4 DEF Books, InSweep
  <2> QED BY <1>1, <2>1, <2>2
<1>8. CASE RemoveFile
  <2>1. /\ pc = "remove" /\ Has(victim.stem, NextPath) /\ Unlink(victim.stem, NextPath)
        /\ UNCHANGED <<pc, todo, victim, managed, available, deleteError, failed, other, disturbed>>
    BY <1>8 DEF RemoveFile
  <2> DEFINE size == dir[<<victim.stem, NextPath>>]
  <2>2. /\ TotalBytes' = TotalBytes - size
        /\ BytesOf(victim.stem)' = BytesOf(victim.stem) - size
        /\ \A t : t # victim.stem => BytesOf(t)' = BytesOf(t)
        /\ size \in Int
    <3>1. /\ TotalBytes' = TotalBytes - size
          /\ \A t : t # victim.stem => BytesOf(t)' = BytesOf(t)
          /\ size \in Int
      BY <1>0, <2>1, UnlinkBytes DEF Has
    <3>2. PICK s : s = victim.stem OBVIOUS
    <3>3. BytesOf(s)' = BytesOf(s) - size
      BY <1>0, <2>1, <3>2, UnlinkBytes DEF Has
    <3>4. BytesOf(victim.stem)' = BytesOf(s)'
      BY <2>1, <3>2 DEF BytesOf, FilesOf
    <3> QED BY <3>1, <3>2, <3>3, <3>4
  <2>3. \A r \in todo : r.stem # victim.stem
    <3>1. \A r \in todo : victim.stem < r.stem /\ r.stem \in Int
      BY <1>0, <2>1, BoundsAssumption DEF SweepInv, VictimNext, Inv, StaleIsSafe, Bounded
    <3> QED BY <3>1
  <2> HIDE DEF size
  <2>4. CASE ~disturbed
    <3>1. /\ ~deleteError /\ failed = {}
          /\ victim.bytes \in Int
          /\ managed = TotalBytes - BytesOf(victim.stem) + victim.bytes
          /\ \A r \in todo : r.bytes = BytesOf(r.stem)
      BY <2>1, <2>4 DEF PolicyInv, Books, InSweep
    <3>2. managed' = TotalBytes' - BytesOf(victim.stem)' + victim'.bytes
      BY <1>0, <2>1, <2>2, <3>1
    <3>3. \A r \in todo' : r.bytes = BytesOf(r.stem)'
      BY <2>1, <2>2, <2>3, <3>1
    <3> QED BY <2>1, <3>1, <3>2, <3>3 DEF Books, InSweep
  <2> QED BY <1>1, <2>1, <2>4
<1>9. CASE Account
  <2>1. /\ pc = "remove" /\ pc' = "examine" /\ left = {} /\ managed' = managed - victim.bytes
        /\ UNCHANGED <<dir, todo, deleteError, failed, other>>
        /\ disturbed' \/ (~disturbed /\ available' = Free)
    BY <1>9 DEF Account, Measure
  <2>2. BytesOf(victim.stem) = 0
    <3>1. \A f \in DOMAIN dir : f = <<f[1], f[2]>> /\ f[2] \in Kinds
      BY <1>0 DEF Inv, Bounded, Files
    <3>2. FilesOf(victim.stem) = {}
      BY <1>0, <2>1, <3>1 DEF SweepInv, VictimNext, FilesOf
    <3> QED BY <3>2, SumOfNone DEF BytesOf
  <2>3. CASE ~disturbed
    <3>1. /\ ~deleteError /\ failed = {}
          /\ victim.bytes \in Int
          /\ managed = TotalBytes - BytesOf(victim.stem) + victim.bytes
          /\ \A r \in todo : r.bytes = BytesOf(r.stem)
      BY <2>1, <2>3 DEF PolicyInv, Books, InSweep
    <3>2. managed' = TotalBytes
      BY <1>0, <2>1, <2>2, <3>1
    <3> QED BY <1>1, <1>3, <2>1, <3>1, <3>2 DEF Books, InSweep
  <2> QED BY <1>1, <2>1, <2>3
<1>10. CASE Rescan
  <2>1. /\ pc = "examine" /\ pc' = "measure" /\ todo = {} /\ managed' = TotalBytes
        /\ UNCHANGED <<dir, other, failed, deleteError, available, disturbed>>
    BY <1>10 DEF Rescan
  <2>2. CASE ~disturbed
    <3>1. ~deleteError /\ failed = {} /\ managed = TotalBytes /\ available = Free
      BY <2>1, <2>2 DEF PolicyInv, Books
    <3>2. ~OverLimit \/ AllMarked
      <4>1. CASE Spared
        <5>1. ~OverLimit
          BY <1>0, <3>1, <4>1 DEF Spared, LimitsExceeded, OverLimit
        <5> QED BY <5>1
      <4>2. CASE ~Spared
        <5>1. \A f \in DOMAIN dir : Settled(f[1])
          BY <1>0, <2>1 DEF SweepInv, AllSettled, InSweep
        <5>2. AllMarked
          BY <2>1, <3>1, <4>2, <5>1 DEF Settled, AllMarked
        <5> QED BY <5>2
      <4> QED BY <4>1, <4>2
    <3> QED BY <1>3, <2>1, <3>1, <3>2 DEF Books, InSweep
  <2> QED BY <1>1, <2>1, <2>2
<1>11. CASE Remeasure
  <2>1. /\ pc = "measure" /\ pc' = "verdict" /\ (disturbed' \/ (~disturbed /\ available' = Free))
        /\ UNCHANGED <<dir, other, todo, managed, failed, deleteError>>
    BY <1>11 DEF Remeasure, Measure
  <2> QED BY <1>1, <1>3, <2>1 DEF PolicyInv, Books, InSweep
<1>12. CASE WriteLog
  BY <1>1, <1>2, <1>12 DEF WriteLog, Disturb, Sweeping, SweepPC
<1>13. CASE OthersWrite
  BY <1>1, <1>2, <1>13 DEF OthersWrite, Disturb, Sweeping, SweepPC
<1>14. CASE WebUnlink
  BY <1>1, <1>2, <1>4, <1>14 DEF WebUnlink, Disturb, Sweeping, SweepPC
<1>15. CASE RemoveFails
  BY <1>1, <1>15 DEF RemoveFails
<1>16. QED
  <2>1. \/ Scan \/ Skip \/ Choose \/ RemoveFile \/ RemoveFails \/ Account \/ Rescan \/ Remeasure
        \/ WriteLog \/ OthersWrite \/ WebUnlink
        \/ pc' \notin {"examine", "remove", "measure", "verdict"}
        \/ UNCHANGED <<pc, sweepVars, dir, other, disturbed>>
    BY DEF Next, LoggerStep, SweepStep, WebStep, vars, Boot, CleanupTimer, Quit, Crash,
           Age, NoDirectory, EndSweep, StartLog, StartLogFails, CloseLog,
           Verdict, WebDelete, WebStat, WebRecheck
  <2> QED BY <2>1, <1>2, <1>4, <1>5, <1>6, <1>7, <1>8, <1>9, <1>10, <1>11, <1>12, <1>13,
             <1>14, <1>15

LEMMA PolicyInductive == Spec => []PolicyInv
<1>1. Init => PolicyInv
  <2> SUFFICES ASSUME Init PROVE PolicyInv OBVIOUS
  <2>1. SweepInv /\ Books
    BY InitInv DEF Init, SweepInv, Pictures, VictimNext, AllSettled, InSweep, Books
  <2>2. DOMAIN dir = {} BY DEF Init
  <2>3. TotalBytes = 0 BY <2>2, SumOfNone DEF TotalBytes, SumFunction
  <2>4. SizesOK BY <2>2, <2>3, BoundsAssumption DEF Init, SizesOK, Free
  <2> QED BY <2>1, <2>4 DEF PolicyInv
<1>2. PolicyInv /\ [Next]_vars => PolicyInv'
  BY SweepStepInv, SizesStep, BooksStep DEF PolicyInv, SweepInv
<1> QED BY <1>1, <1>2, PTL DEF Spec

(* An undisturbed sweep follows the policy exactly (SweepWithinPolicy): it *)
(* deletes what is not too old only while a limit is exceeded, and it ends *)
(* logging only when nothing it may delete is left to meet the limits.     *)
THEOREM SweepFollowsPolicy == Spec => SweepWithinPolicy
<1>1. PolicyInv /\ [Next]_vars =>
        [/\ Choose /\ ~victim'.old /\ ~disturbed => OverLimit
         /\ pc = "verdict" /\ pc' = "closeLog" /\ ~disturbed => Unmeetable]_vars
  <2> SUFFICES ASSUME PolicyInv, [Next]_vars, ~disturbed
               PROVE  /\ Choose /\ ~victim'.old => OverLimit
                      /\ pc = "verdict" /\ pc' = "closeLog" => Unmeetable
    OBVIOUS
  <2>1. ASSUME Choose, ~victim'.old PROVE OverLimit
    <3>1. pc = "examine" /\ Exceeded(victim')
      BY <2>1 DEF Choose, Deletable
    <3>2. managed = TotalBytes /\ available = Free
      BY <3>1 DEF PolicyInv, Books
    <3> QED BY <2>1, <3>1, <3>2 DEF Exceeded, OverLimit
  <2>2. ASSUME pc = "verdict", pc' = "closeLog" PROVE Unmeetable
    <3>1. Verdict
      BY <2>2 DEF Next, LoggerStep, SweepStep, WebStep, vars, Boot, CleanupTimer, Quit, Crash,
           Age, NoDirectory, EndSweep, StartLog, StartLogFails, CloseLog, Scan, Skip,
           Choose, RemoveFile, RemoveFails, Account, Rescan, Remeasure, WriteLog,
           OthersWrite, WebUnlink, WebDelete, WebStat, WebRecheck
    <3>2. ~(/\ available >= 0 /\ available >= MinFree
            /\ MaxTotal = 0 \/ managed <= MaxTotal
            /\ ~deleteError)
      BY <2>2, <3>1 DEF Verdict, EndSweep
    <3>3. /\ managed = TotalBytes /\ available = Free /\ ~deleteError
          /\ ~OverLimit \/ AllMarked
      BY <2>2 DEF PolicyInv, Books
    <3>4. TotalBytes \in Int /\ Free \in Int /\ Free >= 0 /\ MaxTotal \in Nat /\ MinFree \in Nat
      BY BytesAreNumbers, BoundsAssumption, LimitsAssumption DEF PolicyInv, SweepInv, SizesOK, Free
    <3>5. OverLimit
      BY <3>2, <3>3, <3>4 DEF OverLimit
    <3>6. \A s \in Listed : Has(s, "active")
      BY <3>3, <3>5 DEF AllMarked, Listed, FilesOf, Has
    <3> QED BY <3>5, <3>6 DEF Unmeetable
  <2> QED BY <2>1, <2>2
<1> QED BY <1>1, PolicyInductive, PTL DEF Spec, SweepWithinPolicy
=============================================================================

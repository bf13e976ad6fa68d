------------------------------- MODULE Replay -------------------------------
(***************************************************************************)
(* The replay of a recording by vehicle_loggerd: CanReplaySource           *)
(* (src/can/can_replay_source.cpp), which Vn300ReplaySource                *)
(* (src/vn300/vn300_replay_source.cpp) repeats around its parser, and what *)
(* src/apps/vehicle_loggerd_main.cpp makes of it.                          *)
(*                                                                         *)
(* A single-shot timer plays the records one by one at their time, or in   *)
(* batches as fast as it can.  The position in the recording is a base     *)
(* plus the time on replayClock_ multiplied by the speed; pausing, seeking *)
(* and a new speed set a new base and restart the clock.                   *)
(*                                                                         *)
(* Time is counted in small units: Ms of them are a millisecond, which the *)
(* timer is set in.  The timer is never early and may be late.             *)
(***************************************************************************)
EXTENDS Integers, Sequences, SequencesExt

CONSTANTS
  Recordings,   (* the files there may be: sequences of lines              *)
  Speeds,       (* the speed factors                                       *)
  BatchSize,    (* kFastBatchSize                                          *)
  Ms,           (* time units in a millisecond                             *)
  Positions,    (* the positions that may be sought                        *)
  MaxElapsed    (* bound: time on replayClock_                             *)

(* A line holds a record, nothing of interest, or something unreadable. *)
Line == [kind : {"record", "ignored", "bad"}, time : Nat]

ASSUME ReplayAssumption ==
  /\ Recordings \subseteq Seq(Line)
  /\ Speeds \subseteq Nat \ {0}
  /\ BatchSize \in Nat \ {0} /\ Ms \in Nat \ {0} /\ MaxElapsed \in Nat
  /\ Positions \subseteq Nat

VARIABLES
  process,    (* "starting", "replaying" or "exited"                       *)
  controlled, (* is there a replay control name?                           *)
  records,    (* records_: the time stamps, relative to the first          *)
  next,       (* nextIndex_, from 1                                        *)
  fast,       (* timingMode_ = Fast?                                       *)
  speed,      (* speedFactor_                                              *)
  base,       (* playbackBaseNs_                                           *)
  elapsed,    (* replayClock_, as long as the position depends on it       *)
  timer,      (* when timer_ fires on replayClock_, NotSet if it is not on *)
  running,    (* running_                                                  *)
  paused,     (* paused_                                                   *)
  finished,   (* controlledReplayFinished                                  *)
  played,     (* history: the records played since the last start or seek  *)
  media       (* history: how far the recording has come by ticks and      *)
              (* seeks, whatever base and clock say                        *)

sourceVars == <<next, fast, speed, base, elapsed, timer, running, paused, played,
                media>>
replayVars == <<process, controlled, records, finished, sourceVars>>

NotSet == -1
End == Len(records) + 1
Duration == IF records = <<>> THEN 0 ELSE Last(records)

ReplayInit ==
  /\ process = "starting" /\ controlled \in BOOLEAN
  /\ records = <<>>
  /\ next = 1 /\ fast = FALSE /\ speed \in Speeds /\ base = 0
  /\ elapsed = 0 /\ timer = NotSet
  /\ running = FALSE /\ paused = FALSE /\ finished = FALSE
  /\ played = <<>> /\ media = 0

-----------------------------------------------------------------------------
(* load *)

(* The records that the first n lines give. *)
Times(lines) ==
  LET read[n \in 0 .. Len(lines)] ==
        IF n = 0 THEN <<>>
        ELSE IF lines[n].kind = "ignored" THEN read[n - 1]
        ELSE Append(read[n - 1], lines[n].time)
  IN  read[Len(lines)]

Loadable(lines) ==
  /\ \A i \in DOMAIN lines : lines[i].kind # "bad"
  /\ Times(lines) # <<>>
  /\ \A i \in 1 .. Len(Times(lines)) - 1 : Times(lines)[i] <= Times(lines)[i + 1]

Load(lines) == [i \in DOMAIN Times(lines) |-> Times(lines)[i] - Head(Times(lines))]

-----------------------------------------------------------------------------
(* The clock and the timer *)

Advancing == running /\ ~paused
AtLeastZero(n) == IF n < 0 THEN 0 ELSE n
UpTo(limit, n) == IF n > limit THEN limit ELSE n

PositionNs ==
  IF Advancing THEN UpTo(Duration, base + elapsed * speed) ELSE base

CeilMs(n) == ((n + Ms - 1) \div Ms) * Ms

(* scheduleNext with the clock at e: the time the timer fires. *)
Schedule(e, i, from, factor) ==
  IF fast THEN e
  ELSE e + CeilMs(AtLeastZero(AtLeastZero(records[i] - from) \div factor - e))

(* std::lower_bound *)
FirstFrom(position) ==
  IF position >= Duration THEN End
  ELSE CHOOSE i \in DOMAIN records :
         /\ records[i] >= position
         /\ \A j \in 1 .. i - 1 : records[j] < position

Tick ==
  /\ Advancing
  /\ elapsed < MaxElapsed
  /\ elapsed' = elapsed + 1
  /\ media' = UpTo(Duration, media + speed)
  /\ UNCHANGED <<process, controlled, records, finished, next, fast, speed, base,
                 timer, running, paused, played>>

(* replayFinished: a controlled replay waits, another one ends the process. *)
ReplayFinished ==
  IF controlled THEN finished' = TRUE /\ UNCHANGED process
  ELSE process' = "exited" /\ UNCHANGED finished
NotFinished == UNCHANGED <<process, finished>>

BatchEnd == IF fast THEN UpTo(End, next + BatchSize) ELSE next + 1

EmitNextBatch ==
  /\ running
  /\ timer # NotSet /\ elapsed >= timer
  /\ next' = BatchEnd
  /\ played' = played \o [i \in 1 .. BatchEnd - next |-> next + i - 1]
  /\ IF next' >= End
     THEN /\ base' = Duration /\ elapsed' = 0 /\ timer' = NotSet
          /\ running' = FALSE /\ media' = Duration
          /\ ReplayFinished
     ELSE /\ timer' = Schedule(elapsed, next', base, speed)
          /\ UNCHANGED <<base, elapsed, running, media>>
          /\ NotFinished
  /\ UNCHANGED <<controlled, records, fast, speed, paused>>

-----------------------------------------------------------------------------
(* start, pause, resume, seekToNs, setSpeedFactor *)

StartSource ==
  /\ next' = 1 /\ base' = 0 /\ elapsed' = 0 /\ timer' = 0
  /\ running' = TRUE /\ paused' = FALSE
  /\ played' = <<>> /\ media' = 0

(* Faulty: the timer goes on. *)
PauseWithTimer ==
  /\ base' = PositionNs /\ paused' = TRUE
  /\ UNCHANGED <<next, fast, speed, elapsed, timer, running, played, media>>

PauseSource ==
  /\ base' = PositionNs /\ elapsed' = 0 /\ timer' = NotSet
  /\ paused' = TRUE
  /\ UNCHANGED <<next, fast, speed, running, played, media>>

(* Faulty: the end is not looked for. *)
ResumeAnyway ==
  /\ paused' = FALSE
  /\ elapsed' = 0 /\ timer' = IF next < End THEN Schedule(0, next, base, speed) ELSE NotSet
  /\ UNCHANGED <<next, fast, speed, base, running, played, media>>

(* Faulty: the timer is not set again. *)
ResumeUnscheduled ==
  /\ paused' = FALSE
  /\ elapsed' = 0
  /\ running' = (next # End)
  /\ UNCHANGED <<timer, next, fast, speed, base, played, media>>

ResumeSource ==
  /\ paused' = FALSE
  /\ elapsed' = 0
  /\ IF next = End
     THEN running' = FALSE /\ UNCHANGED timer
     ELSE timer' = Schedule(0, next, base, speed) /\ UNCHANGED running
  /\ UNCHANGED <<next, fast, speed, base, played, media>>

(* Faulty: the clock is not restarted. *)
SeekWithoutRestart(bounded) ==
  /\ next' = FirstFrom(bounded) /\ base' = bounded /\ media' = bounded /\ played' = <<>>
  /\ IF Advancing /\ next' # End
     THEN timer' = Schedule(elapsed, next', bounded, speed) /\ UNCHANGED <<running, elapsed>>
     ELSE timer' = NotSet /\ elapsed' = 0 /\ running' = paused
  /\ UNCHANGED <<fast, speed, paused>>

SeekSource(bounded) ==
  /\ next' = FirstFrom(bounded) /\ base' = bounded /\ media' = bounded /\ played' = <<>>
  /\ elapsed' = 0
  /\ IF Advancing /\ next' # End
     THEN timer' = Schedule(0, next', bounded, speed) /\ UNCHANGED running
     ELSE timer' = NotSet /\ running' = paused
  /\ UNCHANGED <<fast, speed, paused>>

(* Faulty: the position is taken with the new speed. *)
SetSpeedThenPosition(factor) ==
  /\ speed' = factor
  /\ base' = IF Advancing THEN UpTo(Duration, base + elapsed * factor) ELSE base
  /\ IF Advancing
     THEN elapsed' = 0 /\ timer' = Schedule(0, next, base', factor)
     ELSE UNCHANGED <<elapsed, timer>>
  /\ UNCHANGED <<next, fast, running, paused, played, media>>

SetSpeedSource(factor) ==
  /\ speed' = factor
  /\ base' = PositionNs
  /\ IF Advancing
     THEN elapsed' = 0 /\ timer' = Schedule(0, next, base', factor)
     ELSE UNCHANGED <<elapsed, timer>>
  /\ UNCHANGED <<next, fast, running, paused, played, media>>

-----------------------------------------------------------------------------
(* vehicle_loggerd *)

(* Replay control is refused together with fast replay, and needs a name   *)
(* that nobody else listens on.                                            *)
Launch(lines) ==
  /\ process = "starting"
  /\ \/ /\ Loadable(lines)
        /\ process' = "replaying"
        /\ records' = Load(lines)
        /\ fast' \in (IF controlled THEN {FALSE} ELSE BOOLEAN)
        /\ StartSource
     \/ /\ ~Loadable(lines) \/ controlled
        /\ process' = "exited"
        /\ UNCHANGED <<records, next, fast, base, elapsed, timer, running, paused, played,
                       media>>
  /\ UNCHANGED <<controlled, speed, finished>>

Playing == process = "replaying" /\ controlled

Play ==
  /\ Playing
  /\ IF ~running THEN StartSource /\ UNCHANGED <<fast, speed>>
     ELSE IF paused THEN ResumeSource ELSE UNCHANGED sourceVars
  /\ finished' = FALSE
  /\ UNCHANGED <<process, controlled, records>>

CanPause == running
PauseReplay ==
  /\ Playing /\ CanPause
  /\ IF paused THEN UNCHANGED sourceVars ELSE PauseSource
  /\ UNCHANGED <<process, controlled, records, finished>>

(* A replay that has ended is started, paused and moved in one go. *)
Seek(position) ==
  /\ Playing
  /\ IF running THEN SeekSource(UpTo(Duration, position))
     ELSE /\ next' = FirstFrom(UpTo(Duration, position))
          /\ base' = UpTo(Duration, position) /\ media' = base'
          /\ elapsed' = 0 /\ timer' = NotSet
          /\ running' = TRUE /\ paused' = TRUE /\ played' = <<>>
          /\ UNCHANGED <<fast, speed>>
  /\ finished' = (running /\ ~running')
  /\ UNCHANGED <<process, controlled, records>>

SetSpeed(factor) ==
  /\ Playing
  /\ SetSpeedSource(factor)
  /\ UNCHANGED <<process, controlled, records, finished>>

State ==
  IF finished THEN "finished" ELSE IF paused THEN "paused"
  ELSE IF running THEN "playing" ELSE "stopped"

SourceStep == (\E lines \in Recordings : Launch(lines)) \/ Tick \/ EmitNextBatch

Command ==
  \/ Play \/ PauseReplay
  \/ \E position \in Positions : Seek(position)
  \/ \E factor \in Speeds : SetSpeed(factor)

ReplayNext == SourceStep \/ Command

(* Time passes and the timer fires. *)
ReplaySpec == ReplayInit /\ [][ReplayNext]_replayVars /\ WF_replayVars(SourceStep)

-----------------------------------------------------------------------------
(* Properties *)

(* scheduleNext and emitNextBatch read the record at nextIndex_: while     *)
(* records are being played there is one, and the timer is set for it; and *)
(* the end is announced only when the last record has been played or       *)
(* skipped by a seek, and nothing is played after it.                      *)
ScheduledOrAtRest ==
  /\ process = "replaying" /\ Advancing => next < End /\ timer # NotSet
  /\ finished => ~running /\ next = End

(* The position that the status shows is the one the recording has come    *)
(* to: pausing, going on and a new speed do not move it.                   *)
PositionIsTrue == PositionNs = media

(* A record is played at its own time and never before, whatever was       *)
(* paused, moved or sped up on the way.  What the division by the speed    *)
(* drops is less than one time unit.                                       *)
NeverEarly ==
  [][EmitNextBatch /\ ~fast => records[next] < media + speed]_replayVars

(* The records are played in order, each once, between two seeks, and only *)
(* while the replay is not paused.                                         *)
Player == INSTANCE ReplayPlayer WITH
  total <- Len(records),
  state <- IF ~running THEN "resting" ELSE IF paused THEN "paused" ELSE "playing",
  cursor <- next

PlayerSpec == Player!PSpec

(* When no more commands come, the replay ends or waits paused.  One that  *)
(* nobody controls ends the process.                                       *)
ReplayEnds ==
  /\ <>[][SourceStep]_replayVars => <>[]~Advancing
  /\ (process = "replaying" /\ ~controlled) ~> process = "exited"
=============================================================================

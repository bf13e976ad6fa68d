---------------------------- MODULE Acquisition ----------------------------
(***************************************************************************)
(* vehicle_loggerd with live sources (src/apps/vehicle_loggerd_main.cpp):  *)
(* the CAN endpoint and the VN300 (Vn300Stream), the health of the sources *)
(* that is published for the dash (SourceHealthMonitor), the rate at which *)
(* a signal is logged (DecodedLogPolicy), and how the process starts and   *)
(* ends under systemd (ProcessTerminationMonitor, SystemdNotifier).  The   *)
(* queue of the logger and what follows it are AsyncSessionLogger, the     *)
(* dash server is SignalIpc.                                               *)
(*                                                                         *)
(* Time is counted in periods of the health timer.  A timestamp is kept as *)
(* its age: at Never, and for one that is not there, it makes no           *)
(* difference any more.                                                    *)
(***************************************************************************)
EXTENDS Vn300Stream

CONSTANTS
  Timeout,    (* canTimeoutNs_, vn300TimeoutNs_                            *)
  Interval,   (* minimumIntervalNs of the rate group                       *)
  Configs     (* the logging configurations: [groups, default, signals],   *)
              (* with "native", "off" and "rate" for the rate groups       *)

ASSUME AcquisitionAssumption == Timeout \in Nat \ {0} /\ Interval \in Nat \ {0}

(* load refuses a group that is of no such mode. *)
ASSUME ConfigsAssumption == \A c \in Configs : c.groups \subseteq {"native", "off", "rate"}

VARIABLES
  phase,       (* "starting", "ready", "stopped" after aboutToQuit, or     *)
               (* "failed"                                                 *)
  terminate,   (* terminationFlag                                          *)
  config,      (* the logging configuration                                *)
  canUp,       (* the CAN device is connected                              *)
  received,    (* received[s]: age of lastCanRxNs_, lastVn300RxNs_         *)
  shown,       (* shown[s]: LOGGER.can_healthy, LOGGER.vn300_healthy       *)
  logged,      (* age of lastLoggedTimestampNs_ of the signal              *)
  away,        (* history: for how long no VN300 is connected              *)
  record       (* history: age of the last record of the signal, and       *)
               (* whether one was refused since                            *)

healthVars == <<canUp, received, shown, away>>
logVars == <<logged, record>>
processVars == <<phase, terminate, config>>
vars == <<streamVars, healthVars, logVars, processVars>>

Sources == {"can", "vn300"}
Never == (IF Timeout < Interval THEN Interval ELSE Timeout) + 1
Older(age) == IF age < Never THEN age + 1 ELSE Never

(* The one signal that is followed; "rpm" comes from the CAN bus. *)
Signal == "rpm"

-----------------------------------------------------------------------------
(* DecodedLogPolicy *)

(* load: the default group exists, the signals are known and so are their  *)
(* groups. *)
Loadable(c) ==
  /\ c.groups # {} /\ c.default \in c.groups
  /\ \A s \in DOMAIN c.signals : s = Signal /\ c.signals[s] \in c.groups

Group == IF Signal \in DOMAIN config.signals THEN config.signals[Signal]
         ELSE config.default

(* Faulty: the schedule of the signal is not looked at. *)
ShouldLogAll == Group # "off"

ShouldLog == Group = "native" \/ (Group = "rate" /\ logged >= Interval)

(* What becomes of a sample of the signal: it is held back by the policy,  *)
(* recorded, or refused by the full queue.  The schedule goes on in both   *)
(* cases. *)
LogSample(outcome) ==
  /\ outcome = "held" <=> ~ShouldLog
  /\ logged' = IF Group = "rate" /\ ShouldLog THEN 0 ELSE logged
  /\ record' = IF Group # "rate" THEN record
               ELSE CASE outcome = "held" -> record
                      [] outcome = "recorded" -> [age |-> 0, refused |-> FALSE]
                      [] outcome = "refused" -> [record EXCEPT !.refused = TRUE]

-----------------------------------------------------------------------------
(* The sources *)

(* readFrames and processRecord.  A frame that cannot be decoded is        *)
(* received all the same. *)
CanFrame(outcome) ==
  /\ phase = "ready" /\ canUp
  /\ received' = [received EXCEPT !["can"] = 0]
  /\ IF outcome = "undecoded" THEN UNCHANGED logVars ELSE LogSample(outcome)
  /\ UNCHANGED <<streamVars, canUp, shown, away, processVars>>

(* The device is disconnected, as after bus-off.  Nothing connects it      *)
(* again. *)
CanLost ==
  /\ phase = "ready" /\ canUp
  /\ canUp' = FALSE
  /\ UNCHANGED <<streamVars, received, shown, away, logVars, processVars>>

(* processVnSamples, when some of what was sent is there to be read. *)
Vn300Read ==
  /\ phase = "ready"
  /\ UNCHANGED <<canUp, shown, away, logVars, processVars>>
  /\ \E k \in 1 .. Len(flight) :
       /\ flight' = SubSeq(flight, k + 1, Len(flight))
       /\ \E reading \in {Consume(buffer \o SubSeq(flight, 1, k))} :
            /\ ReadAvailable(k, reading)
            /\ received' = IF reading.out = <<>> THEN received
                           ELSE [received EXCEPT !["vn300"] = 0]

(* The error handler sets the state of the source to disconnected, which   *)
(* the next health tick asks for again. *)
Vn300Step ==
  /\ phase = "ready"
  /\ \/ \E packet \in Intact \cup Corrupt : Send(packet)
     \/ port = "serial" /\ \E packet \in Mutilated : Send(packet)
     \/ LinkBreaks \/ SimulatorStarts \/ ConnectToServer
  /\ UNCHANGED <<healthVars, logVars, processVars>>

(* Faulty: a source is healthy as long as it is connected. *)
HealthyConnected(connected, age) == connected

(* samples() of the health monitor, for a source that is enabled. *)
Healthy(connected, age) == connected /\ age <= Timeout

(* A period passes and the health timer fires. *)
HealthTick ==
  /\ phase = "ready" /\ UNCHANGED <<streamVars, canUp, processVars>>
  /\ received' = [s \in Sources |-> Older(received[s])]
  /\ away' = IF link = "on" THEN 0 ELSE Older(away)
  /\ shown' = [can |-> Healthy(canUp, received'["can"]),
               vn300 |-> Healthy(Vn300Connected, received'["vn300"])]
  /\ logged' = Older(logged) /\ record' = [record EXCEPT !.age = Older(@)]

-----------------------------------------------------------------------------
(* The process *)

ProcessReset ==
  /\ received' = [s \in Sources |-> Never] /\ away' = 0
  /\ shown' = [s \in Sources |-> FALSE] /\ canUp' = FALSE
  /\ logged' = Never /\ record' = [age |-> Never, refused |-> FALSE]
  /\ StreamReset

Init ==
  /\ StreamInit
  /\ phase = "starting" /\ terminate = FALSE
  /\ config \in Configs
  /\ canUp = FALSE
  /\ received = [s \in Sources |-> Never] /\ away = 0
  /\ shown = [s \in Sources |-> FALSE]
  /\ logged = Never /\ record = [age |-> Never, refused |-> FALSE]

(* main: the CAN device is connected last. *)
Ready ==
  /\ phase = "starting" /\ Loadable(config)
  /\ phase' = "ready" /\ canUp' = TRUE
  /\ UNCHANGED <<streamVars, received, shown, away, logVars, terminate, config>>

(* The logging configuration or a device is refused, or the process is     *)
(* killed: by systemd, which has not heard that it is ready or alive, or   *)
(* by the end of the power. *)
Fails ==
  /\ phase \in {"starting", "ready"}
  /\ phase' = "failed" /\ terminate' = FALSE
  /\ ProcessReset
  /\ UNCHANGED config

(* SIGTERM.  The poll reads the flag and clears it in two steps: a signal  *)
(* that comes between them sets a flag that is cleared unread.             *)
Terminate ==
  /\ phase \in {"starting", "ready"}
  /\ terminate' = TRUE
  /\ UNCHANGED <<streamVars, healthVars, logVars, phase, config>>

(* Faulty: the flag is cleared before it is read. *)
PollClearsFirst ==
  /\ phase = "ready" /\ terminate
  /\ terminate' = FALSE
  /\ UNCHANGED <<streamVars, healthVars, logVars, phase, config>>

(* The poll finds the flag, and the application quits: aboutToQuit tells   *)
(* systemd, and closes the dash server and the log. *)
Poll ==
  /\ phase = "ready" /\ terminate
  /\ phase' = "stopped" /\ terminate' = FALSE
  /\ ProcessReset
  /\ UNCHANGED config

(* systemd starts the service again, or the car is started; the            *)
(* configuration may have been replaced. *)
Restart ==
  /\ phase \in {"stopped", "failed"}
  /\ phase' = "starting"
  /\ config' \in Configs
  /\ UNCHANGED <<streamVars, healthVars, logVars, terminate>>

Next ==
  \/ \E outcome \in {"held", "recorded", "refused", "undecoded"} : CanFrame(outcome)
  \/ CanLost
  \/ Vn300Read
  \/ Vn300Step \/ HealthTick
  \/ Ready \/ Fails \/ Terminate \/ Poll \/ Restart

Spec == Init /\ [][Next]_vars

(* main comes to its end, the timers fire and what has arrived is read; the *)
(* VN300 sends, and not only what is corrupt. *)
Fairness ==
  /\ WF_vars(phase = "starting" /\ (Ready \/ Fails))
  /\ WF_vars(HealthTick) /\ WF_vars(Poll)
  /\ WF_vars(Vn300Read)
  /\ WF_vars(phase = "ready" /\ ConnectToServer /\ UNCHANGED <<healthVars, logVars, processVars>>)
  /\ SF_vars(/\ phase = "ready" /\ \E packet \in Intact : Send(packet)
             /\ UNCHANGED <<healthVars, logVars, processVars>>)

FairSpec == Spec /\ Fairness

-----------------------------------------------------------------------------
(* Properties *)

(* The dash is not told that a source is healthy when nothing of it was    *)
(* received for longer than the timeout, nor when it has been away for so  *)
(* long, whatever its connection claims: a serial port stays open without  *)
(* its plug. *)
HealthHonest ==
  /\ \A s \in Sources : shown[s] => received[s] <= Timeout
  /\ away > Timeout => ~shown["vn300"]

(* Two records of a signal in a rate group are never closer than its       *)
(* interval; and a sample is held back only while the last record is       *)
(* younger, or was refused by the full queue.                              *)
LoggedAtRate ==
  [][/\ Group = "rate" /\ CanFrame("recorded") => record.age >= Interval
     /\ CanFrame("held") =>
          Group = "off" \/ (Group = "rate" /\ (record.age < Interval \/ record.refused))]_vars

(* After any trouble on its line the VN300 is shown healthy again, time    *)
(* after time, once it is there to stay. *)
Vn300Returns ==
  <>[](phase = "ready" /\ link # "down") => []<>shown["vn300"]

(* A termination signal that the poll can see ends the process. *)
TerminationEnds == terminate ~> phase \in {"stopped", "failed"}
=============================================================================

---------------------------- MODULE ReplayControl ----------------------------
(***************************************************************************)
(* The remote control of a replay (src/ipc/replay_control.cpp): a          *)
(* ReplayControlServer in vehicle_loggerd and a ReplayControlClient in the *)
(* dash and in service_web.  Both clients command the same replay.         *)
(*                                                                         *)
(* A connection carries lines of JSON both ways, in order.  The server     *)
(* answers each command with a result and a status, here one message, and  *)
(* sends the status to all clients by a timer.                             *)
(***************************************************************************)
EXTENDS Replay, FiniteSets

CONSTANTS
  Clients,      (* those who control the replay                            *)
  MaxBacklog,   (* the 256 KiB a client may leave unread, in messages      *)
  MaxCommands,  (* bound: commands                                         *)
  MaxStarts     (* bound: starts of the logger                             *)

ASSUME ControlAssumption ==
  /\ MaxBacklog \in Nat /\ MaxCommands \in Nat /\ MaxStarts \in Nat

(* "junk": an unknown command, or a speed or position out of range. *)
Commands ==
  [name : {"play", "pause", "junk"}, arg : {0}]
    \cup [name : {"seek"}, arg : Positions] \cup [name : {"speed"}, arg : Speeds]

States == {"finished", "paused", "playing", "stopped"}

(* link: "off" not started; "waiting" for the reconnect timer; "pending":       *)
(* connected and not accepted yet; "accepted"; "closing": being closed by  *)
(* the server, "dead": its process has ended, neither noticed by the       *)
(* client; "gone": the client has left, not noticed by the server.         *)

VARIABLES
  link,      (* link[c]: the connection of client c                        *)
  requests,  (* requests[c]: commands on their way                         *)
  replies,   (* replies[c]: messages on their way back                     *)
  residue,   (* residue[c]: does buffer_ hold half a line of an earlier    *)
             (* connection?                                                *)
  status,    (* status[c]: the state c shows, "none" when not available    *)
  commands,  (* bound: commands so far                                     *)
  starts,    (* bound: starts of the logger so far                         *)
  asked,     (* history: asked[c], commands sent on this connection        *)
  answered   (* history: answered[c], results c has read on it             *)

clientVars == <<link, requests, replies, residue, status, asked, answered>>
controlVars == <<replayVars, clientVars, commands, starts>>

ControlInit ==
  /\ ReplayInit
  /\ link = [c \in Clients |-> "off"]
  /\ requests = [c \in Clients |-> <<>>] /\ replies = [c \in Clients |-> <<>>]
  /\ residue = [c \in Clients |-> FALSE] /\ status = [c \in Clients |-> "none"]
  /\ commands = 0 /\ starts = 1
  /\ asked = [c \in Clients |-> 0] /\ answered = [c \in Clients |-> 0]

-----------------------------------------------------------------------------
(* The server *)

Listening == process = "replaying" /\ controlled

(* send() hangs up on a client that does not read. *)
Slow(c) == Len(replies[c]) > MaxBacklog
Told(c, message) == IF Slow(c) THEN replies[c] ELSE Append(replies[c], message)

Accept(c) ==
  /\ Listening
  /\ link[c] = "pending"
  /\ link' = [link EXCEPT ![c] = "accepted"]
  /\ replies' = [replies EXCEPT ![c] = <<[result |-> "none", state |-> State]>>]
  /\ UNCHANGED <<replayVars, requests, residue, status, commands, starts, asked, answered>>

(* Faulty: only a replay that plays is reported. *)
StatusTimerPlaying ==
  /\ Listening /\ State = "playing"
  /\ replies' = [c \in Clients |->
       IF link[c] = "accepted" THEN Told(c, [result |-> "none", state |-> State])
       ELSE replies[c]]
  /\ link' = [c \in Clients |->
       IF link[c] = "accepted" /\ Slow(c) THEN "closing" ELSE link[c]]
  /\ UNCHANGED <<replayVars, requests, residue, status, commands, starts, asked, answered>>

StatusTimer ==
  /\ Listening
  /\ replies' = [c \in Clients |->
       IF link[c] = "accepted" THEN Told(c, [result |-> "none", state |-> State])
       ELSE replies[c]]
  /\ link' = [c \in Clients |->
       IF link[c] = "accepted" /\ Slow(c) THEN "closing" ELSE link[c]]
  /\ UNCHANGED <<replayVars, requests, residue, status, commands, starts, asked, answered>>

(* The command handler that main gives to the server. *)
Perform(command) ==
  \/ command.name = "play" /\ Play
  \/ command.name = "pause" /\ PauseReplay
  \/ command.name = "seek" /\ Seek(command.arg)
  \/ command.name = "speed" /\ SetSpeed(command.arg)
Refused(command) ==
  \/ command.name = "junk"
  \/ command.name = "pause" /\ ~CanPause

(* Once the client has left or is hung up on, there is no answer. *)
Answer(c, result) ==
  IF link[c] = "accepted"
  THEN /\ replies' = [replies EXCEPT ![c] = Told(c, [result |-> result, state |-> State'])]
       /\ link' = [link EXCEPT ![c] = IF Slow(c) THEN "closing" ELSE @]
  ELSE UNCHANGED <<replies, link>>

Readable(c) ==
  Listening /\ link[c] \in {"accepted", "closing", "gone"} /\ requests[c] # <<>>

(* Faulty: a command that fails is not answered. *)
ReadClientGoodOnly(c) ==
  /\ Readable(c)
  /\ requests' = [requests EXCEPT ![c] = Tail(@)]
  /\ \/ Perform(Head(requests[c])) /\ Answer(c, "ok")
     \/ Refused(Head(requests[c])) /\ UNCHANGED <<replayVars, link, replies>>
  /\ UNCHANGED <<residue, status, commands, starts, asked, answered>>

ReadClient(c) ==
  /\ Readable(c)
  /\ requests' = [requests EXCEPT ![c] = Tail(@)]
  /\ \/ Perform(Head(requests[c])) /\ Answer(c, "ok")
     \/ Refused(Head(requests[c])) /\ UNCHANGED replayVars /\ Answer(c, "failed")
  /\ UNCHANGED <<residue, status, commands, starts, asked, answered>>

RemoveClient(c) ==
  /\ link[c] = "gone"
  /\ link' = [link EXCEPT ![c] = "off"]
  /\ requests' = [requests EXCEPT ![c] = <<>>]
  /\ UNCHANGED <<replayVars, replies, residue, status, commands, starts, asked, answered>>

(* The logger ends, with or without a warning, and is started again. *)
LoggerEnds ==
  /\ process = "replaying"
  /\ process' = "exited"
  /\ link' = [c \in Clients |->
       CASE link[c] \in {"pending", "accepted", "closing"} -> "dead"
         [] link[c] = "gone" -> "off"
         [] OTHER -> link[c]]
  /\ requests' = [c \in Clients |-> <<>>]
  /\ UNCHANGED <<controlled, records, finished, sourceVars, replies, residue, status,
                 commands, starts, asked, answered>>

Restart ==
  /\ process = "exited" /\ starts < MaxStarts
  /\ starts' = starts + 1
  /\ process' = "starting"
  /\ records' = <<>> /\ played' = <<>>
  /\ next' = 1 /\ base' = 0 /\ elapsed' = 0 /\ timer' = NotSet /\ media' = 0
  /\ running' = FALSE /\ paused' = FALSE /\ finished' = FALSE
  /\ UNCHANGED <<controlled, fast, speed, clientVars, commands>>

-----------------------------------------------------------------------------
(* A client *)

ClientStart(c) ==
  /\ link[c] = "off"
  /\ link' = [link EXCEPT ![c] = "waiting"]
  /\ UNCHANGED <<replayVars, requests, replies, residue, status, commands, starts, asked, answered>>

Connect(c) ==
  /\ link[c] = "waiting"
  /\ Listening
  /\ link' = [link EXCEPT ![c] = "pending"]
  /\ requests' = [requests EXCEPT ![c] = <<>>] /\ replies' = [replies EXCEPT ![c] = <<>>]
  /\ asked' = [asked EXCEPT ![c] = 0] /\ answered' = [answered EXCEPT ![c] = 0]
  /\ UNCHANGED <<replayVars, residue, status, commands, starts>>

(* What is sent to a logger that has ended is lost. *)
SendCommand(c, command) ==
  /\ link[c] \in {"pending", "accepted", "closing", "dead"}
  /\ commands < MaxCommands
  /\ commands' = commands + 1
  /\ requests' = [requests EXCEPT ![c] = IF link[c] = "dead" THEN @ ELSE Append(@, command)]
  /\ asked' = [asked EXCEPT ![c] = @ + 1]
  /\ UNCHANGED <<replayVars, link, replies, residue, status, starts, answered>>

(* What is left of an earlier connection spoils the first line of this one. *)
ReadAvailable(c) ==
  /\ link[c] \in {"accepted", "closing", "dead"}
  /\ replies[c] # <<>>
  /\ replies' = [replies EXCEPT ![c] = Tail(@)]
  /\ residue' = [residue EXCEPT ![c] = FALSE]
  /\ IF residue[c] THEN UNCHANGED <<status, answered>>
     ELSE /\ status' = [status EXCEPT ![c] = Head(replies[c]).state]
          /\ answered' = [answered EXCEPT ![c] =
                            IF Head(replies[c]).result = "none" THEN @ ELSE @ + 1]
  /\ UNCHANGED <<replayVars, link, requests, commands, starts, asked>>

(* A process that ends may leave half a line behind. *)
NoticeClosed(c) ==
  /\ link[c] \in {"closing", "dead"}
  /\ link' = [link EXCEPT ![c] = "waiting"]
  /\ requests' = [requests EXCEPT ![c] = <<>>] /\ replies' = [replies EXCEPT ![c] = <<>>]
  /\ status' = [status EXCEPT ![c] = "none"]
  /\ \E half \in {residue[c], link[c] = "dead"} : residue' = [residue EXCEPT ![c] = half]
  /\ UNCHANGED <<replayVars, commands, starts, asked, answered>>

(* Commands already sent may still be read. *)
ClientStop(c) ==
  /\ link[c] \notin {"off", "gone"}
  /\ IF link[c] \in {"pending", "accepted"}
     THEN link' = [link EXCEPT ![c] = "gone"] /\ UNCHANGED requests
     ELSE /\ link' = [link EXCEPT ![c] = "off"]
          /\ requests' = [requests EXCEPT ![c] = <<>>]
  /\ replies' = [replies EXCEPT ![c] = <<>>]
  /\ residue' = [residue EXCEPT ![c] = FALSE]
  /\ status' = [status EXCEPT ![c] = "none"]
  /\ UNCHANGED <<replayVars, commands, starts, asked, answered>>

SourceSteps == SourceStep /\ UNCHANGED <<clientVars, commands, starts>>
ClientStep(c) ==
  \/ ClientStart(c) \/ Connect(c) \/ ReadAvailable(c) \/ NoticeClosed(c) \/ ClientStop(c)
  \/ \E command \in Commands : SendCommand(c, command)

ControlNext ==
  \/ SourceSteps \/ StatusTimer \/ LoggerEnds \/ Restart
  \/ \E c \in Clients : Accept(c) \/ ReadClient(c) \/ RemoveClient(c) \/ ClientStep(c)

(* Time passes, the timers fire, and the event loops on both sides run.    *)
ControlFairness ==
  /\ WF_controlVars(SourceSteps) /\ WF_controlVars(StatusTimer)
  /\ \A c \in Clients :
       /\ WF_controlVars(Accept(c)) /\ WF_controlVars(ReadClient(c))
       /\ WF_controlVars(Connect(c)) /\ WF_controlVars(ReadAvailable(c))
       /\ WF_controlVars(NoticeClosed(c))

ControlSpec == ControlInit /\ [][ControlNext]_controlVars /\ ControlFairness

-----------------------------------------------------------------------------
(* Properties *)

(* The answers on their way to c. *)
Count(c) == Cardinality({i \in DOMAIN replies[c] : replies[c][i].result # "none"})

(* On one connection every command is answered once and the client gets    *)
(* every answer: half a line of an earlier connection never costs one.     *)
EachAnsweredOnce ==
  \A c \in Clients :
    link[c] \in {"pending", "accepted"} =>
      asked[c] = Len(requests[c]) + Count(c) + answered[c]

(* A connected client comes to show the state of the replay, and every     *)
(* command gets its answer, as long as the connection lasts.               *)
ClientInformed ==
  \A c \in Clients :
    /\ \A state \in States :
         (link[c] = "accepted" /\ State = state)
           ~> (link[c] # "accepted" \/ status[c] = state \/ State # state)
    /\ (link[c] \in {"pending", "accepted"} /\ asked[c] > 0)
         ~> (link[c] \notin {"pending", "accepted"} \/ asked[c] = answered[c])
=============================================================================

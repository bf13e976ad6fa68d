----------------------------- MODULE ServiceWeb -----------------------------
(***************************************************************************)
(* The service web (service_web/src/main.cpp): one thread with the         *)
(* connections of HttpServer, the files of ServiceConfig and one           *)
(* maintenance command at a time (service_action_runner.cpp).  A request   *)
(* is handled in one step, except for an activation: its steps keep the    *)
(* thread busy, while browsers, other editors and disasters do not wait.   *)
(* What came of the last command is only shown, and is left out.           *)
(***************************************************************************)
EXTENDS HttpServer, ServiceConfig

CONSTANT Actions   (* the maintenance commands                             *)

ASSUME ActionsAssumption == "none" \notin Actions

VARIABLES
  asking,      (* the clients whose activation is going on: one at most    *)
  process      (* process_: the command that is running, or "none"         *)

vars == <<httpVars, configVars, asking, process>>

Init ==
  /\ HttpInit /\ ConfigInit
  /\ asking = {}
  /\ process = "none"

(* The thread is not in the middle of an activation. *)
Free == ~Activating

-----------------------------------------------------------------------------
(* The handler of main *)

(* The page and what it shows, requests that are refused by their method,  *)
(* path or headers, and replay commands, which the logger carries out.     *)
OtherRequest(c) ==
  Free /\ Answer(c) /\ UNCHANGED <<configVars, asking, process>>

LogFileRequest(c) ==
  /\ Free
  /\ AnswerWithFile(c)
  /\ UNCHANGED <<configVars, asking, process>>

DeleteRequest(c) ==
  Free /\ DeleteSession(c) /\ UNCHANGED <<configVars, asking, process>>

StageRequest(c, candidate) ==
  Free /\ Answer(c) /\ Stage(candidate) /\ UNCHANGED <<asking, process>>

(* An activation is answered after its last write.  One with a token that  *)
(* does not match or a set that is not valid changes nothing: it is        *)
(* OtherRequest.                                                           *)
ActivateRequest(c, type, token) ==
  /\ Free
  /\ link[c] = "open" /\ c \in buffers
  /\ Matches(type, token)
  /\ Validate(token)
  /\ asking' = {c}
  /\ UNCHANGED <<httpVars, file, previous, staged, tokens, edits, edited, named, process>>

ActivationSaves == SavePrevious /\ UNCHANGED <<httpVars, asking, process>>

ActivationEnds ==
  /\ Replace \/ WriteFails
  /\ \E c \in asking : Answer(c)
  /\ asking' = {}
  /\ UNCHANGED process

(* ServiceActionRunner::run *)
ActionRequest(c, action) ==
  /\ Free
  /\ Answer(c)
  /\ process = "none"
  /\ process' = action
  /\ UNCHANGED <<configVars, asking>>

(* The command has finished, was killed or could not be started.           *)
ActionEnds ==
  /\ Free
  /\ process # "none"
  /\ process' = "none"
  /\ UNCHANGED <<httpVars, configVars, asking>>

-----------------------------------------------------------------------------
(* The process ends, at any point, and systemd starts it again. *)
Restart ==
  /\ CloseAll /\ ForgetStaged
  /\ process' = "none"
  /\ asking' = {}

ConnectionStep(c) ==
  /\ Free
  /\ Accept(c) \/ ReadMalformed(c) \/ Timeout(c) \/ BytesWritten(c) \/ Hangup(c)
  /\ UNCHANGED <<configVars, asking, process>>

RequestStep(c) ==
  \/ OtherRequest(c) \/ LogFileRequest(c) \/ DeleteRequest(c)
  \/ \E candidate \in Candidates : StageRequest(c, candidate)
  \/ \E type \in Types, token \in 1 .. tokens : ActivateRequest(c, type, token)
  \/ \E action \in Actions : ActionRequest(c, action)

OutsideStep ==
  \/ /\ (\E c \in Clients : Connect(c)) \/ LoggerWrites \/ LoggerCloses
     /\ UNCHANGED <<configVars, asking, process>>
  \/ \E change \in Edits : Edit(change) /\ UNCHANGED <<httpVars, asking, process>>

Next ==
  \/ \E c \in Clients : ConnectionStep(c) \/ RequestStep(c)
  \/ ActivationSaves \/ ActivationEnds \/ ActionEnds \/ Restart \/ OutsideStep

(* What the event loop does for a connection without its browser asking.   *)
Serve(c) ==
  /\ Free
  /\ Accept(c) \/ Timeout(c) \/ BytesWritten(c)
  /\ UNCHANGED <<configVars, asking, process>>

(* The event loop comes to each connection, also when activations keep it  *)
(* busy again and again; disk calls return, and browsers read what they    *)
(* are sent.  Nobody has to send anything.                                 *)
Fairness ==
  /\ WF_vars(ActivationSaves \/ ActivationEnds)
  /\ \A c \in Clients : SF_vars(Serve(c))

Spec == Init /\ [][Next]_vars /\ Fairness

-----------------------------------------------------------------------------
(* Properties *)

(* A connection gets one response, however reading, the timer, downloads,  *)
(* activations and other clients interleave; only the sender of a          *)
(* malformed request may get a second one, when the time is up while the   *)
(* first is still being written.                                           *)
AnsweredOnce ==
  \A c \in Clients :
    /\ link[c] = "closing" => reply[c].responses >= 1
    /\ reply[c].responses > 1 => reply[c].malformed

(* Before a download is closed, the file has been written to the end that  *)
(* the browser was told, or waits to be; also when the session is being    *)
(* written or is deleted meanwhile.                                        *)
WholeFile ==
  \A c \in Clients :
    link[c] = "closing" => reply[c].units + output[c] > reply[c].length

(* Every connection ends, by an answer, the timer or the end of the file:  *)
(* none stays open and holds its place or its file, unless a read failed.  *)
ConnectionEnds ==
  \A c \in Clients : (link[c] # "off") ~> (link[c] = "off" \/ c \in stalled)
=============================================================================

----------------------------- MODULE HttpServer -----------------------------
(***************************************************************************)
(* The connections of the service web: SimpleHttpServer                    *)
(* (service_web/src/simple_http_server.cpp).  A connection carries one     *)
(* request and, in the end, is closed by the server.  What a request does  *)
(* is left to the module that extends this one.                            *)
(*                                                                         *)
(* A request is read when it is complete: an incomplete one only fills its *)
(* buffer.  What is written waits in the output of the socket, in units: a *)
(* response with its header is one, a chunk of a file is one.  Sockets     *)
(* follow Qt: disconnectFromHost writes what is waiting first, and reads   *)
(* no more; a socket that is deleted before takes it along.                *)
(***************************************************************************)
EXTENDS Naturals, FiniteSets

CONSTANTS
  Clients,      (* the browsers, with one connection each                  *)
  MaxClients,   (* kMaximumClients                                         *)
  MaxQueued,    (* kMaximumQueuedDownloadBytes, in units                   *)
  MaxFile       (* bound: the size of the log file, in chunks              *)

ASSUME HttpAssumption ==
  MaxClients \in Nat \ {0} /\ MaxQueued \in Nat \ {0} /\ MaxFile \in Nat

VARIABLES
  link,        (* link[c]: "off", "pending" in the listening socket,       *)
               (* "open", or "closing" after disconnectFromHost            *)
  buffers,     (* buffers_: the clients whose request is read              *)
  timers,      (* those of them whose timer has not fired; for others it   *)
               (* does nothing                                             *)
  downloads,   (* downloads_: the clients that are sent a file             *)
  at,          (* at[c]: position in that file                             *)
  output,      (* output[c]: units waiting to be written                   *)
  logFile,     (* the log file: size, and "active", "complete", "deleted"  *)
  reply,       (* history of the connection of c: how many responses it    *)
               (* has, whether one is to a malformed request, the length   *)
               (* it is told, and the units that have been written         *)
  stalled      (* history: downloads whose last read has failed            *)

serverVars == <<link, buffers, timers, downloads, at, output>>
httpVars == <<serverVars, logFile, reply, stalled>>

NoReply == [responses |-> 0, malformed |-> FALSE, length |-> 0, units |-> 0]

HttpInit ==
  /\ link = [c \in Clients |-> "off"]
  /\ buffers = {} /\ timers = {} /\ downloads = {}
  /\ at = [c \in Clients |-> 0] /\ output = [c \in Clients |-> 0]
  /\ logFile \in [size : {0, 1}, state : {"active"}]
  /\ reply = [c \in Clients |-> NoReply] /\ stalled = {}

-----------------------------------------------------------------------------
(* The peers and the log *)

Connect(c) ==
  /\ link[c] = "off"
  /\ link' = [link EXCEPT ![c] = "pending"]
  /\ UNCHANGED <<buffers, timers, downloads, at, output, logFile, reply, stalled>>

(* removeClient, of a socket that is disconnected. *)
RemoveClient(c) ==
  /\ link' = [link EXCEPT ![c] = "off"]
  /\ buffers' = buffers \ {c} /\ timers' = timers \ {c} /\ downloads' = downloads \ {c}
  /\ at' = [at EXCEPT ![c] = 0] /\ output' = [output EXCEPT ![c] = 0]
  /\ reply' = [reply EXCEPT ![c] = NoReply] /\ stalled' = stalled \ {c}

Hangup(c) == link[c] # "off" /\ RemoveClient(c) /\ UNCHANGED logFile

LoggerWrites ==
  /\ logFile.state = "active" /\ logFile.size < MaxFile
  /\ logFile' = [logFile EXCEPT !.size = @ + 1]
  /\ UNCHANGED <<serverVars, reply, stalled>>

LoggerCloses ==
  /\ logFile.state = "active"
  /\ logFile' = [logFile EXCEPT !.state = "complete"]
  /\ UNCHANGED <<serverVars, reply, stalled>>

-----------------------------------------------------------------------------
(* SimpleHttpServer *)

(* acceptConnections, for one of the connections.  The refusal is written  *)
(* to a socket that is deleted at once, and is not sent.                   *)
Accept(c) ==
  /\ link[c] = "pending"
  /\ IF Cardinality(buffers) >= MaxClients
     THEN link' = [link EXCEPT ![c] = "off"] /\ UNCHANGED <<buffers, timers>>
     ELSE /\ link' = [link EXCEPT ![c] = "open"]
          /\ buffers' = buffers \cup {c} /\ timers' = timers \cup {c}
  /\ UNCHANGED <<downloads, at, output, logFile, reply, stalled>>

(* respond, without a file. *)
Respond(c, malformed) ==
  /\ link' = [link EXCEPT ![c] = "closing"]
  /\ output' = [output EXCEPT ![c] = @ + 1]
  /\ reply' = [reply EXCEPT ![c].responses = @ + 1,
                            ![c].malformed = @ \/ malformed]

(* The request is malformed or too large.  Its buffer is kept until the    *)
(* socket is disconnected.                                                 *)
ReadMalformed(c) ==
  /\ link[c] = "open" /\ c \in buffers
  /\ Respond(c, TRUE)
  /\ UNCHANGED <<buffers, timers, downloads, at, logFile, stalled>>

(* The request was not complete in five seconds, or was malformed and its  *)
(* answer is still being written.                                          *)
Timeout(c) ==
  /\ c \in timers
  /\ timers' = timers \ {c}
  /\ Respond(c, FALSE)
  /\ UNCHANGED <<buffers, downloads, at, logFile, stalled>>

(* Faulty: the client keeps its buffer. *)
TakeRequestOnly(c) ==
  /\ link[c] = "open" /\ c \in buffers
  /\ UNCHANGED <<buffers, timers>>

(* readClient, of a request that is complete; the caller responds. *)
TakeRequest(c) ==
  /\ link[c] = "open" /\ c \in buffers
  /\ buffers' = buffers \ {c} /\ timers' = timers \ {c}

Answer(c) ==
  /\ TakeRequest(c)
  /\ Respond(c, FALSE)
  /\ UNCHANGED <<downloads, at, logFile, stalled>>

Least(a, b) == IF a < b THEN a ELSE b

(* Faulty: a read that gives nothing is taken for the end of the file. *)
WriteUntilNothingRead(c, waiting, position) ==
  \E read \in 0 .. Least(IF waiting < MaxQueued THEN MaxQueued - waiting ELSE 0,
                         logFile.size - position) :
    LET ended == waiting + read < MaxQueued \/ position + read = logFile.size
    IN  /\ output' = [output EXCEPT ![c] = waiting + read]
        /\ at' = [at EXCEPT ![c] = position + read]
        /\ downloads' = IF ended THEN downloads \ {c} ELSE downloads \cup {c}
        /\ link' = [link EXCEPT ![c] = IF ended THEN "closing" ELSE "open"]
        /\ UNCHANGED stalled

(* writeFileChunk, with so much in the output and at this position.  A     *)
(* failing read ends the loop but not the download.                        *)
WriteFileChunk(c, waiting, position) ==
  \E read \in 0 .. Least(IF waiting < MaxQueued THEN MaxQueued - waiting ELSE 0,
                         logFile.size - position) :
    LET failed == waiting + read < MaxQueued /\ position + read < logFile.size
        ended == position + read = logFile.size
    IN  /\ output' = [output EXCEPT ![c] = waiting + read]
        /\ at' = [at EXCEPT ![c] = position + read]
        /\ downloads' = IF ended THEN downloads \ {c} ELSE downloads \cup {c}
        /\ link' = [link EXCEPT ![c] = IF ended THEN "closing" ELSE "open"]
        /\ stalled' = IF failed THEN stalled \cup {c} ELSE stalled \ {c}

(* respond, with the file: it may be gone, and may be growing. *)
AnswerWithFile(c) ==
  /\ logFile.state # "deleted"
  /\ TakeRequest(c)
  /\ reply' = [reply EXCEPT ![c].responses = @ + 1, ![c].length = logFile.size]
  /\ WriteFileChunk(c, 1, 0)
  /\ UNCHANGED logFile

DeleteSession(c) ==
  /\ TakeRequest(c)
  /\ logFile' = IF logFile.state = "complete" THEN [logFile EXCEPT !.state = "deleted"]
                ELSE logFile
  /\ Respond(c, FALSE)
  /\ UNCHANGED <<downloads, at, stalled>>

(* Faulty: a download is not taken further. *)
BytesWrittenOnly(c) ==
  /\ output[c] > 0
  /\ UNCHANGED logFile
  /\ IF link[c] = "closing" /\ output[c] = 1 THEN RemoveClient(c)
     ELSE /\ output' = [output EXCEPT ![c] = @ - 1]
          /\ reply' = [reply EXCEPT ![c].units = @ + 1]
          /\ UNCHANGED <<link, buffers, timers, downloads, at, stalled>>

(* A unit is written: the last one of a closing socket disconnects it, and *)
(* a download goes on.                                                     *)
BytesWritten(c) ==
  /\ output[c] > 0
  /\ UNCHANGED logFile
  /\ IF link[c] = "closing" /\ output[c] = 1 THEN RemoveClient(c)
     ELSE /\ reply' = [reply EXCEPT ![c].units = @ + 1]
          /\ IF c \in downloads
             THEN WriteFileChunk(c, output[c] - 1, at[c]) /\ UNCHANGED <<buffers, timers>>
             ELSE /\ output' = [output EXCEPT ![c] = @ - 1]
                  /\ UNCHANGED <<link, buffers, timers, downloads, at, stalled>>

(* close(), or the death of the process: every socket is disconnected. *)
CloseAll ==
  /\ link' = [c \in Clients |-> "off"]
  /\ buffers' = {} /\ timers' = {} /\ downloads' = {} /\ stalled' = {}
  /\ at' = [c \in Clients |-> 0] /\ output' = [c \in Clients |-> 0]
  /\ reply' = [c \in Clients |-> NoReply]
  /\ UNCHANGED logFile
=============================================================================

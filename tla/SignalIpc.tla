------------------------------ MODULE SignalIpc ------------------------------
(***************************************************************************)
(* The local socket between vehicle_loggerd and its dashes:                *)
(* SignalIpcServer (src/ipc/signal_ipc_server.cpp) in the logger and       *)
(* IpcSignalSource (dash_ui/src/backend/ipc_signal_source.cpp) in each     *)
(* dash.  Ordinary samples are coalesced to the newest value of each       *)
(* signal; event samples are queued one by one; a timer sends both to all  *)
(* clients as one frame.  A new client first gets the latest state.        *)
(*                                                                         *)
(* A connection is a FIFO of frames.  It is read frame by frame: how the   *)
(* bytes are cut on the way is abstracted, and so is the definitions frame *)
(* that opens a connection, as names and units play no part here.          *)
(***************************************************************************)
EXTENDS Naturals, Sequences, SequencesExt

CONSTANTS
  Clients,      (* the dashes                                              *)
  Signals,      (* the ordinary signals                                    *)
  Values,       (* what a sample of one may be                             *)
  Events,       (* what an event sample may be                             *)
  MaxBacklog,   (* kMaximumClientBacklogBytes, in frames                   *)
  MaxTime,      (* bound: samples published by one run of the logger       *)
  MaxRuns       (* bound: starts of the logger                             *)

ASSUME IpcAssumption ==
  /\ MaxBacklog \in Nat /\ MaxTime \in Nat /\ MaxRuns \in Nat

(* A sample and its origin: the acquisition time, which starts anew with   *)
(* each run of the logger.  The run is not in the code's samples; it is    *)
(* there for the properties.                                               *)
SampleOf(S) == [value : S, run : 1 .. MaxRuns, time : 1 .. MaxTime]

(* link: "off", a dash that does not run; "waiting" for the reconnect      *)
(* timer; "pending", connected but not accepted yet; "accepted", in         *)
(* clients_; "closing", closed by the server and not noticed by the dash;   *)
(* "gone", closed by the dash and not noticed by the server.                *)

VARIABLES
  up,             (* is the logger running?                                *)
  listening,      (* server_.isListening()                                 *)
  run,            (* runs of the logger so far                             *)
  now,            (* the acquisition time of the newest sample             *)
  latestState,    (* latestState_                                          *)
  pendingLatest,  (* pendingLatest_                                        *)
  pendingEvents,  (* pendingEvents_                                        *)
  link,           (* link[c]: the connection of dash c                     *)
  channel,        (* channel[c]: frames sent to c and not read             *)
  view,           (* view[c]: the newest sample of each signal c has read  *)
  got,            (* history: the events c has read on this connection     *)
  owed,           (* history: the events it is to read                     *)
  leftover        (* history: did the last dash ever leave while values    *)
                  (* were pending, that is within one display frame?       *)

loggerVars == <<up, listening, run, now>>
pendingVars == <<pendingLatest, pendingEvents>>
clientVars == <<link, channel, view>>
historyVars == <<got, owed, leftover>>
ipcVars == <<loggerVars, latestState, pendingVars, clientVars, historyVars>>

Nothing == [s \in {} |-> 0]

IpcInit ==
  /\ up = FALSE /\ listening = FALSE /\ run = 0 /\ now = 0
  /\ latestState = Nothing /\ pendingLatest = Nothing /\ pendingEvents = <<>>
  /\ link = [c \in Clients |-> "off"]
  /\ channel = [c \in Clients |-> <<>>]
  /\ view = [c \in Clients |-> Nothing]
  /\ got = [c \in Clients |-> <<>>] /\ owed = [c \in Clients |-> <<>>]
  /\ leftover = FALSE

(* clients_ *)
Served == {c \in Clients : link[c] \in {"accepted", "gone"}}

Put(map, s, sample) ==
  [x \in DOMAIN map \cup {s} |-> IF x = s THEN sample ELSE map[x]]
Overlay(map, newer) ==
  [x \in DOMAIN map \cup DOMAIN newer |-> IF x \in DOMAIN newer THEN newer[x] ELSE map[x]]

-----------------------------------------------------------------------------
(* The logger *)

(* The name may be in use by another logger: then there is no server and   *)
(* acquisition goes on.                                                    *)
LoggerStart ==
  /\ ~up
  /\ run < MaxRuns
  /\ up' = TRUE /\ listening' \in BOOLEAN
  /\ run' = run + 1 /\ now' = 0
  /\ latestState' = Nothing
  /\ UNCHANGED <<pendingVars, clientVars, historyVars>>

(* stop(), or the death of the process. *)
LoggerStop ==
  /\ up
  /\ up' = FALSE /\ listening' = FALSE
  /\ pendingLatest' = Nothing /\ pendingEvents' = <<>>
  /\ link' = [c \in Clients |->
                CASE link[c] \in {"pending", "accepted"} -> "closing"
                  [] link[c] = "gone" -> "off"
                  [] OTHER -> link[c]]
  /\ UNCHANGED <<run, now, latestState, channel, view, historyVars>>

Sampled(value) == [value |-> value, run |-> run, time |-> now + 1]

(* Faulty: the first value of a display frame wins. *)
PublishStateOnce(s, value) ==
  /\ up
  /\ now < MaxTime
  /\ now' = now + 1
  /\ latestState' = Put(latestState, s, Sampled(value))
  /\ pendingLatest' = IF Served = {} \/ s \in DOMAIN pendingLatest THEN pendingLatest
                      ELSE Put(pendingLatest, s, Sampled(value))
  /\ UNCHANGED <<up, listening, run, pendingEvents, clientVars, historyVars>>

PublishState(s, value) ==
  /\ up
  /\ now < MaxTime
  /\ now' = now + 1
  /\ latestState' = Put(latestState, s, Sampled(value))
  /\ pendingLatest' = IF Served = {} THEN pendingLatest
                      ELSE Put(pendingLatest, s, Sampled(value))
  /\ UNCHANGED <<up, listening, run, pendingEvents, clientVars, historyVars>>

PublishEvent(event) ==
  /\ up
  /\ now < MaxTime
  /\ now' = now + 1
  /\ pendingEvents' = IF Served = {} THEN pendingEvents
                      ELSE Append(pendingEvents, Sampled(event))
  /\ owed' = [c \in Clients |->
                IF c \in Served THEN Append(owed[c], Sampled(event)) ELSE owed[c]]
  /\ UNCHANGED <<up, listening, run, latestState, pendingLatest, clientVars, got, leftover>>

(* send() aborts a client that has not kept up; what was sent to it may or *)
(* may not arrive.                                                         *)
TooSlow == {c \in Clients : link[c] = "accepted" /\ Len(channel[c]) > MaxBacklog}
Batch == [events |-> pendingEvents, state |-> pendingLatest]

FlushPendingSamples ==
  /\ up
  /\ pendingLatest # Nothing \/ pendingEvents # <<>>
  /\ pendingLatest' = Nothing /\ pendingEvents' = <<>>
  /\ link' = [c \in Clients |-> IF c \in TooSlow THEN "closing" ELSE link[c]]
  /\ channel' = [c \in Clients |->
                   IF link[c] = "accepted" /\ c \notin TooSlow
                   THEN Append(channel[c], Batch) ELSE channel[c]]
  /\ UNCHANGED <<loggerVars, latestState, view, historyVars>>

(* Faulty: the new client does not get the latest state. *)
AcceptWithoutSnapshot(c) ==
  /\ up
  /\ link[c] = "pending"
  /\ link' = [link EXCEPT ![c] = "accepted"]
  /\ owed' = [owed EXCEPT ![c] = pendingEvents]
  /\ UNCHANGED <<loggerVars, latestState, pendingVars, channel, view, got, leftover>>

(* Samples published before a client is accepted may still be pending for  *)
(* the others: it gets them too, after the snapshot.                       *)
Accept(c) ==
  /\ up
  /\ link[c] = "pending"
  /\ link' = [link EXCEPT ![c] = "accepted"]
  /\ channel' = [channel EXCEPT ![c] =
       IF latestState = Nothing THEN <<>>
       ELSE <<[events |-> <<>>, state |-> latestState]>>]
  /\ owed' = [owed EXCEPT ![c] = pendingEvents]
  /\ UNCHANGED <<loggerVars, latestState, pendingVars, view, got, leftover>>

(* removeClient.  What is pending stays pending, also when nobody is left  *)
(* to send it to.                                                          *)
NoticeGone(c) ==
  /\ up
  /\ link[c] = "gone"
  /\ link' = [link EXCEPT ![c] = "off"]
  /\ leftover' = (leftover \/ (Served = {c} /\ pendingLatest # Nothing))
  /\ UNCHANGED <<loggerVars, latestState, pendingVars, channel, view, got, owed>>

-----------------------------------------------------------------------------
(* A dash *)

DashStart(c) ==
  /\ link[c] = "off"
  /\ link' = [link EXCEPT ![c] = "waiting"]
  /\ UNCHANGED <<loggerVars, latestState, pendingVars, channel, view, historyVars>>

(* connectToServer, at once or by the reconnect timer.  An attempt with    *)
(* nobody listening leaves the timer running.                              *)
Connect(c) ==
  /\ link[c] = "waiting"
  /\ listening
  /\ link' = [link EXCEPT ![c] = "pending"]
  /\ channel' = [channel EXCEPT ![c] = <<>>]
  /\ got' = [got EXCEPT ![c] = <<>>] /\ owed' = [owed EXCEPT ![c] = <<>>]
  /\ UNCHANGED <<loggerVars, latestState, pendingVars, view, leftover>>

(* Faulty: the newest frame is read and the others are skipped. *)
ReadNewest(c) ==
  /\ link[c] \in {"accepted", "closing"}
  /\ channel[c] # <<>>
  /\ view' = [view EXCEPT ![c] = Overlay(@, Last(channel[c]).state)]
  /\ got' = [got EXCEPT ![c] = @ \o Last(channel[c]).events]
  /\ channel' = [channel EXCEPT ![c] = <<>>]
  /\ UNCHANGED <<loggerVars, latestState, pendingVars, link, owed, leftover>>

Read(c) ==
  /\ link[c] \in {"accepted", "closing"}
  /\ channel[c] # <<>>
  /\ view' = [view EXCEPT ![c] = Overlay(@, Head(channel[c]).state)]
  /\ got' = [got EXCEPT ![c] = @ \o Head(channel[c]).events]
  /\ channel' = [channel EXCEPT ![c] = Tail(@)]
  /\ UNCHANGED <<loggerVars, latestState, pendingVars, link, owed, leftover>>

(* Faulty: the reconnect timer is not started. *)
NoticeClosedForGood(c) ==
  /\ link[c] = "closing"
  /\ channel' = [channel EXCEPT ![c] = <<>>]
  /\ UNCHANGED <<loggerVars, latestState, pendingVars, link, view, historyVars>>

(* handleDisconnected drops what is in the receive buffer. *)
NoticeClosed(c) ==
  /\ link[c] = "closing"
  /\ link' = [link EXCEPT ![c] = "waiting"]
  /\ channel' = [channel EXCEPT ![c] = <<>>]
  /\ UNCHANGED <<loggerVars, latestState, pendingVars, view, historyVars>>

DashStop(c) ==
  /\ link[c] \notin {"off", "gone"}
  /\ link' = [link EXCEPT ![c] = IF @ = "accepted" THEN "gone" ELSE "off"]
  /\ channel' = [channel EXCEPT ![c] = <<>>]
  /\ view' = [view EXCEPT ![c] = Nothing]
  /\ got' = [got EXCEPT ![c] = <<>>] /\ owed' = [owed EXCEPT ![c] = <<>>]
  /\ UNCHANGED <<loggerVars, latestState, pendingVars, leftover>>

ServerStep ==
  \/ LoggerStart \/ LoggerStop \/ FlushPendingSamples
  \/ \E c \in Clients : Accept(c) \/ NoticeGone(c)
PublishStep ==
  \/ \E s \in Signals, value \in Values : PublishState(s, value)
  \/ \E event \in Events : PublishEvent(event)

DashStep(c) ==
  DashStart(c) \/ Connect(c) \/ Read(c) \/ NoticeClosed(c) \/ DashStop(c)

IpcNext == ServerStep \/ PublishStep \/ \E c \in Clients : DashStep(c)

IpcSpec == IpcInit /\ [][IpcNext]_ipcVars

(* The flush timer and the event loops of both processes run; the          *)
(* reconnect timer fires.  Nobody has to start, stop or publish.           *)
IpcFairness ==
  /\ WF_ipcVars(FlushPendingSamples)
  /\ \A c \in Clients :
       /\ WF_ipcVars(Accept(c)) /\ WF_ipcVars(NoticeGone(c))
       /\ WF_ipcVars(Connect(c)) /\ WF_ipcVars(Read(c)) /\ WF_ipcVars(NoticeClosed(c))

IpcFairSpec == IpcSpec /\ IpcFairness

-----------------------------------------------------------------------------
(* Properties *)

InFlight(c) == FlattenSeq([i \in 1 .. Len(channel[c]) |-> channel[c][i].events])

(* On one connection no event is lost, duplicated or reordered: what the   *)
(* dash has read, what is on its way and what is pending make up what was  *)
(* published for it.  After the server has closed it the dash has read, or *)
(* can still read, a prefix.                                               *)
EventsInOrder ==
  \A c \in Clients :
    /\ link[c] = "accepted" => got[c] \o InFlight(c) \o pendingEvents = owed[c]
    /\ link[c] = "closing" => IsPrefix(got[c] \o InFlight(c), owed[c])

(* The frames on their way to dash c that carry signal s. *)
Carrying(c, s) == {i \in DOMAIN channel[c] : s \in DOMAIN channel[c][i].state}

(* Dash c will show this sample of signal s once it has read everything.   *)
Upcoming(c, s, sample) ==
  IF s \in DOMAIN pendingLatest THEN pendingLatest[s] = sample
  ELSE IF Carrying(c, s) # {} THEN channel[c][Max(Carrying(c, s))].state[s] = sample
  ELSE s \in DOMAIN view[c] /\ view[c][s] = sample

(* The snapshot of a new client and the coalesced values after it always   *)
(* bring a connected dash to the latest state of the logger: whatever it   *)
(* has missed or not read yet is on its way or pending.                    *)
CatchesUp ==
  \A c \in Clients : link[c] = "accepted" =>
    \A s \in DOMAIN latestState : Upcoming(c, s, latestState[s])

(* Coalescing never loses the last value of a signal, as long as the last  *)
(* dash does not leave with values pending.                                *)
ViewCatchesUp == ~leftover => CatchesUp

NotOlder(new, old) == new.run > old.run \/ (new.run = old.run /\ new.time >= old.time)

(* A dash never goes back to an older value of a signal, also not when the *)
(* snapshot of a new connection is followed by samples that were pending   *)
(* for the others.                                                         *)
ViewNeverGoesBack ==
  [][\A c \in Clients : \A s \in DOMAIN view[c] \cap DOMAIN view'[c] :
       leftover \/ NotOlder(view'[c][s], view[c][s])]_ipcVars

(* Every value a connected dash is to show is shown, unless a newer one    *)
(* comes first or the connection ends (see ViewCatchesUp for leftover);    *)
(* and a dash that runs is connected again and again as long as there is a *)
(* server.                                                                 *)
ValuesArrive ==
  /\ \A c \in Clients : \A s \in Signals : \A sample \in SampleOf(Values) :
       (link[c] = "accepted" /\ s \in DOMAIN latestState /\ latestState[s] = sample)
         ~> \/ link[c] # "accepted" \/ leftover
            \/ s \in DOMAIN view[c] /\ NotOlder(view[c][s], sample)
  /\ \A c \in Clients :
       (link[c] # "off" /\ listening)
         ~> (link[c] \in {"off", "gone", "accepted"} \/ ~listening)
=============================================================================

----------------------------- MODULE DashInput -----------------------------
(***************************************************************************)
(* From a wheel button to a dash action.  The wheel control module (WCM,   *)
(* an external controller, simulated by src/sim/wcm_simulator.cpp) sends   *)
(* an event message at every button edge and a status message with the     *)
(* state of all buttons; the logger publishes both through SignalIpc; the  *)
(* DashInputController of each dash                                        *)
(* (dash_ui/src/backend/dash_input_controller.cpp) turns what it reads     *)
(* into actions, one for each press.                                       *)
(*                                                                         *)
(* The events keep their order on this way, the status is coalesced: the   *)
(* controller takes the events of a frame first and its status last.       *)
(***************************************************************************)
EXTENDS SignalIpc

CONSTANTS
  Buttons,
  MaxEdges,   (* bound: button edges                                       *)
  Glued       (* does the status the simulator sends right after an edge   *)
              (* reach the logger in the same display frame as the event?  *)

ASSUME WheelAssumption ==
  /\ Signals = {"inputs"}
  /\ Values = SUBSET Buttons
  /\ Events = [id : Buttons, pressed : BOOLEAN]
  /\ MaxEdges \in Nat /\ Glued \in BOOLEAN

VARIABLES
  held,        (* inputs_ of the WCM: the buttons that are pressed         *)
  statusDue,   (* is the status that is glued to an event still to come?   *)
  input,       (* input[c]: the controller of dash c                       *)
  edges,       (* bound: button edges so far                               *)
  presses,     (* history: presses[b], how often b was pressed             *)
  acted,       (* history: acted[c][b], how often dash c has acted on it   *)
  due          (* history: due[c][b], how often it must have by the time   *)
               (* it has read everything of this connection                *)

wheelVars == <<held, statusDue, edges, presses>>
dashVars == <<input, acted>>
inputVars == <<ipcVars, wheelVars, dashVars, due>>

(* buttonKnown_, buttonPressed_ and lastEventTimestampNs_.                 *)
(* statusInitialized_ is left out: it is set by the first status, which    *)
(* makes every button known, and matters to unknown buttons only.          *)
NewController == [known |-> {}, pressed |-> {}, lastEvent |-> 0]

None == [b \in Buttons |-> 0]
Plus(counts, B) == [b \in Buttons |-> IF b \in B THEN counts[b] + 1 ELSE counts[b]]

InputInit ==
  /\ IpcInit
  /\ held = {} /\ statusDue = FALSE
  /\ input = [c \in Clients |-> NewController]
  /\ edges = 0 /\ presses = None
  /\ acted = [c \in Clients |-> None] /\ due = [c \in Clients |-> None]

-----------------------------------------------------------------------------
(* The wheel control module *)

(* After a restart of the logger a periodic status reaches the connected   *)
(* dashes before the next edge does.                                       *)
Resumed ==
  run = 1 \/ \A c \in Clients : link[c] = "accepted" =>
                "inputs" \in DOMAIN view[c] /\ view[c]["inputs"].run = run

(* setButtonPressed changes the state and sends the event ... *)
Edge(b) ==
  LET pressed == b \notin held IN
  /\ ~statusDue
  /\ edges < MaxEdges
  /\ edges' = edges + 1
  /\ held' = IF pressed THEN held \cup {b} ELSE held \ {b}
  /\ presses' = IF pressed THEN Plus(presses, {b}) ELSE presses
  /\ \/ /\ ~up
        /\ UNCHANGED <<ipcVars, statusDue, due>>
     \/ /\ Glued => now + 1 < MaxTime /\ Resumed
        /\ PublishEvent([id |-> b, pressed |-> pressed])
        /\ statusDue' = Glued
        /\ due' = [c \in Clients |->
             IF pressed /\ link[c] = "accepted" THEN Plus(due[c], {b}) ELSE due[c]]
  /\ UNCHANGED dashVars

(* ... and a status, which is also sent periodically. *)
Status ==
  /\ PublishState("inputs", held)
  /\ statusDue' = FALSE
  /\ UNCHANGED <<held, edges, presses, dashVars, due>>

-----------------------------------------------------------------------------
(* DashInputController.  What a step does to the controller and what it    *)
(* adds to the actions are carried along as one record.                    *)

UpdateButton(d, b, pressed) ==
  LET changed == b \notin d.known \/ (b \in d.pressed) # pressed IN
  [d EXCEPT !.known = @ \cup {b},
            !.pressed = IF pressed THEN @ \cup {b} ELSE @ \ {b},
            !.acted = IF changed /\ pressed THEN Plus(@, {b}) ELSE @]

(* Faulty: every press event is acted on, whatever is known of the button. *)
ActOnEvent(d, event) ==
  [UpdateButton(d, event.value.id, event.value.pressed) EXCEPT
     !.lastEvent = event.time,
     !.acted = IF event.value.pressed THEN Plus(d.acted, {event.value.id}) ELSE d.acted]

(* An event that is not newer than the last one is ignored. *)
ProcessEvent(d, event) ==
  IF event.time > d.lastEvent
  THEN UpdateButton([d EXCEPT !.lastEvent = event.time],
                    event.value.id, event.value.pressed)
  ELSE d

(* The first status says only what is pressed already. *)
ProcessStatus(d, inputs) ==
  [d EXCEPT !.known = Buttons, !.pressed = inputs,
            !.acted = Plus(@, (inputs \ d.pressed) \cap d.known)]

WithStatus(d, state) ==
  IF "inputs" \in DOMAIN state THEN ProcessStatus(d, state["inputs"].value) ELSE d

ProcessEvents(d, events) ==
  LET after[n \in 0 .. Len(events)] ==
        IF n = 0 THEN d ELSE ProcessEvent(after[n - 1], events[n])
  IN  after[Len(events)]

(* Faulty: the status is taken first. *)
ProcessStatusFirst(d, frame) == ProcessEvents(WithStatus(d, frame.state), frame.events)

ProcessSamples(d, frame) == WithStatus(ProcessEvents(d, frame.events), frame.state)

Controller(c) == [known |-> input[c].known, pressed |-> input[c].pressed,
                  lastEvent |-> input[c].lastEvent, acted |-> acted[c]]

ReadSamples(c) ==
  /\ Read(c)
  /\ LET after == ProcessSamples(Controller(c), Head(channel[c]))
     IN  /\ input' = [input EXCEPT ![c] = [known |-> after.known,
                        pressed |-> after.pressed, lastEvent |-> after.lastEvent]]
         /\ acted' = [acted EXCEPT ![c] = after.acted]
  /\ UNCHANGED <<wheelVars, due>>

(* The controller lives as long as the dash, through any number of         *)
(* connections.  The reconnect timer runs for 500 ms, many display frames: *)
(* nothing that was pending when a dash was last connected still is.       *)
DashLifeStep(c) ==
  \/ /\ DashStart(c)
     /\ input' = [input EXCEPT ![c] = NewController]
     /\ UNCHANGED <<wheelVars, acted, due>>
  \/ /\ Connect(c)
     /\ pendingEvents = <<>>
     /\ due' = [due EXCEPT ![c] = acted[c]]
     /\ UNCHANGED <<wheelVars, dashVars>>
  \/ /\ NoticeClosed(c) \/ DashStop(c)
     /\ UNCHANGED <<wheelVars, dashVars, due>>

InputNext ==
  \/ \E b \in Buttons : Edge(b)
  \/ Status
  \/ /\ ~statusDue
     /\ ServerStep
     /\ UNCHANGED <<wheelVars, dashVars, due>>
  \/ \E c \in Clients : ~statusDue /\ (ReadSamples(c) \/ DashLifeStep(c))

InputSpec == InputInit /\ [][InputNext]_inputVars

-----------------------------------------------------------------------------
(* Properties *)

(* A dash never acts more often on a button than it was pressed: neither   *)
(* the status after the event, nor the snapshot of a new connection, nor   *)
(* an event still pending when the snapshot was sent is a second press.    *)
(* A status left over from an earlier connection is another matter: see    *)
(* ViewCatchesUp.                                                          *)
NoPhantomAction ==
  ~leftover => \A c \in Clients : \A b \in Buttons : acted[c][b] <= presses[b]

CaughtUp(c) == link[c] = "accepted" /\ channel[c] = <<>> /\ pendingEvents = <<>>

(* A connected dash acts on every press, however short: a press and a      *)
(* release within one display frame, or a press right after a reconnect,   *)
(* is not lost.                                                            *)
EveryPressActs ==
  ~leftover =>
    \A c \in Clients : CaughtUp(c) => \A b \in Buttons : acted[c][b] >= due[c][b]
=============================================================================

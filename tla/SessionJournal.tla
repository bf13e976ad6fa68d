--------------------------- MODULE SessionJournal ---------------------------
(***************************************************************************)
(* What the logging half of vehicle_loggerd promises about a session,      *)
(* without threads, locks or files: records accepted while a session is    *)
(* open are settled (written, or counted as a failed write) one at a time  *)
(* and in the order of acceptance; no more than Backlog of them wait; and  *)
(* a session is sealed, the state in which its files may be shown as       *)
(* complete and deleted, only once nothing waits.                          *)
(* AsyncSessionLogger is shown to implement this module.                   *)
(***************************************************************************)
EXTENDS Naturals, Sequences

CONSTANTS
  Sessions,   (* the sessions that may be recorded, numbered by start *)
  Record,     (* the records that may be offered                      *)
  Backlog     (* the most records that may be accepted but unsettled  *)

VARIABLES
  status,     (* status[s] \in {"unused", "open", "sealed", "abandoned"} *)
  accepted,   (* accepted[s]: the records session s took charge of       *)
  settled     (* settled[s]: their outcomes so far, [record, ok]         *)

jvars == <<status, accepted, settled>>

JInit ==
  /\ status = [s \in Sessions |-> "unused"]
  /\ accepted = [s \in Sessions |-> <<>>]
  /\ settled = [s \in Sessions |-> <<>>]

Open(s) ==
  /\ status[s] = "unused"
  /\ \A t \in Sessions : status[t] # "open"
  /\ status' = [status EXCEPT ![s] = "open"]
  /\ UNCHANGED <<accepted, settled>>

Accept(s, r) ==
  /\ status[s] = "open"
  /\ Len(accepted[s]) - Len(settled[s]) < Backlog
  /\ accepted' = [accepted EXCEPT ![s] = Append(@, r)]
  /\ UNCHANGED <<status, settled>>

(* The oldest unsettled record is the one that is settled. *)
Settle(s, ok) ==
  /\ status[s] = "open"
  /\ Len(settled[s]) < Len(accepted[s])
  /\ settled' = [settled EXCEPT ![s] =
       Append(@, [record |-> accepted[s][Len(@) + 1], ok |-> ok])]
  /\ UNCHANGED <<status, accepted>>

Seal(s) ==
  /\ status[s] = "open"
  /\ Len(settled[s]) = Len(accepted[s])
  /\ status' = [status EXCEPT ![s] = "sealed"]
  /\ UNCHANGED <<accepted, settled>>

(* A crash, a failed start or a failed finalization. *)
Abandon(s) ==
  /\ status[s] \in {"unused", "open"}
  /\ status' = [status EXCEPT ![s] = "abandoned"]
  /\ UNCHANGED <<accepted, settled>>

JNext ==
  \E s \in Sessions :
    \/ Open(s)
    \/ \E r \in Record : Accept(s, r)
    \/ \E ok \in BOOLEAN : Settle(s, ok)
    \/ Seal(s)
    \/ Abandon(s)

JSpec == JInit /\ [][JNext]_jvars
=============================================================================

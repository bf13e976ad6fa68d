----------------------------- MODULE ReplayPlayer -----------------------------
(***************************************************************************)
(* What a replay promises, whatever its timing: it plays the records of a  *)
(* recording one after the other, from the start or from where it was last *)
(* moved to, only while it is neither paused nor at rest, and comes to     *)
(* rest after the last one.                                                *)
(***************************************************************************)
EXTENDS Naturals, Sequences

VARIABLES
  total,    (* records in the recording                                    *)
  state,    (* "resting", "playing" or "paused"                            *)
  cursor,   (* the record to be played next                                *)
  played    (* the records played since the replay was last moved          *)

pVars == <<total, state, cursor, played>>

PInit == total = 0 /\ state = "resting" /\ cursor = 1 /\ played = <<>>

(* At the end there is nothing left to play. *)
StateAt(c) == IF c > total THEN "resting" ELSE "playing"

MoveTo(c) == cursor' = c /\ played' = <<>>

(* The recording is opened once. *)
Begin ==
  /\ state = "resting"
  /\ total' \in Nat \ {0} /\ total \in {0, total'}
  /\ state' = "playing"
  /\ MoveTo(1)

Play(count) ==
  /\ state = "playing"
  /\ cursor + count <= total + 1
  /\ played' = played \o [i \in 1 .. count |-> cursor + i - 1]
  /\ cursor' = cursor + count
  /\ state' = StateAt(cursor')
  /\ UNCHANGED total

Pause ==
  /\ state = "playing"
  /\ state' = "paused"
  /\ UNCHANGED <<total, cursor, played>>

Resume ==
  /\ state = "paused"
  /\ state' = StateAt(cursor)
  /\ UNCHANGED <<total, cursor, played>>

(* A replay at rest is paused where it is moved to. *)
Seek ==
  /\ total > 0
  /\ \E c \in 1 .. total + 1 :
       /\ MoveTo(c)
       /\ state' = IF state = "playing" THEN StateAt(c) ELSE "paused"
  /\ UNCHANGED total

PNext ==
  \/ Begin \/ Pause \/ Resume \/ Seek
  \/ \E count \in 1 .. total : Play(count)

PSpec == PInit /\ [][PNext]_pVars
=============================================================================

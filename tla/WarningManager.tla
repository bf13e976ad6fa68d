--------------------------- MODULE WarningManager ---------------------------
(***************************************************************************)
(* The warnings of the dash and the driver's actions on them               *)
(* (dash_ui/src/backend/warning_manager.cpp).  The calls are functions on  *)
(* the manager's state, as an evaluation makes several of them.            *)
(***************************************************************************)
EXTENDS Integers, Sequences

CONSTANTS
  Ids,    (* what can be warned of                                         *)
  Demos   (* of which --demo-warning warns                                 *)

ASSUME ManagerAssumption == Demos \subseteq Ids

VARIABLE manager   (* warnings_ and currentUnacknowledged_ *)

Rank == [critical |-> 2, warning |-> 1]
Severities == DOMAIN Rank
Actions == {"up", "down", "activate", "menu"}

-----------------------------------------------------------------------------
AtLeastZero(n) == IF n < 0 THEN 0 ELSE n
UpTo(limit, n) == IF n > limit THEN limit ELSE n

(* The elements of a list at some of its positions, in their order. *)
Selected(list, positions) ==
  LET among[n \in 0 .. Len(list)] ==
        IF n = 0 THEN <<>>
        ELSE IF n \in positions THEN Append(among[n - 1], list[n])
        ELSE among[n - 1]
  IN  among[Len(list)]

(* unacknowledgedIndices *)
Pending(list) ==
  Selected([i \in DOMAIN list |-> i], {i \in DOMAIN list : ~list[i].acknowledged})

PendingIndex(m) == AtLeastZero(UpTo(Len(Pending(m.warnings)) - 1, m.current))
OverlayVisible(m) == Pending(m.warnings) # <<>>

(* currentWarning *)
Shown(m) == m.warnings[Pending(m.warnings)[PendingIndex(m) + 1]]

Holds(list, id) == \E i \in DOMAIN list : list[i].id = id

(* A warning that gets worse is to be acknowledged again. *)
Update(warning, severity) ==
  [warning EXCEPT !.severity = severity,
                  !.acknowledged = @ /\ Rank[severity] <= Rank[warning.severity]]

RaiseWarning(m, id, severity) ==
  LET list == IF Holds(m.warnings, id)
              THEN [i \in DOMAIN m.warnings |->
                      IF m.warnings[i].id = id THEN Update(m.warnings[i], severity)
                      ELSE m.warnings[i]]
              ELSE Append(m.warnings,
                          [id |-> id, severity |-> severity, acknowledged |-> FALSE])
  IN  [warnings |-> list, current |-> AtLeastZero(Len(Pending(list)) - 1)]

ClearWarning(m, id) ==
  LET list == Selected(m.warnings, {i \in DOMAIN m.warnings : m.warnings[i].id # id})
  IN  IF Holds(m.warnings, id)
      THEN [warnings |-> list,
            current |-> AtLeastZero(UpTo(Len(Pending(list)) - 1, m.current))]
      ELSE m

(* Faulty: the first warning is acknowledged, whichever is shown. *)
AcknowledgeFirst(m) ==
  LET list == [m.warnings EXCEPT ![Head(Pending(m.warnings))].acknowledged = TRUE]
  IN  [warnings |-> list, current |-> AtLeastZero(UpTo(Len(Pending(list)) - 1, m.current))]

AcknowledgeCurrent(m) ==
  LET index == PendingIndex(m)
      list == [m.warnings EXCEPT ![Pending(m.warnings)[index + 1]].acknowledged = TRUE]
  IN  [warnings |-> list, current |-> AtLeastZero(UpTo(Len(Pending(list)) - 1, index))]

MoveCurrent(m, delta) ==
  LET count == Len(Pending(m.warnings))
  IN  IF count < 2 THEN m ELSE [m EXCEPT !.current = (@ + delta + count) % count]

(* An action that comes when no warning is shown is left to the pages.     *)
HandleAction(action) ==
  /\ OverlayVisible(manager)
  /\ manager' = CASE action = "up" -> MoveCurrent(manager, -1)
                  [] action = "down" -> MoveCurrent(manager, 1)
                  [] action = "activate" -> AcknowledgeCurrent(manager)
                  [] action = "menu" -> manager

-----------------------------------------------------------------------------
NoWarnings == [warnings |-> <<>>, current |-> 0]

(* With --demo-warning the dash starts with a warning of no signal. *)
ManagerInit ==
  manager \in {NoWarnings} \cup {RaiseWarning(NoWarnings, id, "critical") : id \in Demos}
=============================================================================

---------------------------- MODULE MCDashInput ----------------------------
(* DashInput with up to two dashes and up to two buttons. *)
EXTENDS DashInput, TLC

CONSTANTS c1, c2, b1

TwoClients == {c1, c2}
OneClient == {c1}
OneButton == {b1}
ClientSymmetry == Permutations(TwoClients)
InputStates == SUBSET Buttons
ButtonEdges == [id : Buttons, pressed : BOOLEAN]
=============================================================================

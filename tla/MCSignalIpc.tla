---------------------------- MODULE MCSignalIpc ----------------------------
(* SignalIpc with two dashes that are told apart by nothing but their name. *)
EXTENDS SignalIpc, TLC

CONSTANTS c1, c2

TwoClients == {c1, c2}
OneClient == {c1}
ClientSymmetry == Permutations(TwoClients)
=============================================================================

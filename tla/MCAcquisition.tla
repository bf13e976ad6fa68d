--------------------------- MODULE MCAcquisition ---------------------------
(* Instance of Acquisition: logging configurations with a rate group, with *)
(* a default that is native, with the signal off, and one that names a     *)
(* group that is not defined. *)
EXTENDS Acquisition

NoSignals == [s \in {} |-> "none"]

Rates ==
  {[groups |-> {"rate", "native"}, default |-> "native", signals |-> [rpm |-> "rate"]],
   [groups |-> {"rate", "native"}, default |-> "native", signals |-> NoSignals],
   [groups |-> {"off", "native"}, default |-> "native", signals |-> [rpm |-> "off"]],
   [groups |-> {"native"}, default |-> "native", signals |-> [rpm |-> "fast"]]}
=============================================================================

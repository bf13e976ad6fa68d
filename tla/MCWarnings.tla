----------------------------- MODULE MCWarnings -----------------------------
(* A signal with three of the four limits, one of which follows a signal.  *)
EXTENDS Warnings

ThreeRules ==
  [low_warning |-> [source |-> "value", value |-> 0, fallback |-> FALSE, hysteresis |-> 0,
                    activationDelay |-> 0, clearDelay |-> 1],
   high_caution |-> [source |-> "value", value |-> 2, fallback |-> FALSE, hysteresis |-> 1,
                     activationDelay |-> 1, clearDelay |-> 1],
   high_warning |-> [source |-> "signal", value |-> 4, fallback |-> TRUE, hysteresis |-> 1,
                     activationDelay |-> 1, clearDelay |-> 2]]

(* A freshness rule and a condition that is taken for false while nothing  *)
(* is heard of its signal; one that is then taken for true, without a      *)
(* freshness rule; no condition.                                           *)
ThreePresentations ==
  {[freshness |-> TRUE, enabledWhen |-> TRUE, fallback |-> FALSE],
   [freshness |-> FALSE, enabledWhen |-> TRUE, fallback |-> TRUE],
   [freshness |-> TRUE, enabledWhen |-> FALSE, fallback |-> FALSE]}
=============================================================================

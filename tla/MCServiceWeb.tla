---------------------------- MODULE MCServiceWeb ----------------------------
(* Two browsers, one of which can be refused, and candidates that fit, do  *)
(* not fit, or fit no longer when a companion file has changed.            *)
EXTENDS ServiceWeb

Naming(names) == [sound |-> TRUE, names |-> names]
Empty == Naming({})
First == [dbc |-> Naming({"speed"}), logging |-> Empty, dash |-> Empty]

Uploads == {[type |-> "dbc", contents |-> Empty],
            [type |-> "dash", contents |-> Naming({"speed"})]}
OtherEdits == {[type |-> "dbc", contents |-> Empty]}
=============================================================================

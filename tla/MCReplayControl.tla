--------------------------- MODULE MCReplayControl ---------------------------
(* ReplayControl with one recording of two records. *)
EXTENDS ReplayControl

Rec(t) == [kind |-> "record", time |-> t]
Files == {<<Rec(1), Rec(2)>>}
=============================================================================

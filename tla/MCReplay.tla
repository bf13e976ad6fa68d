------------------------------ MODULE MCReplay ------------------------------
(* Replay with five short recordings: two can be played, one is out of      *)
(* order, one damaged and one empty.                                        *)
EXTENDS Replay

Rec(t) == [kind |-> "record", time |-> t]
Other(k) == [kind |-> k, time |-> 0]
Files == {<<Rec(2), Other("ignored"), Rec(3), Rec(3), Rec(5)>>,
          <<Rec(1), Rec(2), Rec(5), Rec(8)>>,
          <<Rec(1), Rec(3), Rec(2)>>, <<Rec(4), Other("bad")>>, <<Other("ignored")>>}
=============================================================================

--------------------------- MODULE MCLogRetention ---------------------------
(* LogRetention with small limits, which the configuration gives. *)
EXTENDS LogRetention
=============================================================================

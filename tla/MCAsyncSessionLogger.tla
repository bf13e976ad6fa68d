------------------------ MODULE MCAsyncSessionLogger ------------------------
(* AsyncSessionLogger on small instances; the .cfg files give the values.  *)
EXTENDS AsyncSessionLogger
=============================================================================

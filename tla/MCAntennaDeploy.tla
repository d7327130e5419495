--------------------------- MODULE MCAntennaDeploy ---------------------------
(* The instance of AntennaDeploy for TLC: several turns fit in the timeout.   *)
EXTENDS AntennaDeploy
=============================================================================

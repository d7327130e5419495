----------------------------- MODULE MCTcRouting -----------------------------
(* Instances of TcRouting for TLC.                                          *)
EXTENDS TcRouting

Tc(service, sub, defect) == [service |-> service, sub |-> sub, defect |-> defect]

(* Every branch of the inspection and of the routing.                        *)
AllKinds ==
  {Tc("hk", "NEW_HK_DEFINITION", "none"), Tc("hk", "NEW_HK_DEFINITION", "argument"),
   Tc("hk", "ENABLE_PARAM_REPORT", "apid"), Tc("hk", "NEW_DIAG_DEFINITION", "none"),
   Tc("hk", "HK_REPORT", "none"), Tc("time", "UPDATE_REPORT_FREQ", "apid"),
   Tc("mem", "MEMORY_LOAD_ABS", "argument"), Tc("mem", "MEMORY_DUMP_ABS", "none"),
   Tc("fdir", "RESET_TASK", "none"), Tc("unknown", "NEW_HK_DEFINITION", "length"),
   Tc("k", "START_EXPERIMENT_ARM", "none"), Tc("k", "START_EXPERIMENT_ARM", "pec"),
   Tc("k", "START_EXPERIMENT_FIRE", "none"), Tc("k", "SET_VARIABLE", "time"),
   Tc("k", "GET_PARAMETER", "header"), Tc("k", "ADD_SCHEDULE", "none"),
   Tc("k", "DEPLOY_ANTENNA", "none")}
=============================================================================

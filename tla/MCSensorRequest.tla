-------------------------- MODULE MCSensorRequest --------------------------
(* Instance of SensorRequest for TLC: scheduling and housekeeping, which    *)
(* reads the register of scheduling, make two calls each.                   *)
EXTENDS SensorRequest, TLC

CONSTANTS eps, opr, hk, sched, battv, batti
MCSenders == {eps, opr, hk, sched}
MCSensors == {battv, batti}
MCCalls == hk :> 2 @@ sched :> 2
=============================================================================

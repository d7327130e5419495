---------------------------- MODULE MCBatteryBalance ----------------------------
(* An hour of two minutes, a day of three hours, days and bytes modulo 3; the *)
(* batteries are balanced every minute, and from an interval of 1 on no more. *)
(* Ground sets variables to 1, or to 2, the last hour of a day.  One command  *)
(* is scheduled for the first minute of all, one for the second day.          *)
EXTENDS BatteryBalance

MCCommandTimes == {1, Packed(1, 0, 0)}
=============================================================================

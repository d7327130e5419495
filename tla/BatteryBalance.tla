--------------------------- MODULE BatteryBalance ---------------------------
(***************************************************************************)
(* The balancing of the batteries by the EPS task (eps.c), which counts    *)
(* minutes, composed with the time of the satellite and the scheduler.     *)
(* Ground sets the interval with the same command as the time, and as no   *)
(* case of set_obc_variable ends with a break, whenever it sets the time.  *)
(*                                                                         *)
(* The loop of the task runs every ten seconds, so at least once between   *)
(* an update of the time and the next minute.  Which switch of the EPS is  *)
(* set is left out, and so is the heater: battery_heater writes through a  *)
(* null pointer.                                                           *)
(***************************************************************************)
EXTENDS Scheduling

CONSTANT EpsInterval    \* minutes between two balancings (2)

ASSUME BalanceAssumption ==
  /\ EpsInterval \in Nat /\ EpsInterval < Minutes - 1
  /\ Word >= Byte + Minutes /\ \A v \in GroundValues : v < Word - Minutes

VARIABLES
  eps_balance_interval, last_balance_minute,
  epsStarting,          \* the task has been created and has not run yet
  epsRan                \* its loop has run since the last update of the time

epsVars == <<eps_balance_interval, last_balance_minute, epsStarting, epsRan>>
allVars == <<vars, epsVars>>

InitAll ==
  /\ Init
  /\ eps_balance_interval = 0 /\ last_balance_minute = 0
  /\ epsStarting = TRUE /\ epsRan = FALSE

-----------------------------------------------------------------------------
(* The steps of the other parts, and what they do to this one. *)

Minute ==
  /\ Tick /\ UNCHANGED schedVars
  /\ epsRan \/ SAFE_MODE = 1
  /\ UNCHANGED epsVars

TimeRuns ==
  /\ TimeTask /\ UNCHANGED schedVars
  /\ epsRan' = (epsRan /\ pc # "resetAlarm")
  /\ UNCHANGED <<eps_balance_interval, last_balance_minute, epsStarting>>

FdirRuns ==
  \/ /\ SuspendTasks \/ LeaveSafeMode \/ TimeUpdate
     /\ UNCHANGED <<schedVars, epsVars>>
  \/ \E restarted \in Restarts :
     /\ RestartTasks(restarted)
     /\ epsStarting' = (epsStarting \/ "eps" \in restarted)
     /\ UNCHANGED <<eps_balance_interval, last_balance_minute, epsRan>>

SchedulerRuns == Scheduler /\ UNCHANGED epsVars

SetIntervalOnly ==
  /\ Event
  /\ UNCHANGED <<rtcVars, pc, readVars, timeOfDay, modeVars, gap, fdir_updated>>

SetVariable ==
  \E val \in GroundValues :
    /\ (\E i \in DOMAIN Settable : SetObcVariable(i, val)) \/ SetIntervalOnly
    /\ eps_balance_interval' = val
    /\ UNCHANGED <<schedVars, last_balance_minute, epsStarting, epsRan>>

-----------------------------------------------------------------------------
(* The EPS task.                                                              *)

EpsReady == Awake("eps") /\ UNCHANGED vars

StartEps ==
  /\ epsStarting /\ EpsReady
  /\ eps_balance_interval' = EpsInterval /\ epsStarting' = FALSE
  /\ UNCHANGED <<last_balance_minute, epsRan>>

(* Faulty variant: the difference of the two minutes is signed. *)
MinutesSinceSigned(last) == CURRENT_MINUTE - last

(* abs(CURRENT_MINUTE) - last_balance_minute: an int less a uint32_t, which   *)
(* is unsigned, so that the difference is large when the hour has changed.    *)
MinutesSince(last) == (CURRENT_MINUTE - last + Word) % Word

(* Faulty variant: balancing is due as soon as the interval has elapsed. *)
BalanceDueAlready == MinutesSince(last_balance_minute) >= eps_balance_interval

BalanceDue == MinutesSince(last_balance_minute) > eps_balance_interval

(* A pass of the loop that calls battery_balance, and one that does not. *)
Balance ==
  /\ ~epsStarting /\ EpsReady /\ BalanceDue
  /\ last_balance_minute' = CURRENT_MINUTE /\ epsRan' = TRUE
  /\ UNCHANGED <<eps_balance_interval, epsStarting>>

EpsIdle ==
  /\ ~epsStarting /\ EpsReady /\ ~BalanceDue
  /\ epsRan' = TRUE
  /\ UNCHANGED <<eps_balance_interval, last_balance_minute, epsStarting>>

Eps == StartEps \/ Balance \/ EpsIdle

-----------------------------------------------------------------------------
NextAll == Minute \/ TimeRuns \/ FdirRuns \/ SchedulerRuns \/ SetVariable \/ Eps

SpecAll == InitAll /\ [][NextAll]_allVars

(* The clock ticks, and the time task and the EPS task, which share a         *)
(* priority, are given their slices of time.                                  *)
FairSpecAll ==
  SpecAll /\ WF_allVars(Minute) /\ WF_allVars(TimeRuns) /\ WF_allVars(Eps)

-----------------------------------------------------------------------------
TypeOKAll ==
  /\ TypeOK
  /\ eps_balance_interval \in GroundValues \cup {0, EpsInterval}
  /\ last_balance_minute \in 0..Byte-1
  /\ epsStarting \in BOOLEAN /\ epsRan \in BOOLEAN

(* Hours, days, counters and intervals keep the widths of their variables, and *)
(* the days are counted right.                                                *)
TimedInv == TypeOKAll /\ DayKept

Short == eps_balance_interval < Minutes - 1

(* The batteries are balanced again and again, across the change of the hour  *)
(* too, as long as the interval is shorter than 59 minutes and SAFE_MODE is    *)
(* not entered again and again, or never left.                                *)
BalancesWhileShort ==
  <>[]~Short \/ []<>(SAFE_MODE = 1) \/ []<><<Balance>>_allVars

(* With an interval of 59 minutes or more, as ground leaves behind when it    *)
(* sets the day to 59 or later (set_obc_variable falls through to             *)
(* EPS_BAL_INTV), balancing ends for good once it was done at minute 0.       *)
LongIntervalEndsIt == <>[]~Short => <>[][~Balance]_allVars
=============================================================================

---------------------------- MODULE TimeKeeping ----------------------------
(***************************************************************************)
(* The absolute time of the satellite: the real time clock (RTC, a DS3234  *)
(* on SPI, rtc.c), the time task that copies it every minute               *)
(* (time_manage.c), FDIR, which takes over in SAFE_MODE (fdir.c:           *)
(* time_update), and the router, which sets the time on a command of       *)
(* ground (obc_packet_router.c: set_obc_variable).                         *)
(*                                                                         *)
(* The RTC counts hours and minutes; the day exists only in ABSOLUTE_DAY,  *)
(* which an update increments when it finds the hour changed from the last *)
(* one.  The RTC's alarm flag rises every minute; rtc_get reads one        *)
(* register per SPI transfer, so that the clock may advance between two of *)
(* them.  Seconds are left out.                                            *)
(***************************************************************************)
EXTENDS Integers

CONSTANTS Byte,              \* values of a uint8_t (256); days wrap there
          Hours, Minutes,    \* length of a day and of an hour (24 and 60)
          GroundValues,      \* values that ground may set a variable to
          MaxEvents          \* bound: minutes that begin during an update,
                             \*   entries of SAFE_MODE from outside, variables set

ASSUME TimeAssumption ==
  /\ Byte \in Nat /\ Hours \in 2..Byte /\ Minutes \in 2..Byte
  /\ GroundValues \subseteq Nat
  /\ MaxEvents \in Nat

VARIABLES
  clock,            \* the RTC; its day is an observer, the chip has no such count
  alarm,            \* its alarm 2 flag (A2F)
  pc, read_minute, read_hour,   \* the time task in its loop, and in rtc_get
  time,             \* the struct "time" of time_manage.c
  ABSOLUTE_DAY, CURRENT_HOUR, CURRENT_MINUTE, CURRENT_TIME,
  SAFE_MODE, suspended,         \* and the tasks that FDIR has suspended
  events,           \* how much of the bound is used
  gap,              \* observer: minutes since the hour was read, or Lost
  fdir_updated      \* observer: in SAFE_MODE, time_update has run since the last
                    \*   other change

rtcVars == <<clock, alarm>>
readVars == <<read_minute, read_hour, time>>
timeOfDay == <<ABSOLUTE_DAY, CURRENT_HOUR, CURRENT_MINUTE, CURRENT_TIME>>
modeVars == <<SAFE_MODE, suspended>>
timeVars == <<rtcVars, pc, readVars, timeOfDay, modeVars,
              events, gap, fdir_updated>>

(* The tasks that FDIR suspends, as far as they matter here, and those that a  *)
(* restart_task creates again: the cases of its switch fall through, so that   *)
(* with a task all later ones are, or none of these with one after them.      *)
Tasks == {"time", "eps", "scheduling"}
Restarts == {Tasks, {"eps", "scheduling"}, {"scheduling"}, {}}

LastHour == Hours - 1

(* The value of gap once the days need not be counted right any more: it was   *)
(* more than an hour, or one of the exceptions to DayKept has happened.       *)
Lost == Minutes + 1

(* CURRENT_TIME packs day, hour, minute and second into one word. *)
Packed(day, hour, min) == ((day * Byte + hour) * Byte + min) * Byte

TimeInit ==
  /\ clock = [day |-> 0, hour |-> 0, minute |-> 0] /\ alarm = 0
  /\ pc = "poll" /\ read_minute = 0 /\ read_hour = 0
  /\ time = [hour |-> 0, minute |-> 0]
  /\ ABSOLUTE_DAY = 0 /\ CURRENT_HOUR = 0 /\ CURRENT_MINUTE = 0 /\ CURRENT_TIME = 0
  /\ SAFE_MODE = 0 /\ suspended = {}
  /\ events = 0
  /\ gap = 0 /\ fdir_updated = 0

-----------------------------------------------------------------------------
(* The clock *)

NextMinute(c) ==
  LET newHour == c.minute = Minutes - 1
      newDay  == newHour /\ c.hour = LastHour
  IN [minute |-> (c.minute + 1) % Minutes,
      hour   |-> IF newHour THEN (c.hour + 1) % Hours ELSE c.hour,
      day    |-> IF newDay THEN (c.day + 1) % Byte ELSE c.day]

Event == events < MaxEvents /\ events' = events + 1

(* Bound: one more for a restart within SAFE_MODE. *)
EventInMode == events <= MaxEvents /\ events' = events + 1

(* The last minute has been served; otherwise the new one comes early. *)
Served == alarm = 0 /\ (pc = "poll" \/ "time" \in suspended)

(* The day of the clock, an observer, is not followed any further than needed. *)
Tick ==
  /\ IF Served THEN UNCHANGED events ELSE Event
  /\ alarm' = 1
  /\ gap' = IF gap = Lost THEN Lost ELSE gap + 1
  /\ clock' = IF gap' = Lost THEN [NextMinute(clock) EXCEPT !.day = 0] ELSE NextMinute(clock)
  /\ UNCHANGED <<pc, readVars, timeOfDay, modeVars, fdir_updated>>

-----------------------------------------------------------------------------
(* The time task.  It reads the minute and the hour in two transfers, stores *)
(* them one by one, and updates the time in statements that FDIR may come    *)
(* between.                                                                  *)

Runs(from, to) ==
  /\ "time" \notin suspended /\ pc = from /\ pc' = to
  /\ UNCHANGED <<modeVars, events, fdir_updated>>

(* rtc_triggered_a2 *)
PollAlarm ==
  /\ alarm = 1 /\ Runs("poll", "getMinute")
  /\ UNCHANGED <<rtcVars, readVars, timeOfDay, gap>>

GetMinute ==
  /\ Runs("getMinute", "getHour")
  /\ read_minute' = clock.minute
  /\ UNCHANGED <<rtcVars, read_hour, time, timeOfDay, gap>>

GetHour ==
  /\ Runs("getHour", "storeHour")
  /\ read_hour' = clock.hour
  /\ gap' = IF gap = Lost THEN Lost ELSE 0
  /\ time' = [time EXCEPT !.minute = read_minute] /\ read_minute' = 0
  /\ UNCHANGED <<rtcVars, timeOfDay>>

StoreHour ==
  /\ Runs("storeHour", "update")
  /\ time' = [time EXCEPT !.hour = read_hour] /\ read_hour' = 0
  /\ UNCHANGED <<rtcVars, read_minute, timeOfDay, gap>>

DayAfter(day, hour) == IF hour = LastHour THEN (day + 1) % Byte ELSE day

(* Faulty variant: the new hour is compared with the last one, not the old. *)
CompareNewHour ==
  /\ Runs("update", IF time.hour # CURRENT_HOUR THEN "setHour" ELSE "setTime")
  /\ CURRENT_MINUTE' = time.minute
  /\ ABSOLUTE_DAY' = IF time.hour # CURRENT_HOUR
                     THEN DayAfter(ABSOLUTE_DAY, time.hour) ELSE ABSOLUTE_DAY
  /\ UNCHANGED <<rtcVars, readVars, CURRENT_HOUR, CURRENT_TIME, gap>>

(* update_absolute_time up to the increment of the day. *)
CompareHour ==
  /\ Runs("update", IF time.hour # CURRENT_HOUR THEN "setHour" ELSE "setTime")
  /\ CURRENT_MINUTE' = time.minute
  /\ ABSOLUTE_DAY' = IF time.hour # CURRENT_HOUR
                     THEN DayAfter(ABSOLUTE_DAY, CURRENT_HOUR) ELSE ABSOLUTE_DAY
  /\ UNCHANGED <<rtcVars, readVars, CURRENT_HOUR, CURRENT_TIME, gap>>

SetHour ==
  /\ Runs("setHour", "setTime")
  /\ CURRENT_HOUR' = time.hour
  /\ UNCHANGED <<rtcVars, readVars, ABSOLUTE_DAY, CURRENT_MINUTE, CURRENT_TIME, gap>>

(* The second half of update_absolute_time; CURRENT_TIME, which is put together *)
(* in four statements there, is assigned at once.                             *)
SetTime ==
  /\ Runs("setTime", "resetAlarm")
  /\ CURRENT_TIME' = Packed(ABSOLUTE_DAY, CURRENT_HOUR, CURRENT_MINUTE)
  /\ UNCHANGED <<rtcVars, readVars, ABSOLUTE_DAY, CURRENT_HOUR, CURRENT_MINUTE, gap>>

(* rtc_reset_a2: an alarm that has risen since the poll is cleared unserved. *)
ResetAlarm ==
  /\ Runs("resetAlarm", "poll")
  /\ alarm' = 0
  /\ UNCHANGED <<clock, readVars, timeOfDay, gap>>

TimeTask ==
  \/ PollAlarm \/ GetMinute \/ GetHour \/ StoreHour
  \/ CompareHour \/ SetHour \/ SetTime \/ ResetAlarm

-----------------------------------------------------------------------------
(* FDIR, of the highest priority: no task runs in the middle of its actions,  *)
(* except where it waits.  enter_SAFE_MODE sets the flag, sends its reports,  *)
(* which wait a tick each once fdir_to_obc_fifo is full, and suspends the      *)
(* tasks only then; the loop of the mode begins when all are suspended.       *)

InLoop == SAFE_MODE = 1 /\ suspended = Tasks

(* It is called from the loop, too, and then finds suspended all tasks but     *)
(* those that restart_task has just created.                                  *)
EnterSafeMode(restarted) ==
  /\ \/ SAFE_MODE = 0 /\ Event
     \/ InLoop /\ restarted = {} /\ UNCHANGED events
     \/ InLoop /\ restarted # {} /\ EventInMode
  /\ SAFE_MODE' = 1 /\ suspended' = suspended \ restarted
  /\ fdir_updated' = IF "time" \in restarted THEN 0 ELSE fdir_updated

SuspendTasks ==
  /\ SAFE_MODE = 1 /\ ~InLoop
  /\ suspended' = Tasks
  /\ UNCHANGED <<rtcVars, pc, readVars, timeOfDay, SAFE_MODE, events, gap, fdir_updated>>

LeaveSafeMode ==
  /\ InLoop
  /\ SAFE_MODE' = 0 /\ suspended' = {} /\ fdir_updated' = 0
  /\ UNCHANGED <<rtcVars, pc, readVars, timeOfDay, events, gap>>

(* The task has read the hour and not assigned it yet. *)
Holding == {"storeHour", "update"}
Assigning == Holding \cup {"setHour"}

(* restart_task, which ends in enter_SAFE_MODE; or the latter alone, when none  *)
(* of the tasks is restarted.  The static variables of a task, the struct      *)
(* "time" among them, keep their values.                                      *)
RestartTask(restarted) ==
  /\ EnterSafeMode(restarted)
  /\ IF "time" \in restarted
     THEN /\ pc' = "poll" /\ read_minute' = 0 /\ read_hour' = 0
          /\ gap' = IF pc \in Assigning THEN Lost ELSE gap
     ELSE UNCHANGED <<pc, read_minute, read_hour, gap>>
  /\ UNCHANGED <<rtcVars, time, timeOfDay>>

(* The whole of update_absolute_time with the struct t. *)
UpdateAbsoluteTime(t) ==
  /\ CURRENT_MINUTE' = t.minute /\ CURRENT_HOUR' = t.hour
  /\ ABSOLUTE_DAY' = IF t.hour # CURRENT_HOUR
                     THEN DayAfter(ABSOLUTE_DAY, CURRENT_HOUR) ELSE ABSOLUTE_DAY
  /\ CURRENT_TIME' = Packed(ABSOLUTE_DAY', t.hour, t.minute)

FdirUpdate(t) ==
  /\ InLoop /\ alarm = 1
  /\ UpdateAbsoluteTime(t)
  /\ alarm' = 0 /\ fdir_updated' = 1
  /\ gap' = IF pc = "setHour" THEN Lost ELSE gap
  /\ UNCHANGED <<clock, pc, readVars, modeVars, events>>

(* Faulty variant: time_update passes on what it has read. *)
TimeUpdateFresh == FdirUpdate([hour |-> clock.hour, minute |-> clock.minute])

(* time_update.  rtc_get fills fdir.c's own static struct "time", while      *)
(* update_absolute_time reads the one of time_manage.c.                      *)
TimeUpdate == FdirUpdate(time)

-----------------------------------------------------------------------------
(* set_obc_variable: no case ends with a break, so that setting a variable   *)
(* sets all the later ones, too: the day also the hour and the minute.       *)

Settable == <<"ABS_TIME_D", "ABS_TIME_H", "ABS_TIME_M">>

SetObcVariable(i, val) ==
  LET Set(var, n) == IF i <= n THEN val % Byte ELSE var
  IN /\ Event
     /\ ABSOLUTE_DAY' = Set(ABSOLUTE_DAY, 1)
     /\ CURRENT_HOUR' = Set(CURRENT_HOUR, 2)
     /\ CURRENT_MINUTE' = Set(CURRENT_MINUTE, 3)
     /\ fdir_updated' = 0
     /\ gap' = IF i <= 2 THEN Lost ELSE gap
     /\ UNCHANGED <<rtcVars, pc, readVars, CURRENT_TIME, modeVars>>

-----------------------------------------------------------------------------
TimeTypeOK ==
  /\ clock \in [day : 0..Byte-1, hour : 0..LastHour, minute : 0..Minutes-1]
  /\ alarm \in 0..1
  /\ pc \in {"poll", "getMinute", "getHour", "storeHour", "update",
             "setHour", "setTime", "resetAlarm"}
  /\ read_minute \in 0..Minutes-1 /\ read_hour \in 0..LastHour
  /\ time \in [hour : 0..LastHour, minute : 0..Minutes-1]
  /\ ABSOLUTE_DAY \in 0..Byte-1 /\ CURRENT_HOUR \in 0..Byte-1
  /\ CURRENT_MINUTE \in 0..Byte-1 /\ CURRENT_TIME \in 0..Packed(Byte, 0, 0)-1
  /\ SAFE_MODE \in 0..1 /\ suspended \subseteq Tasks /\ (SAFE_MODE = 0 => suspended = {})
  /\ events \in 0..MaxEvents+1
  /\ gap \in 0..Lost /\ fdir_updated \in 0..1

(* The hour up to which the days have been counted. *)
HourCounted == IF pc = "setHour" THEN time.hour ELSE CURRENT_HOUR

(* No day is lost or counted twice: as long as the time task has read the    *)
(* hour at least once in every hour, ABSOLUTE_DAY is the day, or the one     *)
(* before while the update that follows midnight is still to come.  This     *)
(* holds through late minutes, torn reads, restarts of the task and stays in *)
(* SAFE_MODE, with exceptions that set gap to Lost: FDIR updates between the  *)
(* increment of the day and the assignment of the hour (time_manage.c:        *)
(* 172-173), or restarts a task that has read the hour and not assigned it,   *)
(* or ground sets the day or the hour.                                       *)
DayKept ==
  gap # Lost /\ pc \notin Holding =>
    ABSOLUTE_DAY =
      IF HourCounted = LastHour /\ clock.hour # LastHour
      THEN (clock.day + Byte - 1) % Byte
      ELSE clock.day

(* In SAFE_MODE time stands still: once time_update has served one alarm,    *)
(* the time of the satellite does not change any more until the mode is      *)
(* left, ground sets it, or the time task is restarted (and runs while        *)
(* enter_SAFE_MODE waits to send its reports): fdir.c and time_manage.c each  *)
(* have a static struct "time", and what is read into the one is not what the *)
(* other holds.  Entries of the mode within the mode, and restarts of tasks    *)
(* after the time task, do not set it going.                                  *)
FrozenInSafeMode ==
  [][SAFE_MODE = 1 /\ SAFE_MODE' = 1 /\ fdir_updated = 1 /\ fdir_updated' = 1
       => UNCHANGED timeOfDay]_timeVars
=============================================================================
